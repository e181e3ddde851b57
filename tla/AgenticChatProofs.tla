-------------------------- MODULE AgenticChatProofs --------------------------
(***************************************************************************)
(* Proofs about AgenticChat, for every number of prompts and every bound:  *)
(* what chatDb.ts makes of a history; the inductive invariant for the      *)
(* approvals (IInv), what the parts of the handlers do to it and that      *)
(* every action preserves it; then the same for the history (HistInv).     *)
(***************************************************************************)
EXTENDS AgenticChat, TLAPS

(***************************************************************************)
(* The history that a request sends                                        *)
(***************************************************************************)
LEMMA LenProperties == \A S : \A s \in Seq(S) : Len(s) \in Nat /\ s \in [1..Len(s) -> S]
OBVIOUS

LEMMA EmptyProperties == \A S : \A s \in Seq(S) : s = <<>> <=> Len(s) = 0
OBVIOUS

LEMMA AppendProperties ==
    \A S : \A s \in Seq(S), e \in S :
        /\ Append(s, e) \in Seq(S) /\ Len(Append(s, e)) = Len(s) + 1
        /\ \A i \in 1..Len(s) : Append(s, e)[i] = s[i]
        /\ Append(s, e)[Len(s) + 1] = e
OBVIOUS

\* The end of a sequence.
LEMMA SuffixType == \A S : \A s \in Seq(S), m \in Nat \ {0} : SubSeq(s, m, Len(s)) \in Seq(S)
OBVIOUS

LEMMA SuffixProperties ==
    \A S : \A s \in Seq(S) : \A a \in 0..Len(s) :
        /\ SubSeq(s, a + 1, Len(s)) \in Seq(S)
        /\ Len(SubSeq(s, a + 1, Len(s))) = Len(s) - a
        /\ \A i \in 1..(Len(s) - a) : SubSeq(s, a + 1, Len(s))[i] = s[a + i]
OBVIOUS

\* How often a loop of at most n runs runs that stops after one of these numbers of runs.
Runs(stops, n) == IF stops = {} THEN n ELSE CHOOSE k \in stops : TRUE

\* A loop runs a number of times, and as often as the only number it stops after says.
LEMMA RunsValue ==
    ASSUME NEW n \in Nat, NEW stops \in SUBSET Nat
    PROVE  /\ Runs(stops, n) \in Nat
           /\ stops = {} => Runs(stops, n) = n
           /\ \A k : stops = {k} => Runs(stops, n) = k
<1>1. CASE stops = {}
  BY <1>1 DEF Runs
<1>2. CASE stops # {}
  <2>1. Runs(stops, n) \in stops
    BY <1>2 DEF Runs
  <2>2. Runs(stops, n) \in Nat
    BY <2>1
  <2>3. \A k : stops = {k} => Runs(stops, n) = k
    BY <2>1
  <2> QED BY <1>2, <2>2, <2>3
<1> QED BY <1>1, <1>2

\* The loops of ensureValidMessageSequence drop a number of messages.
LEMMA FirstSentType ==
    ASSUME NEW h, Len(h) \in Nat
    PROVE  FirstSent(h) \in Nat \ {0}
<1> DEFINE found == {k \in 0..(Len(h) - 1) :
                        /\ ~(h[k + 1].type = "answer")
                        /\ \A j \in 1..k : h[j].type = "answer"}
           start == 1 + Runs(found, Len(h))
           Dropped(k) == /\ start + 2 * (k - 1) <= Len(h)
                         /\ h[start + 2 * (k - 1)].type = "prompt"
                         /\ ~isValidUserMessageWithoutToolResults(h[start + 2 * (k - 1)])
           kept == {k \in 0..(Len(h) - 1) : ~Dropped(k + 1) /\ \A j \in 1..k : Dropped(j)}
<1>1. FirstSent(h) = start + 2 * Runs(kept, Len(h))
  BY DEF FirstSent, Leading, Runs
<1>2. found \in SUBSET Nat /\ kept \in SUBSET Nat
  OBVIOUS
<1> HIDE DEF found, kept
<1>3. Runs(found, Len(h)) \in Nat /\ Runs(kept, Len(h)) \in Nat
  BY <1>2, RunsValue
<1> QED BY <1>1, <1>3

\* The messages that the code builds itself are messages.
LEMMA MessageTypes ==
    ASSUME NEW S
    PROVE  /\ Working \in Message(S)
           /\ \A u \in SUBSET S : Answer(u) \in Message(S)
           /\ \A u \in SUBSET S, b \in BOOLEAN : Prompt(u, b) \in Message(S)
BY DEF Working, Answer, Prompt, Message

\* ensureValidMessageSequence returns, and stores, a history.
LEMMA SequenceType ==
    ASSUME NEW S, NEW h \in Seq(Message(S))
    PROVE  /\ ensureValidMessageSequence(h).sent \in Seq(Message(S))
           /\ ensureValidMessageSequence(h).stored \in Seq(Message(S))
<1> DEFINE copy == SubSeq(h, FirstSent(h), Len(h))
<1>1. copy \in Seq(Message(S))
  BY FirstSentType, SuffixType, LenProperties
<1> HIDE DEF copy
<1>2. /\ Append(copy, Working) \in Seq(Message(S))
      /\ Append(h, Working) \in Seq(Message(S))
  BY <1>1, MessageTypes, AppendProperties
<1>3. ensureValidMessageSequence(h) =
        IF EndsInPrompt(copy)
        THEN [sent |-> Append(copy, Working), stored |-> Append(h, Working)]
        ELSE [sent |-> copy, stored |-> h]
  BY DEF ensureValidMessageSequence, copy
<1> QED BY <1>1, <1>2, <1>3

\* What fixAndGetHistory stores and the results it gives the new message are well typed.
LEMMA FixedType ==
    ASSUME NEW S, NEW h \in Seq(Message(S)), NEW results \in SUBSET S, NEW content
    PROVE  /\ fixAndGetHistory(h, results, content).stored \in Seq(Message(S))
           /\ fixAndGetHistory(h, results, content).results \in SUBSET S
<1> DEFINE valid == ensureValidMessageSequence(h)
<1>1. valid.sent \in Seq(Message(S)) /\ valid.stored \in Seq(Message(S))
  BY SequenceType
<1> HIDE DEF valid
<1>2. FixedResults(valid.sent, results) \in SUBSET S
  <2>1. CASE valid.sent = <<>>
    BY <2>1 DEF FixedResults
  <2>2. CASE valid.sent # <<>>
    <3>1. Len(valid.sent) \in 1..Len(valid.sent)
      BY <1>1, <2>2, EmptyProperties, LenProperties
    <3>2. valid.sent[Len(valid.sent)] \in Message(S)
      BY <1>1, <3>1, LenProperties
    <3>3. valid.sent[Len(valid.sent)].uses \in SUBSET S
      BY <3>2 DEF Message
    <3> QED BY <2>2, <3>3 DEF FixedResults, LastUses
  <2> QED BY <2>1, <2>2
<1>3. fixAndGetHistory(h, results, content) =
        IF h = <<>>
        THEN [ok |-> TRUE, sent |-> h, stored |-> h, results |-> results]
        ELSE [ok |-> ~NotFixable(valid.sent, results, content), sent |-> valid.sent,
              stored |-> valid.stored, results |-> FixedResults(valid.sent, results)]
  BY DEF fixAndGetHistory, valid
<1> QED BY <1>1, <1>2, <1>3

\* Two messages are a history.
LEMMA PairIsSeq ==
    ASSUME NEW S, NEW a \in S, NEW b \in S
    PROVE  <<a, b>> \in Seq(S)
OBVIOUS

\* The history that a compaction leaves is a history.
LEMMA SummaryType == \A S : Summary \in Seq(Message(S))
<1> SUFFICES ASSUME NEW S PROVE Summary \in Seq(Message(S))
  OBVIOUS
<1>1. Prompt({}, TRUE) \in Message(S) /\ Working \in Message(S)
  BY MessageTypes, Zenon
<1> QED BY <1>1, PairIsSeq, Zenon DEF Summary

(***************************************************************************)
(* A sound history: answers without their prompts, which are not sent,     *)
(* then a prompt of the user's own, and from there on prompts and answers  *)
(* in turn, each prompt with the results of the tool uses before it.       *)
(***************************************************************************)
Turn(m, n) == n.type # m.type /\ (n.type = "prompt" => n.results = m.uses)

Shape(h, a) ==
    /\ \A i \in 1..a : h[i].type = "answer"
    /\ a < Len(h) => h[a + 1].type = "prompt" /\ isValidUserMessageWithoutToolResults(h[a + 1])
    /\ \A i \in (a + 1)..(Len(h) - 1) : Turn(h[i], h[i + 1])

Sound(h) == \E a \in 0..Len(h) : Shape(h, a)

AllAnswers(h) == \A i \in 1..Len(h) : h[i].type = "answer"

\* An answer may come next.
TakesAnswer(h) == AllAnswers(h) \/ EndsInPrompt(h)

\* A prompt with these results and this content may come next.
TakesPrompt(h, results, content) ==
    /\ ~EndsInPrompt(h)
    /\ AllAnswers(h) => results = {} /\ content
    /\ ~AllAnswers(h) => results = LastUses(h)

\* The loops of ensureValidMessageSequence drop the answers without a prompt and no pair.
LEMMA ShapeFirstSent ==
    ASSUME NEW h, Len(h) \in Nat, NEW a \in 0..Len(h), Shape(h, a)
    PROVE  FirstSent(h) = a + 1
<1> DEFINE found == {k \in 0..(Len(h) - 1) :
                        /\ ~(h[k + 1].type = "answer")
                        /\ \A j \in 1..k : h[j].type = "answer"}
           start == 1 + Runs(found, Len(h))
           Dropped(k) == /\ start + 2 * (k - 1) <= Len(h)
                         /\ h[start + 2 * (k - 1)].type = "prompt"
                         /\ ~isValidUserMessageWithoutToolResults(h[start + 2 * (k - 1)])
           kept == {k \in 0..(Len(h) - 1) : ~Dropped(k + 1) /\ \A j \in 1..k : Dropped(j)}
<1>1. FirstSent(h) = start + 2 * Runs(kept, Len(h))
  BY DEF FirstSent, Leading, Runs
<1>2. found = IF a < Len(h) THEN {a} ELSE {}
  <2>1. ASSUME NEW k \in found PROVE k = a
    <3>1. ~(k < a)
      BY <2>1 DEF Shape
    <3>2. ~(a < k)
      <4>1. a < k => a + 1 \in 1..k /\ a < Len(h)
        BY <2>1
      <4> QED BY <4>1, <2>1 DEF Shape
    <3> QED BY <3>1, <3>2
  <2>2. a < Len(h) => a \in found
    BY DEF Shape
  <2>3. a = Len(h) => a \notin found
    OBVIOUS
  <2> HIDE DEF found
  <2> QED BY <2>1, <2>2, <2>3
<1>3. start = a + 1
  <2>1. found \in SUBSET Nat
    OBVIOUS
  <2> HIDE DEF found
  <2>2. CASE a < Len(h)
    <3>1. found = {a}
      BY <2>2, <1>2
    <3>2. Runs(found, Len(h)) = a
      BY <2>1, <3>1, RunsValue
    <3> QED BY <3>2
  <2>3. CASE a = Len(h)
    <3>1. Runs(found, Len(h)) = Len(h)
      BY <2>1, <2>3, <1>2, RunsValue
    <3> QED BY <2>3, <3>1
  <2> QED BY <2>2, <2>3
<1>4. ~Dropped(1)
  <2>1. start + 2 * (1 - 1) = a + 1
    BY <1>3
  <2> HIDE DEF start
  <2> QED BY <2>1 DEF Shape
<1>5. kept = IF Len(h) > 0 THEN {0} ELSE {}
  <2> HIDE DEF Dropped
  <2>1. ASSUME NEW k \in kept PROVE k = 0
    <3>1. k > 0 => 1 \in 1..k
      OBVIOUS
    <3> QED BY <3>1, <1>4
  <2>2. Len(h) > 0 => 0 \in kept
    BY <1>4
  <2>3. Len(h) = 0 => 0 \notin kept
    OBVIOUS
  <2> HIDE DEF kept
  <2> QED BY <2>1, <2>2, <2>3
<1>6. Runs(kept, Len(h)) = 0
  <2>1. kept \in SUBSET Nat
    OBVIOUS
  <2> HIDE DEF kept
  <2> QED BY <2>1, <1>5, RunsValue
<1> HIDE DEF kept, start
<1> QED BY <1>1, <1>3, <1>6

\* What is sent of a sound history, before the response that is added.
LEMMA ShapeSent ==
    ASSUME NEW S, NEW h \in Seq(Message(S)), NEW a \in 0..Len(h), Shape(h, a)
    PROVE  /\ SubSeq(h, FirstSent(h), Len(h)) \in Seq(Message(S))
           /\ Len(SubSeq(h, FirstSent(h), Len(h))) = Len(h) - a
           /\ \A i \in 1..(Len(h) - a) : SubSeq(h, FirstSent(h), Len(h))[i] = h[a + i]
<1>1. Len(h) \in Nat
  BY LenProperties
<1>2. FirstSent(h) = a + 1
  BY <1>1, ShapeFirstSent
<1> QED BY <1>2, SuffixProperties

\* What follows the leading answers of a sound history starts with a prompt and alternates.
LEMMA ShapeSuffix ==
    ASSUME NEW S, NEW h \in Seq(Message(S)), NEW a \in 0..Len(h), Shape(h, a),
           NEW copy \in Seq(Message(S)), Len(copy) = Len(h) - a,
           \A i \in 1..(Len(h) - a) : copy[i] = h[a + i]
    PROVE  /\ copy = <<>> <=> a = Len(h)
           /\ copy # <<>> => copy[1].type = "prompt" /\ copy[Len(copy)] = h[Len(h)]
           /\ \A i \in 1..(Len(copy) - 1) : Turn(copy[i], copy[i + 1])
<1>1. Len(h) \in Nat
  BY LenProperties
<1>2. copy = <<>> <=> a = Len(h)
  <2>1. copy = <<>> <=> Len(copy) = 0
    BY EmptyProperties
  <2> QED BY <1>1, <2>1
<1>3. copy # <<>> => copy[1].type = "prompt" /\ copy[Len(copy)] = h[Len(h)]
  <2> SUFFICES ASSUME a < Len(h) PROVE copy[1].type = "prompt" /\ copy[Len(copy)] = h[Len(h)]
    BY <1>1, <1>2
  <2>1. 1 \in 1..(Len(h) - a) /\ Len(h) - a \in 1..(Len(h) - a) /\ a + (Len(h) - a) = Len(h)
    BY <1>1
  <2>2. copy[1] = h[a + 1] /\ copy[Len(copy)] = h[Len(h)]
    BY <2>1
  <2> QED BY <2>2 DEF Shape
<1>4. ASSUME NEW i \in 1..(Len(copy) - 1) PROVE Turn(copy[i], copy[i + 1])
  <2>1. /\ i \in 1..(Len(h) - a) /\ i + 1 \in 1..(Len(h) - a)
        /\ a + i \in (a + 1)..(Len(h) - 1) /\ a + (i + 1) = (a + i) + 1
    BY <1>1
  <2>2. Turn(h[a + i], h[(a + i) + 1])
    BY <2>1 DEF Shape
  <2>3. copy[i] = h[a + i]
    BY <2>1
  <2>4. copy[i + 1] = h[a + (i + 1)]
    BY <2>1
  <2> QED BY <2>1, <2>2, <2>3, <2>4
<1> QED BY <1>2, <1>3, <1>4

\* A sound history holds answers alone if nothing follows its leading answers.
LEMMA AllAnswersShape ==
    ASSUME NEW h, Len(h) \in Nat, NEW a \in 0..Len(h), Shape(h, a)
    PROVE  AllAnswers(h) <=> a = Len(h)
BY DEF Shape, AllAnswers

\* Messages that each take the next one are a paired request.
LEMMA TurnsPaired ==
    ASSUME NEW h, Len(h) \in Nat, \A i \in 1..(Len(h) - 1) : Turn(h[i], h[i + 1])
    PROVE  Paired(h)
<1> SUFFICES ASSUME NEW i \in 2..Len(h) PROVE Turn(h[i - 1], h[i])
  BY DEF Paired, Turn
<1>1. i - 1 \in 1..(Len(h) - 1) /\ (i - 1) + 1 = i
  OBVIOUS
<1> QED BY <1>1

\* A message that may come next keeps a history sound.
LEMMA ShapeAppend ==
    ASSUME NEW S, NEW h \in Seq(Message(S)), NEW m \in Message(S), NEW a \in 0..Len(h), Shape(h, a),
           a = Len(h) /\ m.type = "prompt" => isValidUserMessageWithoutToolResults(m),
           a < Len(h) => Turn(h[Len(h)], m)
    PROVE  /\ Sound(Append(h, m)) /\ Append(h, m) # <<>>
           /\ EndsInPrompt(Append(h, m)) <=> m.type = "prompt"
           /\ LastUses(Append(h, m)) = m.uses
           /\ AllAnswers(Append(h, m)) <=> AllAnswers(h) /\ m.type = "answer"
<1> DEFINE g == Append(h, m)
<1>1. Len(h) \in Nat /\ m.type \in {"prompt", "answer"}
  BY LenProperties DEF Message
<1>2. /\ g \in Seq(Message(S)) /\ Len(g) = Len(h) + 1
      /\ \A i \in 1..Len(h) : g[i] = h[i]
      /\ g[Len(h) + 1] = m
  BY AppendProperties
<1>3. g # <<>>
  BY <1>1, <1>2, EmptyProperties
<1> HIDE DEF g
<1>4. EndsInPrompt(g) <=> m.type = "prompt"
  BY <1>2, <1>3 DEF EndsInPrompt
<1>5. LastUses(g) = m.uses
  BY <1>2, <1>3 DEF LastUses
<1>6. AllAnswers(g) <=> AllAnswers(h) /\ m.type = "answer"
  BY <1>1, <1>2 DEF AllAnswers
<1>7. Sound(g)
  <2>1. CASE a = Len(h) /\ m.type = "answer"
    <3>1. Shape(g, Len(h) + 1)
      BY <1>1, <1>2, <2>1 DEF Shape
    <3> QED BY <1>1, <1>2, <3>1 DEF Sound
  <2>2. CASE a = Len(h) /\ m.type = "prompt"
    <3>1. Shape(g, a)
      BY <1>1, <1>2, <2>2 DEF Shape
    <3> QED BY <1>1, <1>2, <3>1 DEF Sound
  <2>3. CASE a < Len(h)
    <3>1. \A i \in 1..a : g[i].type = "answer"
      BY <1>1, <1>2 DEF Shape
    <3>2. g[a + 1].type = "prompt" /\ isValidUserMessageWithoutToolResults(g[a + 1])
      <4>1. a + 1 \in 1..Len(h)
        BY <1>1, <2>3
      <4> QED BY <1>2, <2>3, <4>1 DEF Shape
    <3>3. ASSUME NEW i \in (a + 1)..(Len(g) - 1) PROVE Turn(g[i], g[i + 1])
      <4>1. i \in 1..Len(h) /\ g[i] = h[i]
        BY <1>1, <1>2
      <4>2. CASE i = Len(h)
        BY <1>2, <2>3, <4>1, <4>2
      <4>3. CASE i < Len(h)
        <5>1. i \in (a + 1)..(Len(h) - 1) /\ i + 1 \in 1..Len(h)
          BY <1>1, <1>2, <4>3
        <5>2. Turn(h[i], h[i + 1])
          BY <5>1 DEF Shape
        <5> QED BY <1>2, <4>1, <5>1, <5>2
      <4> QED BY <1>1, <4>1, <4>2, <4>3
    <3>4. Shape(g, a)
      BY <3>1, <3>2, <3>3 DEF Shape
    <3> QED BY <1>1, <1>2, <3>4 DEF Sound
  <2> QED BY <1>1, <2>1, <2>2, <2>3
<1> QED BY <1>3, <1>4, <1>5, <1>6, <1>7 DEF g

\* A request stays paired when a message that its last one takes is added.
LEMMA PairedAppend ==
    ASSUME NEW S, NEW h \in Seq(Message(S)), NEW m \in Message(S), h # <<>>,
           \A i \in 1..(Len(h) - 1) : Turn(h[i], h[i + 1]), Turn(h[Len(h)], m)
    PROVE  /\ Paired(Append(h, m)) /\ Append(h, m)[1] = h[1]
           /\ Append(h, m) # <<>> /\ LastUses(Append(h, m)) = m.uses
<1> DEFINE g == Append(h, m)
<1>1. Len(h) \in Nat \ {0}
  BY LenProperties, EmptyProperties
<1>2. /\ g \in Seq(Message(S)) /\ Len(g) = Len(h) + 1
      /\ \A i \in 1..Len(h) : g[i] = h[i]
      /\ g[Len(h) + 1] = m
  BY AppendProperties
<1>3. g # <<>>
  BY <1>1, <1>2, EmptyProperties
<1> HIDE DEF g
<1>4. ASSUME NEW i \in 1..(Len(g) - 1) PROVE Turn(g[i], g[i + 1])
  <2>1. i \in 1..Len(h) /\ g[i] = h[i]
    BY <1>1, <1>2
  <2>2. CASE i = Len(h)
    BY <1>2, <2>1, <2>2
  <2>3. CASE i < Len(h)
    <3>1. i \in 1..(Len(h) - 1) /\ i + 1 \in 1..Len(h)
      BY <1>1, <2>1, <2>3
    <3> QED BY <1>2, <2>1, <3>1
  <2> QED BY <1>1, <2>1, <2>2, <2>3
<1>5. Paired(g)
  BY <1>1, <1>2, <1>4, TurnsPaired
<1>6. g[1] = h[1] /\ LastUses(g) = m.uses
  BY <1>1, <1>2, <1>3 DEF LastUses
<1> QED BY <1>3, <1>5, <1>6 DEF g

\* ensureValidMessageSequence, of a sound history: what is sent is nothing or starts with a prompt,
\* ends in an answer with the tool uses of the last answer stored, and is paired.
LEMMA SoundSent ==
    ASSUME NEW S, NEW h \in Seq(Message(S)), Sound(h),
           NEW sent, sent = ensureValidMessageSequence(h).sent,
           NEW stored, stored = ensureValidMessageSequence(h).stored
    PROVE  /\ Paired(sent) /\ (sent # <<>> => sent[1].type = "prompt")
           /\ Sound(stored) /\ ~EndsInPrompt(stored)
           /\ sent = <<>> => AllAnswers(stored)
           /\ sent # <<>> => ~AllAnswers(stored) /\ LastUses(sent) = LastUses(stored)
<1> DEFINE copy == SubSeq(h, FirstSent(h), Len(h))
<1>1. PICK a \in 0..Len(h) : Shape(h, a)
  BY DEF Sound
<1>2. Len(h) \in Nat
  BY LenProperties
<1>3. /\ copy \in Seq(Message(S)) /\ Len(copy) = Len(h) - a
      /\ \A i \in 1..(Len(h) - a) : copy[i] = h[a + i]
  BY <1>1, ShapeSent
<1>4. /\ sent = IF EndsInPrompt(copy) THEN Append(copy, Working) ELSE copy
      /\ stored = IF EndsInPrompt(copy) THEN Append(h, Working) ELSE h
  BY DEF ensureValidMessageSequence
<1> HIDE DEF copy
<1>5. /\ copy = <<>> <=> a = Len(h)
      /\ copy # <<>> => copy[1].type = "prompt" /\ copy[Len(copy)] = h[Len(h)]
      /\ \A i \in 1..(Len(copy) - 1) : Turn(copy[i], copy[i + 1])
  BY <1>1, <1>3, ShapeSuffix
<1>6. AllAnswers(h) <=> a = Len(h)
  BY <1>1, <1>2, AllAnswersShape
<1>7. CASE ~EndsInPrompt(copy)
  <2>1. sent = copy /\ stored = h
    BY <1>4, <1>7
  <2>2. Paired(sent)
    BY <1>2, <1>3, <1>5, <2>1, TurnsPaired
  <2>3. ~EndsInPrompt(h)
    <3> SUFFICES ASSUME h # <<>>, h[Len(h)].type = "prompt" PROVE FALSE
      BY DEF EndsInPrompt
    <3>1. Len(h) \in 1..Len(h)
      BY <1>2, EmptyProperties
    <3>2. copy # <<>>
      BY <1>5, <1>6, <3>1 DEF AllAnswers
    <3> QED BY <1>5, <1>7, <3>2 DEF EndsInPrompt
  <2>4. sent # <<>> => LastUses(sent) = LastUses(stored)
    <3> SUFFICES ASSUME copy # <<>> PROVE LastUses(copy) = LastUses(h)
      BY <2>1
    <3>1. h # <<>>
      BY <1>2, <1>5, EmptyProperties
    <3> QED BY <1>5, <3>1 DEF LastUses
  <2> QED BY <1>1, <1>5, <1>6, <2>1, <2>2, <2>3, <2>4 DEF Sound
<1>8. CASE EndsInPrompt(copy)
  <2>1. sent = Append(copy, Working) /\ stored = Append(h, Working)
    BY <1>4, <1>8
  <2>2. copy # <<>> /\ h[Len(h)].type = "prompt" /\ a < Len(h)
    BY <1>2, <1>5, <1>8 DEF EndsInPrompt
  <2>3. Working \in Message(S) /\ Working = Answer({})
    BY MessageTypes DEF Working
  <2>4. Turn(h[Len(h)], Working) /\ Working.type = "answer" /\ Working.uses = {}
    BY <2>2, <2>3 DEF Turn, Answer
  <2>5. /\ Paired(sent) /\ sent[1] = copy[1] /\ sent # <<>> /\ LastUses(sent) = {}
    <3>1. /\ copy \in Seq(Message(S)) /\ Turn(copy[Len(copy)], Working)
          /\ \A i \in 1..(Len(copy) - 1) : Turn(copy[i], copy[i + 1])
      BY <1>3, <1>5, <2>2, <2>4
    <3>2. /\ Paired(Append(copy, Working)) /\ Append(copy, Working)[1] = copy[1]
          /\ Append(copy, Working) # <<>> /\ LastUses(Append(copy, Working)) = Working.uses
      BY <2>2, <2>3, <3>1, PairedAppend, Zenon
    <3> QED BY <2>1, <2>4, <3>2
  <2>6. /\ Sound(stored) /\ ~EndsInPrompt(stored) /\ LastUses(stored) = {}
        /\ ~AllAnswers(stored)
    BY <1>1, <1>2, <1>6, <2>1, <2>2, <2>3, <2>4, ShapeAppend
  <2> QED BY <1>5, <2>2, <2>5, <2>6
<1> QED BY <1>7, <1>8

\* fixAndGetHistory, for a new message that has a text or results: it leaves a sound history, which
\* takes the message with the results that it is given.
LEMMA SoundFixed ==
    ASSUME NEW S, NEW h \in Seq(Message(S)), Sound(h), NEW results, NEW content \in BOOLEAN,
           NEW fixed, fixed = fixAndGetHistory(h, results, content)
    PROVE  /\ Sound(fixed.stored)
           /\ /\ fixed.ok /\ (content \/ results # {})
              /\ h = <<>> => results = {} /\ content
              => TakesPrompt(fixed.stored, fixed.results, content)
<1> DEFINE sent == ensureValidMessageSequence(h).sent
           stored == ensureValidMessageSequence(h).stored
<1>1. CASE h = <<>>
  <2>1. fixed.stored = <<>> /\ fixed.results = results
    BY <1>1 DEF fixAndGetHistory
  <2>2. AllAnswers(<<>>) /\ ~EndsInPrompt(<<>>)
    BY DEF AllAnswers, EndsInPrompt
  <2> QED BY <1>1, <2>1, <2>2 DEF TakesPrompt
<1>2. CASE h # <<>>
  <2>1. /\ fixed.stored = stored /\ fixed.results = FixedResults(sent, results)
        /\ fixed.ok = ~NotFixable(sent, results, content)
    BY <1>2 DEF fixAndGetHistory
  <2>3. /\ Sound(stored) /\ ~EndsInPrompt(stored)
        /\ sent = <<>> => AllAnswers(stored)
        /\ sent # <<>> => ~AllAnswers(stored) /\ LastUses(sent) = LastUses(stored)
    BY SoundSent
  <2> HIDE DEF sent, stored
  <2>5. ASSUME ~NotFixable(sent, results, content), content \/ results # {}
        PROVE  TakesPrompt(stored, FixedResults(sent, results), content)
    <3>1. CASE sent = <<>>
      <4>1. results = {}
        BY <2>5, <3>1 DEF NotFixable, LastUses
      <4> QED BY <2>3, <2>5, <3>1, <4>1 DEF TakesPrompt, FixedResults
    <3>2. CASE sent # <<>>
      BY <2>3, <3>2 DEF TakesPrompt, FixedResults
    <3> QED BY <3>1, <3>2
  <2> QED BY <1>2, <2>1, <2>3, <2>5
<1> QED BY <1>1, <1>2

\* The prompt of a request and the answer to it are added.
LEMMA SoundPrompt ==
    ASSUME NEW S, NEW h \in Seq(Message(S)), Sound(h), NEW results \in SUBSET S,
           NEW content \in BOOLEAN, TakesPrompt(h, results, content)
    PROVE  LET g == Append(h, Prompt(results, content)) IN Sound(g) /\ TakesAnswer(g)
<1> DEFINE m == Prompt(results, content)
<1>1. PICK a \in 0..Len(h) : Shape(h, a)
  BY DEF Sound
<1>2. Len(h) \in Nat
  BY LenProperties
<1>3. AllAnswers(h) <=> a = Len(h)
  BY <1>1, <1>2, AllAnswersShape
<1>4. m \in Message(S) /\ m.type = "prompt" /\ m.results = results /\ m.body = content
  BY MessageTypes DEF Prompt
<1>5. a = Len(h) => isValidUserMessageWithoutToolResults(m)
  BY <1>3, <1>4 DEF TakesPrompt, isValidUserMessageWithoutToolResults
<1>6. a < Len(h) => Turn(h[Len(h)], m)
  <2> SUFFICES ASSUME a < Len(h) PROVE Turn(h[Len(h)], m)
    OBVIOUS
  <2>1. h # <<>>
    BY <1>2, EmptyProperties
  <2>2. h[Len(h)].type # "prompt" /\ results = h[Len(h)].uses
    BY <1>2, <1>3, <2>1 DEF TakesPrompt, EndsInPrompt, LastUses
  <2> QED BY <1>4, <2>2 DEF Turn
<1> HIDE DEF m
<1>7. Sound(Append(h, m)) /\ EndsInPrompt(Append(h, m))
  BY <1>1, <1>4, <1>5, <1>6, ShapeAppend
<1> QED BY <1>7 DEF m, TakesAnswer

\* Adding an answer where one may come keeps a history sound.
LEMMA SoundAnswer ==
    ASSUME NEW S, NEW h \in Seq(Message(S)), Sound(h), NEW uses \in SUBSET S, TakesAnswer(h)
    PROVE  Sound(Append(h, Answer(uses))) /\ Append(h, Answer(uses)) # <<>>
<1> DEFINE m == Answer(uses)
<1>1. PICK a \in 0..Len(h) : Shape(h, a)
  BY DEF Sound
<1>2. Len(h) \in Nat
  BY LenProperties
<1>3. AllAnswers(h) <=> a = Len(h)
  BY <1>1, <1>2, AllAnswersShape
<1>4. m \in Message(S) /\ m.type = "answer"
  BY MessageTypes DEF Answer
<1>5. a < Len(h) => Turn(h[Len(h)], m)
  BY <1>2, <1>3, <1>4 DEF TakesAnswer, EndsInPrompt, Turn
<1> HIDE DEF m
<1>6. Sound(Append(h, m)) /\ Append(h, m) # <<>>
  BY <1>1, <1>4, <1>5, ShapeAppend
<1> QED BY <1>6 DEF m

\* The histories that clearTab and replaceWithSummary leave.
LEMMA SoundFresh == Sound(<<>>) /\ TakesAnswer(<<>>) /\ Sound(Summary) /\ Summary # <<>>
<1>1. Shape(<<>>, 0) /\ AllAnswers(<<>>)
  BY DEF Shape, AllAnswers
<1>2. Len(Summary) = 2 /\ Summary[1] = Prompt({}, TRUE) /\ Summary[2] = Answer({})
  BY DEF Summary, Working
<1>3. Turn(Prompt({}, TRUE), Answer({})) /\ Prompt({}, TRUE).type = "prompt"
  BY DEF Turn, Prompt, Answer
<1>4. isValidUserMessageWithoutToolResults(Prompt({}, TRUE))
  BY DEF isValidUserMessageWithoutToolResults, Prompt
<1>5. Summary # <<>>
  BY DEF Summary
<1>6. Shape(Summary, 0)
  <2>1. Turn(Summary[1], Summary[2]) /\ Summary[1].type = "prompt"
        /\ isValidUserMessageWithoutToolResults(Summary[1])
    BY <1>2, <1>3, <1>4, Zenon
  <2>2. Len(Summary) = 2
    BY <1>2
  <2>3. \A i \in (0 + 1)..(Len(Summary) - 1) : i = 1 /\ i + 1 = 2
    BY <2>2
  <2>4. \A i \in (0 + 1)..(Len(Summary) - 1) : Turn(Summary[i], Summary[i + 1])
    BY <2>1, <2>3
  <2>5. \A i \in 1..0 : Summary[i].type = "answer"
    OBVIOUS
  <2>6. 0 + 1 = 1
    OBVIOUS
  <2> QED BY <2>1, <2>4, <2>5, <2>6 DEF Shape
<1> QED BY <1>6, <1>1, <1>2, <1>5 DEF Sound, TakesAnswer

(***************************************************************************)
(* The inductive invariant says of every prompt: the tool uses that are    *)
(* left to process are among those the tab has had, and nobody has asked   *)
(* about them or run them; an offer to compact is never run; its pending   *)
(* promises are reachable, and what was run was not asked about or         *)
(* approved.                                                               *)
(***************************************************************************)
Untouched(id) == approval[id] = "none" /\ id \notin ran

ToolBounds(p) ==
    call[p].at \in {"tool", "approval", "running"} =>
        1 <= call[p].tool /\ call[p].tool <= call[p].last /\ call[p].last <= tools

FreshTools(p) ==
    \A n \in 1..MaxTools :
        /\ n > tools => Untouched(<<p, n>>)
        /\ At(p, "tool") /\ call[p].tool <= n /\ n <= call[p].last => Untouched(<<p, n>>)
        /\ (At(p, "approval") \/ At(p, "running")) /\ call[p].tool < n /\ n <= call[p].last =>
               Untouched(<<p, n>>)
        /\ At(p, "approval") /\ n = call[p].tool => <<p, n>> \notin ran

Reachable(p, n) ==
    approval[<<p, n>>] = "waiting" =>
        <<p, n>> \in deferred /\ Waiting(p) /\ WaitsFor(p) = <<p, n>>

RanApproved(p, n) == <<p, n>> \in ran => n # 0 /\ approval[<<p, n>>] \in {"none", "approved"}

ToolInv(p) ==
    /\ ToolBounds(p)
    /\ FreshTools(p)
    /\ \A n \in 0..MaxTools : Reachable(p, n) /\ RanApproved(p, n)

IInv == TypeOK /\ \A p \in Prompts : ToolInv(p)

USE DEF At

(***************************************************************************)
(* Types                                                                   *)
(***************************************************************************)
\* The calls that the parts of a handler continue with.
LEMMA CallFields ==
    ASSUME NEW c \in Calls
    PROVE  /\ c.at \in Awaits /\ c.results \in SUBSET Ids
           /\ c.tool \in 0..MaxTools /\ c.last \in 0..MaxTools
           /\ c.incomplete \in 0..MaxIncomplete
           /\ c.content \in BOOLEAN
BY DEF Calls

\* A call that has not started, and one that is over, is a call.
LEMMA FreshType == Fresh \in Calls /\ Over \in Calls
<1>1. 0 \in 0..MaxTools /\ 0 \in 0..MaxIncomplete /\ {} \in SUBSET Ids
  BY ChatAssumption
<1>2. "idle" \in Awaits /\ "over" \in Awaits
  BY DEF Awaits
<1>3. Fresh \in Calls
  BY <1>1, <1>2 DEF Fresh, Calls
<1>4. Over \in Calls
  BY <1>2, <1>3 DEF Over, Calls
<1> QED BY <1>3, <1>4

LEMMA LoadingType ==
    ASSUME NEW c \in Calls, NEW r \in SUBSET Ids
    PROVE  /\ [c EXCEPT !.at = "loading", !.results = r] \in Calls
           /\ [c EXCEPT !.at = "loading", !.compact = TRUE, !.results = r] \in Calls
<1>1. "loading" \in Awaits
  BY DEF Awaits
<1> QED BY <1>1, Zenon DEF Calls

LEMMA OfferedType ==
    ASSUME NEW c \in Calls
    PROVE  /\ [c EXCEPT !.at = "offered", !.results = {}, !.incomplete = 0] \in Calls
           /\ \A r, i : \A b \in BOOLEAN :
                  [[c EXCEPT !.at = "next", !.results = r, !.content = b, !.incomplete = i]
                      EXCEPT !.at = "offered", !.results = {}, !.incomplete = 0] \in Calls
<1>1. "offered" \in Awaits /\ 0 \in 0..MaxIncomplete /\ {} \in SUBSET Ids
  BY ChatAssumption DEF Awaits
<1> QED BY <1>1, Zenon DEF Calls

LEMMA StreamedType ==
    ASSUME NEW c \in Calls, NEW r \in SUBSET Ids, NEW b \in BOOLEAN, NEW i \in 0..MaxIncomplete
    PROVE  [c EXCEPT !.at = "next", !.results = r, !.content = b, !.incomplete = i] \in Calls
<1>1. "next" \in Awaits
  BY DEF Awaits
<1> QED BY <1>1, Zenon DEF Calls

LEMMA SettledType ==
    ASSUME NEW c \in Calls, NEW r \in SUBSET Ids, NEW b \in BOOLEAN, NEW n \in 0..MaxTools
    PROVE  /\ [[c EXCEPT !.results = r, !.content = b]
                  EXCEPT !.at = "next", !.tool = 0, !.last = 0] \in Calls
           /\ [[c EXCEPT !.results = r, !.content = b] EXCEPT !.at = "tool", !.tool = n] \in Calls
<1>1. "next" \in Awaits /\ "tool" \in Awaits /\ 0 \in 0..MaxTools
  BY ChatAssumption DEF Awaits
<1> QED BY <1>1, Zenon DEF Calls

\* The other calls that an action leaves behind.
LEMMA ChangedTypes ==
    ASSUME NEW c \in Calls, NEW at \in Awaits, NEW b \in BOOLEAN
    PROVE  /\ [c EXCEPT !.at = at] \in Calls
           /\ [c EXCEPT !.at = at, !.compact = b] \in Calls
           /\ [c EXCEPT !.conv = b] \in Calls
           /\ [c EXCEPT !.at = at, !.aborted = FALSE, !.requested = TRUE] \in Calls
           /\ [c EXCEPT !.aborted = TRUE] \in Calls
           /\ [c EXCEPT !.at = at, !.results = {}, !.content = TRUE] \in Calls
BY Zenon DEF Calls

LEMMA AskedType ==
    ASSUME NEW c \in Calls, NEW m \in 0..MaxTools, NEW n \in 0..MaxTools
    PROVE  [c EXCEPT !.at = "tool", !.tool = m, !.last = n, !.results = {}, !.content = FALSE,
                     !.incomplete = 0] \in Calls
<1>1. "tool" \in Awaits /\ 0 \in 0..MaxIncomplete
  BY ChatAssumption DEF Awaits
<1> QED BY <1>1, Zenon DEF Calls

LEMMA AwaitType ==
    ASSUME NEW f \in [Prompts -> Calls], NEW p \in Prompts, NEW at \in Awaits
    PROVE  [f EXCEPT ![p].at = at] \in [Prompts -> Calls]
BY DEF Calls

\* A request is aborted.
LEMMA AbortType ==
    ASSUME call \in [Prompts -> Calls], controller \in Prompts \cup {NoPrompt}
    PROVE  /\ abortRequest(call) \in [Prompts -> Calls]
           /\ \A p \in Prompts : \E b \in {call[p].aborted, TRUE} :
                  abortRequest(call)[p] = [call[p] EXCEPT !.aborted = b]
<1>1. [call EXCEPT ![controller].aborted = TRUE] \in [Prompts -> Calls]
  BY Zenon DEF Calls
<1>2. \A p \in Prompts : call[p] = [call[p] EXCEPT !.aborted = call[p].aborted]
  BY DEF Calls
<1> QED BY <1>1, <1>2, Zenon DEF abortRequest

(***************************************************************************)
(* What the approvals go through, by the effect of a step                  *)
(***************************************************************************)
LEMMA IdType ==
    /\ \A id \in Ids : id[1] \in Prompts /\ id[2] \in 0..MaxTools /\ id = <<id[1], id[2]>>
    /\ \A p \in Prompts, n \in 0..MaxTools : <<p, n>> \in Ids
    /\ \A p \in Prompts : Offer(p) \in Ids
BY ChatAssumption DEF Ids, Offer

\* The invariant gives the two properties.
LEMMA InvGives ==
    ASSUME IInv
    PROVE  TypeOK /\ WaitersAreReachable /\ OnlyApprovedRun
<1>1. WaitersAreReachable
  BY IdType DEF IInv, ToolInv, Reachable, WaitersAreReachable
<1>2. OnlyApprovedRun
  BY IdType DEF IInv, ToolInv, RanApproved, OnlyApprovedRun, TypeOK
<1> QED BY <1>1, <1>2 DEF IInv

\* The numbers of the invariant.
LEMMA Numbers ==
    ASSUME IInv, NEW p \in Prompts
    PROVE  /\ tools \in Nat /\ MaxTools \in Nat /\ tools <= MaxTools
           /\ call[p].tool \in Nat /\ call[p].last \in Nat
           /\ call[p].tool <= MaxTools /\ call[p].last <= MaxTools
<1>1. call[p] \in Calls /\ tools \in 0..MaxTools
  BY DEF IInv, TypeOK
<1>2. call[p].tool \in 0..MaxTools /\ call[p].last \in 0..MaxTools
  BY <1>1, CallFields
<1> QED BY <1>1, <1>2, ChatAssumption

\* The promise of id is left alone, or it was pending and its handler rejects it.
KeptOrRejected(id) ==
    \/ /\ approval'[id] = approval[id]
       /\ approval[id] = "waiting" /\ id \in deferred => id \in deferred'
    \/ approval[id] = "waiting" /\ approval'[id] \in {"ignored", "cancelled"}

\* A step that does not continue prompt q, or continues it only to give its request up.
LEMMA OtherPrompt ==
    ASSUME IInv, NEW q \in Prompts,
           call'[q].at = call[q].at, call'[q].tool = call[q].tool, call'[q].last = call[q].last,
           \A n \in 0..MaxTools :
               KeptOrRejected(<<q, n>>) /\ (<<q, n>> \in ran' => <<q, n>> \in ran),
           tools' \in Nat, tools <= tools'
    PROVE  ToolInv(q)'
<1>0. ToolInv(q) /\ tools \in Nat /\ MaxTools \in Nat /\ call[q].last \in Nat
  BY Numbers DEF IInv
<1>1. ToolBounds(q)'
  BY <1>0 DEF ToolInv, ToolBounds
<1>2. \A n \in 0..MaxTools : Untouched(<<q, n>>) => Untouched(<<q, n>>)'
  BY DEF Untouched, KeptOrRejected
<1>3. FreshTools(q)'
  <2> SUFFICES ASSUME NEW n \in 1..MaxTools
               PROVE  /\ n > tools' => Untouched(<<q, n>>)'
                      /\ At(q, "tool")' /\ call'[q].tool <= n /\ n <= call'[q].last =>
                             Untouched(<<q, n>>)'
                      /\ (At(q, "approval") \/ At(q, "running"))' /\ call'[q].tool < n
                             /\ n <= call'[q].last => Untouched(<<q, n>>)'
                      /\ At(q, "approval")' /\ n = call'[q].tool => <<q, n>> \notin ran'
    BY DEF FreshTools
  <2>1. n \in 0..MaxTools /\ (n > tools' => n > tools)
    BY <1>0
  <2> QED BY <1>0, <1>2, <2>1 DEF ToolInv, FreshTools
<1>4. ASSUME NEW n \in 0..MaxTools PROVE Reachable(q, n)'
  BY <1>0 DEF ToolInv, Reachable, KeptOrRejected, Waiting, WaitsFor, ToolAtHand, Offer
<1>5. ASSUME NEW n \in 0..MaxTools PROVE RanApproved(q, n)'
  BY <1>0 DEF ToolInv, RanApproved, KeptOrRejected
<1> QED BY <1>1, <1>3, <1>4, <1>5 DEF ToolInv

\* A step continues prompt p and leaves the others and what they wait for alone, or rejects it.
StepOf(p) ==
    /\ \A q \in Prompts \ {p} : call'[q] = call[q]
    /\ \A q \in Prompts \ {p}, n \in 0..MaxTools :
           KeptOrRejected(<<q, n>>) /\ (<<q, n>> \in ran' => <<q, n>> \in ran)
    /\ tools' \in Nat /\ tools <= tools'

\* A step of one call keeps the tool invariant of the others.
LEMMA StepOfOne ==
    ASSUME IInv, NEW p \in Prompts, StepOf(p), ToolInv(p)'
    PROVE  \A q \in Prompts : ToolInv(q)'
<1> SUFFICES ASSUME NEW q \in Prompts, q # p PROVE ToolInv(q)'
  OBVIOUS
<1> QED BY OtherPrompt DEF StepOf

\* No promise of prompt p is pending.
Unasked(p) == \A n \in 0..MaxTools : approval[<<p, n>>] # "waiting"

LEMMA NotWaiting ==
    ASSUME IInv, NEW p \in Prompts, ~Waiting(p) \/ approval[WaitsFor(p)] # "waiting"
    PROVE  Unasked(p)
BY DEF IInv, ToolInv, Reachable, Unasked

\* Prompt p goes on outside processToolUses.
LEMMA QuietStep ==
    ASSUME IInv, NEW p \in Prompts, StepOf(p), Unasked(p),
           call'[p].at \notin {"tool", "approval", "running", "offered"},
           \A n \in 0..MaxTools : KeptOrRejected(<<p, n>>), ran' = ran
    PROVE  \A q \in Prompts : ToolInv(q)'
<1>0. ToolInv(p) /\ tools \in Nat /\ MaxTools \in Nat
  BY Numbers DEF IInv
<1>1. \A n \in 0..MaxTools : approval'[<<p, n>>] = approval[<<p, n>>]
  BY DEF Unasked, KeptOrRejected
<1>2. ToolBounds(p)'
  BY DEF ToolBounds
<1>3. FreshTools(p)'
  <2> SUFFICES ASSUME NEW n \in 1..MaxTools, n > tools'
               PROVE  Untouched(<<p, n>>)'
    BY DEF FreshTools
  <2>1. n \in 0..MaxTools /\ n > tools
    BY <1>0 DEF StepOf
  <2> QED BY <1>0, <1>1, <2>1 DEF ToolInv, FreshTools, Untouched
<1>4. \A n \in 0..MaxTools : Reachable(p, n)' /\ RanApproved(p, n)'
  BY <1>0, <1>1 DEF ToolInv, Reachable, RanApproved, Unasked
<1> QED BY <1>2, <1>3, <1>4, StepOfOne DEF ToolInv

\* Prompt p is at the end of its loop and offers to compact.
LEMMA OfferStep ==
    ASSUME IInv, NEW p \in Prompts, StepOf(p), Unasked(p), call'[p].at = "offered",
           setDeferredToolExecution(Offer(p)), ran' = ran
    PROVE  \A q \in Prompts : ToolInv(q)'
<1>0. ToolInv(p) /\ tools \in Nat /\ MaxTools \in Nat
  BY Numbers DEF IInv
<1>1. \A n \in 1..MaxTools : approval'[<<p, n>>] = approval[<<p, n>>]
  BY IdType, ChatAssumption DEF setDeferredToolExecution, Offer, IInv, TypeOK
<1>2. ToolBounds(p)'
  BY DEF ToolBounds
<1>3. FreshTools(p)'
  <2> SUFFICES ASSUME NEW n \in 1..MaxTools, n > tools'
               PROVE  Untouched(<<p, n>>)'
    BY DEF FreshTools
  <2>1. n > tools
    BY <1>0 DEF StepOf
  <2> QED BY <1>0, <1>1, <2>1 DEF ToolInv, FreshTools, Untouched
<1>4. ASSUME NEW n \in 0..MaxTools PROVE Reachable(p, n)' /\ RanApproved(p, n)'
  <2>1. CASE n = 0
    <3>1. <<p, n>> \notin ran
      BY <1>0, <2>1 DEF ToolInv, RanApproved
    <3>2. Reachable(p, n)'
      BY <2>1 DEF Reachable, setDeferredToolExecution, Offer, Waiting, WaitsFor
    <3> QED BY <3>1, <3>2 DEF RanApproved
  <2>2. CASE n # 0
    <3>1. n \in 1..MaxTools
      BY <1>0, <2>2
    <3> QED BY <1>0, <1>1, <3>1 DEF ToolInv, Reachable, RanApproved, Unasked
  <2> QED BY <2>1, <2>2
<1> QED BY <1>2, <1>3, <1>4, StepOfOne DEF ToolInv

\* The stream of prompt p asks for n tools.
LEMMA AskedStep ==
    ASSUME IInv, NEW p \in Prompts, StepOf(p), Unasked(p), call'[p].at = "tool",
           call'[p].tool = tools + 1, call'[p].last = tools', tools < tools', UNCHANGED pending,
           ran' = ran
    PROVE  \A q \in Prompts : ToolInv(q)'
<1>0. ToolInv(p) /\ tools \in Nat /\ MaxTools \in Nat /\ tools' \in Nat
  BY Numbers DEF IInv, StepOf
<1>1. ToolBounds(p)'
  BY <1>0 DEF ToolBounds
<1>2. FreshTools(p)'
  <2> SUFFICES ASSUME NEW n \in 1..MaxTools, n > tools' \/ call'[p].tool <= n
               PROVE  Untouched(<<p, n>>)'
    BY DEF FreshTools
  <2>1. n > tools
    BY <1>0
  <2> QED BY <1>0, <2>1 DEF ToolInv, FreshTools, Untouched, pending
<1>3. \A n \in 0..MaxTools : Reachable(p, n)' /\ RanApproved(p, n)'
  BY <1>0 DEF ToolInv, Reachable, RanApproved, Unasked, pending
<1> QED BY <1>1, <1>2, <1>3, StepOfOne DEF ToolInv

\* The user is asked about the tool use at hand.
LEMMA AskStep ==
    ASSUME IInv, NEW p \in Prompts, StepOf(p), At(p, "tool"), call'[p].at = "approval",
           call'[p].tool = call[p].tool, call'[p].last = call[p].last,
           setDeferredToolExecution(ToolAtHand(p)), ran' = ran, tools' = tools
    PROVE  \A q \in Prompts : ToolInv(q)'
<1> DEFINE t == call[p].tool
<1>0. /\ ToolInv(p) /\ tools \in Nat /\ MaxTools \in Nat /\ t \in Nat /\ call[p].last \in Nat
      /\ 1 <= t /\ t <= call[p].last /\ call[p].last <= tools /\ t <= MaxTools
  BY Numbers DEF IInv, ToolInv, ToolBounds
<1>1. /\ \A n \in 0..MaxTools : n # t => approval'[<<p, n>>] = approval[<<p, n>>]
      /\ <<p, t>> \in deferred'
  BY IdType DEF setDeferredToolExecution, ToolAtHand, IInv, TypeOK
<1>2. Untouched(<<p, t>>) /\ Unasked(p)
  BY <1>0, NotWaiting DEF ToolInv, FreshTools, Waiting
<1> HIDE DEF t
<1>3. call'[p].tool = t
  BY DEF t
<1>4. ToolBounds(p)'
  BY <1>0, <1>3 DEF ToolBounds
<1>5. FreshTools(p)'
  <2> SUFFICES ASSUME NEW n \in 1..MaxTools
               PROVE  /\ n > tools => Untouched(<<p, n>>)'
                      /\ t < n /\ n <= call[p].last => Untouched(<<p, n>>)'
                      /\ n = t => <<p, n>> \notin ran
    BY <1>3 DEF FreshTools
  <2>1. n \in 0..MaxTools /\ (n > tools => n # t) /\ (t < n => n # t /\ t <= n)
    BY <1>0
  <2>2. Untouched(<<p, n>>) /\ n # t => Untouched(<<p, n>>)'
    BY <1>1, <2>1 DEF Untouched
  <2> QED BY <1>0, <1>2, <2>1, <2>2 DEF ToolInv, FreshTools, Untouched, t
<1>6. ASSUME NEW n \in 0..MaxTools PROVE Reachable(p, n)' /\ RanApproved(p, n)'
  <2>1. CASE n = t
    BY <1>1, <1>2, <1>3, <2>1 DEF Untouched, Reachable, RanApproved, Waiting, WaitsFor, ToolAtHand
  <2>2. CASE n # t
    BY <1>0, <1>1, <1>2, <2>2 DEF ToolInv, Reachable, RanApproved, Unasked
  <2> QED BY <2>1, <2>2
<1> QED BY <1>4, <1>5, <1>6, StepOfOne DEF ToolInv

\* The tool use at hand is run: nobody was asked about it, or it was approved.
LEMMA RunStep ==
    ASSUME IInv, NEW p \in Prompts, StepOf(p),
           At(p, "tool") \/ (At(p, "approval") /\ approval[ToolAtHand(p)] = "approved"),
           call'[p].at = "running", call'[p].tool = call[p].tool, call'[p].last = call[p].last,
           ran' = ran \cup {ToolAtHand(p)}, approval' = approval, tools' = tools
    PROVE  \A q \in Prompts : ToolInv(q)'
<1> DEFINE t == call[p].tool
<1>0. /\ ToolInv(p) /\ tools \in Nat /\ MaxTools \in Nat /\ t \in Nat /\ call[p].last \in Nat
      /\ 1 <= t /\ t <= call[p].last /\ call[p].last <= tools /\ t <= MaxTools
  BY Numbers DEF IInv, ToolInv, ToolBounds
<1>1. approval[<<p, t>>] \in {"none", "approved"}
  BY <1>0 DEF ToolInv, FreshTools, Untouched, ToolAtHand
<1>2. Unasked(p)
  BY <1>1, NotWaiting DEF Waiting, WaitsFor, ToolAtHand
<1>3. \A n : n # t => (<<p, n>> \in ran' <=> <<p, n>> \in ran)
  BY DEF ToolAtHand
<1>4. ToolBounds(p)'
  BY <1>0 DEF ToolBounds
<1>5. FreshTools(p)'
  <2> SUFFICES ASSUME NEW n \in 1..MaxTools
               PROVE  /\ n > tools => Untouched(<<p, n>>)'
                      /\ t < n /\ n <= call[p].last => Untouched(<<p, n>>)'
    BY DEF FreshTools
  <2>1. (n > tools => n # t) /\ (t < n => n # t /\ t <= n)
    BY <1>0
  <2>2. Untouched(<<p, n>>) /\ n # t => Untouched(<<p, n>>)'
    BY <1>3 DEF Untouched
  <2> QED BY <1>0, <2>1, <2>2 DEF ToolInv, FreshTools
<1>6. ASSUME NEW n \in 0..MaxTools PROVE Reachable(p, n)' /\ RanApproved(p, n)'
  <2>1. Reachable(p, n)'
    BY <1>2 DEF Reachable, Unasked
  <2>2. CASE n = t
    BY <1>0, <1>1, <2>1, <2>2 DEF RanApproved
  <2>3. CASE n # t
    BY <1>0, <1>3, <2>1, <2>3 DEF ToolInv, RanApproved
  <2> QED BY <2>1, <2>2, <2>3
<1> QED BY <1>4, <1>5, <1>6, StepOfOne DEF ToolInv

\* The tool use at hand is settled: the next one is at hand, or the loop goes on.
LEMMA SettledStep ==
    ASSUME IInv, NEW p \in Prompts, StepOf(p), Unasked(p),
           call[p].at \in {"tool", "approval", "running"},
           \/ call'[p].at = "next"
           \/ /\ call'[p].at = "tool" /\ call[p].tool # call[p].last
              /\ call'[p].tool = call[p].tool + 1 /\ call'[p].last = call[p].last,
           approval' = approval, ran' = ran, tools' = tools
    PROVE  \A q \in Prompts : ToolInv(q)'
<1> DEFINE t == call[p].tool
<1>0. /\ ToolInv(p) /\ tools \in Nat /\ MaxTools \in Nat /\ t \in Nat /\ call[p].last \in Nat
      /\ 1 <= t /\ t <= call[p].last /\ call[p].last <= tools /\ t <= MaxTools
  BY Numbers DEF IInv, ToolInv, ToolBounds
<1>1. ToolBounds(p)'
  BY <1>0 DEF ToolBounds
<1>2. FreshTools(p)'
  <2> SUFFICES ASSUME NEW n \in 1..MaxTools
               PROVE  /\ n > tools => Untouched(<<p, n>>)
                      /\ t + 1 <= n /\ n <= call[p].last => Untouched(<<p, n>>)
    BY DEF FreshTools, Untouched
  <2>1. t + 1 <= n => t < n /\ t <= n
    BY <1>0
  <2> QED BY <1>0, <2>1 DEF ToolInv, FreshTools
<1>3. \A n \in 0..MaxTools : Reachable(p, n)' /\ RanApproved(p, n)'
  BY <1>0 DEF ToolInv, Reachable, RanApproved, Unasked
<1> QED BY <1>1, <1>2, <1>3, StepOfOne DEF ToolInv

(***************************************************************************)
(* The parts of the handlers                                               *)
(***************************************************************************)
Status == {"none", "waiting", "approved", "rejected", "ignored", "cancelled"}

PendingOK == deferred \subseteq Ids /\ approval \in [Ids -> Status]

\* Leaving the deferred executions alone, or rejecting them all, keeps or rejects each one.
LEMMA PendingKept ==
    ASSUME IInv,
           UNCHANGED pending \/ rejectAllDeferredToolExecutions("ignored")
                             \/ rejectAllDeferredToolExecutions("cancelled")
    PROVE  PendingOK' /\ \A q \in Prompts, n \in 0..MaxTools : KeptOrRejected(<<q, n>>)
<1>1. PendingOK
  BY DEF IInv, TypeOK, PendingOK, Status
<1>2. PendingOK'
  BY <1>1 DEF PendingOK, pending, rejectAllDeferredToolExecutions, Status
<1>3. ASSUME NEW q \in Prompts, NEW n \in 0..MaxTools PROVE KeptOrRejected(<<q, n>>)
  <2>1. <<q, n>> \in Ids /\ Reachable(q, n)
    BY IdType DEF IInv, ToolInv
  <2> QED BY <2>1 DEF KeptOrRejected, pending, rejectAllDeferredToolExecutions, Reachable
<1> QED BY <1>2, <1>3

LEMMA DeferredKept ==
    ASSUME IInv, NEW p \in Prompts, NEW k \in 0..MaxTools, setDeferredToolExecution(<<p, k>>)
    PROVE  PendingOK' /\ \A q \in Prompts \ {p}, n \in 0..MaxTools : KeptOrRejected(<<q, n>>)
<1>1. PendingOK /\ <<p, k>> \in Ids
  BY IdType DEF IInv, TypeOK, PendingOK, Status
<1>2. PendingOK'
  BY <1>1 DEF PendingOK, setDeferredToolExecution, Status
<1>3. ASSUME NEW q \in Prompts \ {p}, NEW n \in 0..MaxTools PROVE KeptOrRejected(<<q, n>>)
  <2>1. <<q, n>> \in Ids /\ <<q, n>> # <<p, k>>
    BY IdType
  <2> QED BY <1>1, <2>1 DEF KeptOrRejected, setDeferredToolExecution, PendingOK
<1> QED BY <1>2, <1>3

\* Prompt p is continued with call c; a call that is over has left no promise pending.
LEMMA Continued ==
    ASSUME IInv, NEW p \in Prompts, NEW c \in Calls, call' = [call EXCEPT ![p] = c]
    PROVE  /\ call' \in [Prompts -> Calls] /\ call'[p] = c
           /\ \A q \in Prompts \ {p} : call'[q] = call[q]
BY DEF IInv, TypeOK

LEMMA Finished ==
    ASSUME IInv, NEW p \in Prompts, Finish(p)
    PROVE  /\ call' \in [Prompts -> Calls] /\ call'[p].at = "over"
           /\ \A q \in Prompts \ {p} : call'[q] = call[q]
<1>1. Over.at = "over"
  BY DEF Over, Fresh
<1> QED BY <1>1, FreshType, Continued, Zenon DEF Finish

LEMMA Awaited ==
    ASSUME IInv, NEW p \in Prompts, NEW at \in Awaits, Await(p, at)
    PROVE  /\ call' \in [Prompts -> Calls] /\ call'[p].at = at
           /\ call'[p].tool = call[p].tool /\ call'[p].last = call[p].last
           /\ \A q \in Prompts \ {p} : call'[q] = call[q]
<1>1. call \in [Prompts -> Calls] /\ call' = [call EXCEPT ![p].at = at]
  BY DEF Await, IInv, TypeOK
<1>2. call' \in [Prompts -> Calls]
  BY <1>1, AwaitType
<1>3. /\ call'[p] = [call[p] EXCEPT !.at = at]
      /\ \A q \in Prompts \ {p} : call'[q] = call[q]
  BY <1>1
<1>4. call[p] \in Calls
  BY <1>1
<1>5. /\ call'[p].at = at
      /\ call'[p].tool = call[p].tool /\ call'[p].last = call[p].last
  BY <1>3, <1>4 DEF Calls
<1> QED BY <1>2, <1>3, <1>5

\* A step that leaves prompt p outside processToolUses, whatever it does to the promises.
LEMMA GoesOnQuietly ==
    ASSUME IInv, NEW p \in Prompts, \A q \in Prompts \ {p} : call'[q] = call[q],
           call'[p].at \notin {"tool", "approval", "running", "offered"}, Unasked(p),
           \A q \in Prompts, n \in 0..MaxTools : KeptOrRejected(<<q, n>>),
           ran' = ran, tools' \in Nat, tools <= tools'
    PROVE  \A q \in Prompts : ToolInv(q)'
<1>1. StepOf(p)
  BY DEF StepOf
<1> QED BY <1>1, QuietStep

LEMMA LeftLoop ==
    ASSUME IInv, NEW p \in Prompts, NEW c, LeaveLoop(p, c), Unasked(p),
           [c EXCEPT !.at = "offered", !.results = {}, !.incomplete = 0] \in Calls,
           ran' = ran, tools' \in Nat, tools <= tools'
    PROVE  /\ call' \in [Prompts -> Calls] /\ PendingOK'
           /\ \A q \in Prompts : ToolInv(q)'
<1>1. CASE Finish(p) /\ UNCHANGED pending
  BY <1>1, Finished, PendingKept, GoesOnQuietly
<1>2. CASE /\ setDeferredToolExecution(Offer(p))
           /\ call' = [call EXCEPT ![p] = [c EXCEPT !.at = "offered", !.results = {},
                                                       !.incomplete = 0]]
  <2> DEFINE d == [c EXCEPT !.at = "offered", !.results = {}, !.incomplete = 0]
  <2>1. d.at = "offered"
    BY DEF Calls
  <2>2. d \in Calls /\ call' = [call EXCEPT ![p] = d]
    BY <1>2
  <2> HIDE DEF d
  <2>3. /\ call' \in [Prompts -> Calls] /\ call'[p].at = "offered"
        /\ \A q \in Prompts \ {p} : call'[q] = call[q]
    BY <2>1, <2>2, Continued, Zenon
  <2>4. 0 \in 0..MaxTools
    BY ChatAssumption
  <2>5. PendingOK' /\ \A q \in Prompts \ {p}, n \in 0..MaxTools : KeptOrRejected(<<q, n>>)
    BY <1>2, <2>4, DeferredKept, Zenon DEF Offer
  <2>6. StepOf(p)
    BY <2>3, <2>5 DEF StepOf
  <2> QED BY <1>2, <2>3, <2>5, <2>6, OfferStep
<1> QED BY <1>1, <1>2 DEF LeaveLoop

\* Adding a message to the history leaves a history.
LEMMA HistoryType ==
    ASSUME IInv
    PROVE  /\ history \in Seq(Message(Ids))
           /\ \A p, m : m \in Message(Ids) /\ addMessage(p, m) => history' \in Seq(Message(Ids))
<1>1. history \in Seq(Message(Ids))
  BY DEF IInv, TypeOK
<1> QED BY <1>1, AppendProperties DEF addMessage

LEMMA Compacts ==
    ASSUME IInv, NEW p \in Prompts, NEW c \in Calls, NEW cur, RunCompaction(p, c, cur)
    PROVE  /\ call' \in [Prompts -> Calls] /\ history' \in Seq(Message(Ids))
           /\ call'[p].at \in {"over", "loading"}
           /\ \A q \in Prompts \ {p} : call'[q] = call[q]
<1> DEFINE fixed == fixAndGetHistory(history, {}, TRUE)
           d == [c EXCEPT !.at = "loading", !.compact = TRUE, !.results = fixed.results]
<1>1. fixed.stored \in Seq(Message(Ids)) /\ fixed.results \in SUBSET Ids
  BY FixedType, HistoryType, Zenon
<1>2. /\ history' \in {history, fixed.stored}
      /\ Finish(p) \/ call' = [call EXCEPT ![p] = d]
  BY Zenon DEF RunCompaction
<1>3. d \in Calls
  BY <1>1, LoadingType, Zenon
<1>4. d.at = "loading"
  BY DEF Calls
<1> HIDE DEF fixed, d
<1> QED BY <1>1, <1>2, <1>3, <1>4, HistoryType, Finished, Continued

LEMMA Heads ==
    ASSUME IInv, NEW p \in Prompts, NEW c \in Calls, NEW cur, LoopHead(p, c, cur), Unasked(p),
           ran' = ran, tools' = tools
    PROVE  /\ call' \in [Prompts -> Calls] /\ history' \in Seq(Message(Ids)) /\ PendingOK'
           /\ \A q \in Prompts : ToolInv(q)'
<1> DEFINE fixed == fixAndGetHistory(history, c.results, c.content)
           d == [c EXCEPT !.at = "loading", !.results = fixed.results]
<1>0. history \in Seq(Message(Ids)) /\ c.results \in SUBSET Ids
  BY HistoryType, CallFields
<1>1. fixed.stored \in Seq(Message(Ids)) /\ fixed.results \in SUBSET Ids
  <2> DEFINE r == c.results
             b == c.content
  <2> HIDE DEF r, b
  <2>1. /\ fixAndGetHistory(history, r, b).stored \in Seq(Message(Ids))
        /\ fixAndGetHistory(history, r, b).results \in SUBSET Ids
    BY <1>0, FixedType, Zenon DEF r
  <2> QED BY <2>1 DEF r, b
<1>2. \/ Finish(p) /\ UNCHANGED history /\ UNCHANGED pending
      \/ history' = fixed.stored /\ call' = [call EXCEPT ![p] = d] /\ UNCHANGED pending
      \/ history' = fixed.stored /\ LeaveLoop(p, c)
  BY DEF LoopHead, pending
<1>3. d \in Calls
  BY <1>1, LoadingType, Zenon
<1>4. d.at = "loading"
  BY DEF Calls
<1> HIDE DEF fixed, d
<1>5. tools' \in Nat /\ tools <= tools'
  BY Numbers
<1>6. CASE Finish(p) /\ UNCHANGED history /\ UNCHANGED pending
  BY <1>5, <1>6, HistoryType, Finished, PendingKept, GoesOnQuietly
<1>7. CASE history' = fixed.stored /\ call' = [call EXCEPT ![p] = d] /\ UNCHANGED pending
  BY <1>1, <1>3, <1>4, <1>5, <1>7, Continued, PendingKept, GoesOnQuietly, Zenon
<1>8. CASE history' = fixed.stored /\ LeaveLoop(p, c)
  <2>1. [c EXCEPT !.at = "offered", !.results = {}, !.incomplete = 0] \in Calls
    BY OfferedType, Zenon
  <2> QED BY <1>1, <1>5, <1>8, <2>1, LeftLoop, Zenon
<1> QED BY <1>2, <1>6, <1>7, <1>8

(***************************************************************************)
(* The actions                                                             *)
(***************************************************************************)
USE DEF At

\* The types that have no part in the approvals.
OtherTypes ==
    /\ token \in [Prompts -> {"live", "early", "due", "skipping", "handled"}]
    /\ current \in Prompts \cup {NoPrompt}
    /\ controller \in Prompts \cup {NoPrompt}
    /\ conversation \in BOOLEAN
    /\ history \in Seq(Message(Ids))
    /\ overlapped \in BOOLEAN
    /\ requests \in 0..MaxRequests /\ incidents \in 0..MaxIncidents

LEMMA QuietAts ==
    /\ \A at \in {"trigger", "invalidating", "context", "response", "stream", "next", "over",
                  "loading"} :
           at \in Awaits /\ at \notin {"tool", "approval", "running", "offered"}
    /\ \A c \in Calls : /\ \A at : [c EXCEPT !.at = at].at = at
                        /\ \A at, b : [c EXCEPT !.at = at, !.compact = b].at = at
BY DEF Awaits, Calls

Quiet == {"trigger", "invalidating", "context", "response", "stream", "next", "over", "loading"}

\* An action that continues prompt p outside processToolUses.
LEMMA QuietAction ==
    ASSUME IInv, NEW p \in Prompts, call' \in [Prompts -> Calls], call'[p].at \in Quiet,
           \A q \in Prompts \ {p} : call'[q] = call[q],
           ~Waiting(p) \/ approval[WaitsFor(p)] # "waiting",
           UNCHANGED pending \/ rejectAllDeferredToolExecutions("ignored"),
           ran' = ran, tools' = tools, OtherTypes'
    PROVE  IInv'
<1>1. /\ Unasked(p) /\ tools' \in Nat /\ tools <= tools'
      /\ call'[p].at \notin {"tool", "approval", "running", "offered"}
  BY Numbers, NotWaiting DEF Quiet
<1>2. PendingOK' /\ \A q \in Prompts : ToolInv(q)'
  BY <1>1, PendingKept, GoesOnQuietly
<1>3. TypeOK'
  BY <1>2 DEF IInv, TypeOK, OtherTypes, PendingOK, Status
<1> QED BY <1>2, <1>3 DEF IInv

LEMMA PrepareKeeps ==
    ASSUME IInv, NEW p \in Prompts, Prepare(p)
    PROVE  IInv'
<1>0. call[p] \in Calls /\ tools \in Nat /\ OtherTypes
  BY Numbers DEF IInv, TypeOK, OtherTypes
<1>1. CASE OnChatPrompt(p)
  <2>1. PICK b \in BOOLEAN, at \in {"trigger", "invalidating"} :
            /\ call' = [call EXCEPT ![p] = [@ EXCEPT !.at = at, !.compact = b]]
            /\ UNCHANGED pending \/ rejectAllDeferredToolExecutions("ignored")
    BY <1>1, Zenon DEF OnChatPrompt
  <2> DEFINE d == [call[p] EXCEPT !.at = at, !.compact = b]
  <2>2. d \in Calls /\ d.at = at /\ at \in Quiet
    BY <1>0, QuietAts, ChangedTypes, Zenon DEF Quiet
  <2>3. call' = [call EXCEPT ![p] = d]
    BY <2>1
  <2> HIDE DEF d
  <2>4. ~Waiting(p) /\ ran' = ran /\ tools' = tools /\ OtherTypes'
    BY <1>0, <1>1 DEF OnChatPrompt, counts, session, Waiting, OtherTypes
  <2> QED BY <2>1, <2>2, <2>3, <2>4, Continued, QuietAction, Zenon
<1>2. CASE IgnorePending(p)
  <2>1. ~Waiting(p) /\ ran' = ran /\ tools' = tools /\ OtherTypes'
    BY <1>0, <1>2 DEF IgnorePending, counts, session, Waiting, OtherTypes
  <2>2. Await(p, "trigger") /\ rejectAllDeferredToolExecutions("ignored")
    BY <1>2 DEF IgnorePending
  <2>3. "trigger" \in Awaits /\ "trigger" \in Quiet
    BY QuietAts DEF Quiet
  <2>4. /\ call' \in [Prompts -> Calls] /\ call'[p].at = "trigger"
        /\ \A q \in Prompts \ {p} : call'[q] = call[q]
    BY <2>2, <2>3, Awaited
  <2> QED BY <2>1, <2>2, <2>3, <2>4, QuietAction
<1>3. CASE GotTrigger(p)
  <2>1. /\ ~Waiting(p) /\ ran' = ran /\ tools' = tools /\ UNCHANGED pending
        /\ Await(p, "context")
    BY <1>3 DEF GotTrigger, counts, Waiting
  <2>2. OtherTypes'
    BY <1>0, <1>3 DEF GotTrigger, counts, OtherTypes
  <2>3. "context" \in Awaits /\ "context" \in Quiet
    BY QuietAts DEF Quiet
  <2>4. /\ call' \in [Prompts -> Calls] /\ call'[p].at = "context"
        /\ \A q \in Prompts \ {p} : call'[q] = call[q]
    BY <2>1, <2>3, Awaited
  <2> QED BY <2>1, <2>2, <2>3, <2>4, QuietAction
<1>4. CASE StartPrompt(p)
  <2> DEFINE c == [call[p] EXCEPT !.conv = conversation]
  <2>1. c \in Calls
    BY <1>0, ChangedTypes, Zenon DEF OtherTypes, Calls
  <2>2. /\ \/ RunCompaction(p, c, p) /\ UNCHANGED pending
           \/ LoopHead(p, c, p)
        /\ ~Waiting(p) /\ ran' = ran /\ tools' = tools
    BY <1>4 DEF StartPrompt, Waiting, counts
  <2> HIDE DEF c
  <2>3. history' \in Seq(Message(Ids))
    BY <2>1, <2>2, NotWaiting, Compacts, Heads
  <2>4. OtherTypes'
    BY <1>0, <1>4, <2>3 DEF StartPrompt, counts, OtherTypes
  <2>5. CASE RunCompaction(p, c, p) /\ UNCHANGED pending
    <3>1. "over" \in Quiet /\ "loading" \in Quiet
      BY DEF Quiet
    <3> QED BY <2>1, <2>2, <2>4, <2>5, <3>1, Compacts, QuietAction
  <2>6. CASE LoopHead(p, c, p)
    <3>1. PendingOK' /\ call' \in [Prompts -> Calls] /\ \A q \in Prompts : ToolInv(q)'
      BY <2>1, <2>2, <2>6, NotWaiting, Heads
    <3>2. TypeOK'
      BY <2>2, <2>4, <3>1 DEF IInv, TypeOK, OtherTypes, PendingOK, Status
    <3> QED BY <3>1, <3>2 DEF IInv
  <2> QED BY <2>2, <2>5, <2>6
<1> QED BY <1>1, <1>2, <1>3, <1>4 DEF Prepare

\* The call of prompt p ends, and nothing that it waits for is pending.
LEMMA FinishAction ==
    ASSUME IInv, NEW p \in Prompts, Finish(p),
           ~Waiting(p) \/ approval[WaitsFor(p)] # "waiting",
           UNCHANGED pending, ran' = ran, tools' = tools, OtherTypes'
    PROVE  IInv'
<1>1. "over" \in Quiet
  BY DEF Quiet
<1> QED BY <1>1, Finished, QuietAction

\* Prompt p ends its loop, or goes on with one that it is at the head of.
LEMMA LoopAction ==
    ASSUME IInv, NEW p \in Prompts, call' \in [Prompts -> Calls], PendingOK',
           \A q \in Prompts : ToolInv(q)', OtherTypes', ran' = ran, tools' \in 0..MaxTools
    PROVE  IInv'
BY DEF IInv, TypeOK, OtherTypes, PendingOK, Status

\* The tool uses that an answer asks for.
LEMMA NewToolsType ==
    ASSUME TypeOK, NEW p \in Prompts, NEW n \in 1..(MaxTools - tools)
    PROVE  NewTools(p, n) \in SUBSET Ids /\ NewTools(p, n) # {}
<1>1. /\ tools \in Nat /\ MaxTools \in Nat /\ n \in Nat /\ n >= 1 /\ tools + n <= MaxTools
  BY ChatAssumption DEF TypeOK
<1>2. (tools + 1)..(tools + n) \subseteq 0..MaxTools
  BY <1>1
<1>3. tools + 1 \in (tools + 1)..(tools + n)
  BY <1>1
<1>4. <<p, tools + 1>> \in NewTools(p, n)
  BY <1>3 DEF NewTools
<1>5. NewTools(p, n) \in SUBSET Ids
  BY <1>2 DEF NewTools, Ids
<1> QED BY <1>4, <1>5

LEMMA Messages ==
    ASSUME IInv, NEW p \in Prompts
    PROVE  /\ Answer({}) \in Message(Ids)
           /\ Prompt(call[p].results, call[p].content) \in Message(Ids)
           /\ \A n \in 1..(MaxTools - tools) :
                  NewTools(p, n) \in SUBSET Ids /\ Answer(NewTools(p, n)) \in Message(Ids)
<1>1. call[p] \in Calls
  BY DEF IInv, TypeOK
<1>2. Prompt(call[p].results, call[p].content) \in Message(Ids)
  BY <1>1, CallFields, MessageTypes
<1>3. \A n \in 1..(MaxTools - tools) : NewTools(p, n) \in SUBSET Ids
  BY NewToolsType DEF IInv
<1> QED BY <1>2, <1>3, MessageTypes

LEMMA RequestKeeps ==
    ASSUME IInv, NEW p \in Prompts, Request(p)
    PROVE  IInv'
<1>0. call[p] \in Calls /\ tools \in Nat /\ tools \in 0..MaxTools /\ OtherTypes
  BY Numbers DEF IInv, TypeOK, OtherTypes
<1>1. CASE NextRound(p)
  <2>1. LoopHead(p, call[p], current) /\ ~Waiting(p) /\ ran' = ran /\ tools' = tools
    BY <1>1 DEF NextRound, Waiting, counts
  <2>2. /\ call' \in [Prompts -> Calls] /\ history' \in Seq(Message(Ids)) /\ PendingOK'
        /\ \A q \in Prompts : ToolInv(q)'
    BY <1>0, <2>1, NotWaiting, Heads
  <2>3. OtherTypes'
    BY <1>0, <1>1, <2>2 DEF NextRound, session, counts, OtherTypes
  <2> QED BY <1>0, <2>1, <2>2, <2>3, LoopAction
<1>2. CASE getChatResponse(p)
  <2> DEFINE d == [call[p] EXCEPT !.at = "response", !.aborted = FALSE, !.requested = TRUE]
  <2>1. /\ call' = [call EXCEPT ![p] = d] /\ ~Waiting(p) /\ ran' = ran /\ tools' = tools
        /\ UNCHANGED pending
    BY <1>2 DEF getChatResponse, Waiting
  <2>2. d \in Calls
    BY <1>0, QuietAts, ChangedTypes, Zenon
  <2>3. d.at = "response" /\ "response" \in Quiet
    BY <1>0 DEF Calls, Quiet
  <2> HIDE DEF d
  <2>4. requests' \in 0..MaxRequests
    BY <1>0, <1>2, ChatAssumption DEF getChatResponse, OtherTypes
  <2>5. OtherTypes'
    BY <1>0, <1>2, <2>4 DEF getChatResponse, OtherTypes
  <2> QED BY <2>1, <2>2, <2>3, <2>5, Continued, QuietAction, Zenon
<1>3. CASE Responds(p)
  <2>1. /\ Await(p, "stream") /\ ~Waiting(p) /\ ran' = ran /\ tools' = tools
        /\ UNCHANGED pending
    BY <1>3 DEF Responds, Waiting, counts
  <2>2. history' \in Seq(Message(Ids))
    BY <1>3, HistoryType, Messages DEF Responds
  <2>3. OtherTypes'
    BY <1>0, <1>3, <2>2 DEF Responds, session, counts, OtherTypes
  <2>4. "stream" \in Awaits /\ "stream" \in Quiet
    BY QuietAts DEF Quiet
  <2> QED BY <2>1, <2>3, <2>4, Awaited, QuietAction
<1>4. CASE StreamAnswers(p)
  <2>1. LeaveLoop(p, call[p]) /\ ~Waiting(p) /\ ran' = ran /\ tools' = tools
    BY <1>4 DEF StreamAnswers, Waiting, counts
  <2>2. history' \in Seq(Message(Ids))
    BY <1>4, HistoryType, Messages DEF StreamAnswers
  <2>3. OtherTypes'
    BY <1>0, <1>4, <2>2 DEF StreamAnswers, session, counts, OtherTypes
  <2>4. [call[p] EXCEPT !.at = "offered", !.results = {}, !.incomplete = 0] \in Calls
    BY <1>0, OfferedType, Zenon
  <2>5. tools' \in Nat /\ tools <= tools'
    BY <1>0, <2>1
  <2>6. call' \in [Prompts -> Calls] /\ PendingOK' /\ \A q \in Prompts : ToolInv(q)'
    BY <2>1, <2>4, <2>5, NotWaiting, LeftLoop, Zenon
  <2> QED BY <1>0, <2>1, <2>3, <2>6, LoopAction
<1>5. CASE StreamAsksForTools(p)
  <2>1. PICK n \in 1..(MaxTools - tools) :
            /\ addMessage(p, Answer(NewTools(p, n)))
            /\ call' = [call EXCEPT ![p] = [@ EXCEPT !.at = "tool", !.tool = tools + 1,
                                                     !.last = tools + n, !.results = {},
                                                     !.content = FALSE, !.incomplete = 0]]
            /\ tools' = tools + n
    BY <1>5, Zenon DEF StreamAsksForTools
  <2>2. /\ tools + 1 \in 0..MaxTools /\ tools + n \in 0..MaxTools
        /\ tools' \in Nat /\ tools < tools' /\ tools <= tools'
    BY <1>0, <2>1, ChatAssumption
  <2> DEFINE d == [call[p] EXCEPT !.at = "tool", !.tool = tools + 1, !.last = tools + n,
                                  !.results = {}, !.content = FALSE, !.incomplete = 0]
  <2>3. d \in Calls
    BY <1>0, <2>2, AskedType, Zenon
  <2>4. d.at = "tool" /\ d.tool = tools + 1 /\ d.last = tools + n
    BY <1>0 DEF Calls
  <2>5. call' = [call EXCEPT ![p] = d]
    BY <2>1
  <2> HIDE DEF d
  <2>6. /\ call' \in [Prompts -> Calls] /\ call'[p].at = "tool" /\ call'[p].tool = tools + 1
        /\ call'[p].last = tools' /\ \A q \in Prompts \ {p} : call'[q] = call[q]
    BY <2>1, <2>3, <2>4, <2>5, Continued, Zenon
  <2>7. ~Waiting(p) /\ ran' = ran /\ UNCHANGED pending
    BY <1>5 DEF StreamAsksForTools, GoesOn, Waiting
  <2>8. history' \in Seq(Message(Ids))
    BY <2>1, HistoryType, Messages
  <2>9. OtherTypes'
    BY <1>0, <1>5, <2>8 DEF StreamAsksForTools, session, OtherTypes
  <2>10. PendingOK' /\ StepOf(p)
    BY <2>2, <2>6, <2>7, PendingKept DEF StepOf
  <2>11. \A q \in Prompts : ToolInv(q)'
    BY <2>2, <2>6, <2>7, <2>10, NotWaiting, AskedStep
  <2> QED BY <2>1, <2>2, <2>6, <2>7, <2>9, <2>10, <2>11, LoopAction
<1>6. CASE replaceWithSummary(p)
  <2>1. Finish(p) /\ ~Waiting(p) /\ ran' = ran /\ tools' = tools /\ UNCHANGED pending
    BY <1>6 DEF replaceWithSummary, Waiting, counts
  <2>2. OtherTypes'
    BY <1>0, <1>6, SummaryType DEF replaceWithSummary, session, counts, OtherTypes
  <2> QED BY <2>1, <2>2, FinishAction
<1>7. CASE RequestAborted(p)
  <2>1. Finish(p) /\ ~Waiting(p) /\ ran' = ran /\ tools' = tools /\ UNCHANGED pending
    BY <1>7 DEF RequestAborted, Waiting, counts
  <2>2. OtherTypes'
    BY <1>0, <1>7 DEF RequestAborted, session, counts, OtherTypes
  <2> QED BY <2>1, <2>2, FinishAction
<1> QED BY <1>1, <1>2, <1>3, <1>4, <1>5, <1>6, <1>7 DEF Request

LEMMA FaultKeeps ==
    ASSUME IInv, NEW p \in Prompts, Fault(p)
    PROVE  IInv'
<1>0. call[p] \in Calls /\ tools \in Nat /\ tools \in 0..MaxTools /\ OtherTypes
  BY Numbers DEF IInv, TypeOK, OtherTypes
<1>1. Incident => incidents' \in 0..MaxIncidents
  BY <1>0, ChatAssumption DEF Incident, OtherTypes
<1>2. CASE ContextFails(p)
  <2>1. Finish(p) /\ ~Waiting(p) /\ ran' = ran /\ tools' = tools /\ UNCHANGED pending
    BY <1>2 DEF ContextFails, Waiting
  <2>2. OtherTypes'
    BY <1>0, <1>1, <1>2 DEF ContextFails, session, OtherTypes
  <2> QED BY <2>1, <2>2, FinishAction
<1>3. CASE RequestFails(p)
  <2>1. Finish(p) /\ ~Waiting(p) /\ ran' = ran /\ tools' = tools /\ UNCHANGED pending
    BY <1>3 DEF RequestFails, Waiting
  <2>2. history' \in Seq(Message(Ids))
    <3>1. <<>> \in Seq(Message(Ids)) /\ history \in Seq(Message(Ids))
      BY HistoryType
    <3> QED BY <1>3, <3>1, Zenon DEF RequestFails
  <2>3. OtherTypes'
    BY <1>0, <1>1, <1>3, <2>2 DEF RequestFails, session, OtherTypes
  <2> QED BY <2>1, <2>3, FinishAction
<1>4. CASE StreamTimesOut(p)
  <2> DEFINE d == [call[p] EXCEPT !.at = "next", !.results = {}, !.content = TRUE]
  <2>1. /\ call' = [call EXCEPT ![p] = d] /\ ~Waiting(p) /\ ran' = ran /\ tools' = tools
        /\ UNCHANGED pending
    BY <1>4 DEF StreamTimesOut, GoesOn, Waiting
  <2>2. d \in Calls
    BY <1>0, QuietAts, ChangedTypes, Zenon
  <2>3. d.at = "next" /\ "next" \in Quiet
    BY <1>0 DEF Calls, Quiet
  <2> HIDE DEF d
  <2>4. history' \in Seq(Message(Ids))
    BY <1>4, HistoryType, Messages DEF StreamTimesOut
  <2>5. OtherTypes'
    BY <1>0, <1>1, <1>4, <2>4 DEF StreamTimesOut, session, OtherTypes
  <2> QED BY <2>1, <2>2, <2>3, <2>5, Continued, QuietAction, Zenon
<1>5. CASE StreamErrs(p)
  <2> DEFINE streak(e) == call[p].incomplete + (IF e THEN 1 ELSE 0)
             d(n, e) == [call[p] EXCEPT !.at = "next", !.results = NewTools(p, n),
                                        !.content = e, !.incomplete = streak(e)]
  <2>1. PICK n \in 1..(MaxTools - tools), e \in BOOLEAN :
            /\ addMessage(p, Answer(NewTools(p, n)))
            /\ tools' = tools + n
            /\ \/ LeaveLoop(p, d(n, e))
               \/ /\ streak(e) \in 0..MaxIncomplete \/ ~(e /\ streak(e) > MaxIncomplete)
                  /\ call' = [call EXCEPT ![p] = d(n, e)] /\ UNCHANGED pending
    BY <1>5, Zenon DEF StreamErrs
  <2>2. tools' \in 0..MaxTools /\ tools' \in Nat /\ tools <= tools'
    BY <1>0, <2>1, ChatAssumption
  <2>3. ~Waiting(p) /\ Unasked(p) /\ ran' = ran
    BY <1>5, NotWaiting DEF StreamErrs, GoesOn, Waiting
  <2>4. history' \in Seq(Message(Ids))
    BY <2>1, HistoryType, Messages
  <2>5. OtherTypes'
    BY <1>0, <1>5, <2>4 DEF StreamErrs, session, OtherTypes
  <2>6. CASE LeaveLoop(p, d(n, e))
    <3>1. [d(n, e) EXCEPT !.at = "offered", !.results = {}, !.incomplete = 0] \in Calls
      BY <1>0, OfferedType, Zenon
    <3>2. call' \in [Prompts -> Calls] /\ PendingOK' /\ \A q \in Prompts : ToolInv(q)'
      BY <2>2, <2>3, <2>6, <3>1, LeftLoop, Zenon
    <3> QED BY <2>2, <2>3, <2>5, <3>2, LoopAction
  <2>7. CASE /\ streak(e) \in 0..MaxIncomplete \/ ~(e /\ streak(e) > MaxIncomplete)
             /\ call' = [call EXCEPT ![p] = d(n, e)] /\ UNCHANGED pending
    <3>1. streak(e) \in 0..MaxIncomplete
      <4>1. call[p].incomplete \in 0..MaxIncomplete
        BY <1>0, CallFields
      <4> QED BY <2>7, <4>1, ChatAssumption
    <3>2. NewTools(p, n) \in SUBSET Ids
      BY Messages
    <3> HIDE DEF streak
    <3>3. d(n, e) \in Calls
      BY <1>0, <3>1, <3>2, StreamedType, Zenon
    <3>4. d(n, e).at = "next"
      BY <1>0 DEF Calls
    <3> HIDE DEF d
    <3>5. call' \in [Prompts -> Calls] /\ call'[p].at = "next"
          /\ \A q \in Prompts \ {p} : call'[q] = call[q]
      BY <2>7, <3>3, <3>4, Continued, Zenon
    <3>6. PendingOK' /\ \A q \in Prompts : ToolInv(q)'
      BY <2>2, <2>3, <2>7, <3>5, PendingKept, GoesOnQuietly
    <3> QED BY <2>2, <2>3, <2>5, <3>5, <3>6, LoopAction
  <2> QED BY <2>1, <2>6, <2>7
<1> QED BY <1>2, <1>3, <1>4, <1>5 DEF Fault

\* A step that continues prompt p with call c and leaves the promises alone.
LEMMA ToolAction ==
    ASSUME IInv, NEW p \in Prompts, NEW c \in Calls, call' = [call EXCEPT ![p] = c],
           UNCHANGED pending, tools' = tools,
           \A q \in Prompts \ {p}, n \in 0..MaxTools : <<q, n>> \in ran' => <<q, n>> \in ran
    PROVE  StepOf(p) /\ PendingOK' /\ call' \in [Prompts -> Calls] /\ call'[p] = c
<1>1. tools' \in Nat /\ tools <= tools'
  BY Numbers
<1> QED BY <1>1, PendingKept, Continued, Zenon DEF StepOf

LEMMA SettledKeeps ==
    ASSUME IInv, NEW p \in Prompts, NEW error \in BOOLEAN, ToolSettled(p, error),
           call[p].at \in {"tool", "approval", "running"},
           ~Waiting(p) \/ approval[WaitsFor(p)] # "waiting",
           UNCHANGED pending, ran' = ran, tools' = tools, OtherTypes'
    PROVE  IInv'
<1>0. /\ call[p] \in Calls /\ Unasked(p) /\ ToolInv(p) /\ tools \in 0..MaxTools
      /\ tools \in Nat /\ MaxTools \in Nat
  BY NotWaiting, Numbers DEF IInv, TypeOK
<1>1. /\ call[p].tool \in 0..MaxTools /\ call[p].last \in 0..MaxTools
      /\ call[p].results \in SUBSET Ids /\ call[p].content \in BOOLEAN
  BY <1>0, CallFields
<1> DEFINE r == call[p].results \cup {ToolAtHand(p)}
           b == call[p].content \/ error
           c == [call[p] EXCEPT !.results = r, !.content = b]
           over == [c EXCEPT !.at = "next", !.tool = 0, !.last = 0]
           more == [c EXCEPT !.at = "tool", !.tool = call[p].tool + 1]
<1>2. r \in SUBSET Ids /\ b \in BOOLEAN
  BY <1>1, IdType DEF ToolAtHand
<1>3. c.tool = call[p].tool /\ c.last = call[p].last
  BY <1>0 DEF Calls
<1>4. call' = [call EXCEPT ![p] = IF call[p].tool = call[p].last THEN over ELSE more]
  BY <1>3 DEF ToolSettled
<1> HIDE DEF r, b
<1>5. over \in Calls /\ over.at = "next"
  BY <1>0, <1>2, SettledType, Zenon DEF Calls
<1>6. more.at = "tool" /\ more.tool = call[p].tool + 1 /\ more.last = call[p].last
  BY <1>0 DEF Calls
<1>7. call[p].tool # call[p].last => call[p].tool + 1 \in 0..MaxTools
  BY <1>0, <1>1 DEF ToolInv, ToolBounds
<1>8. call[p].tool # call[p].last => more \in Calls
  BY <1>0, <1>2, <1>7, SettledType, Zenon
<1> HIDE DEF over, more
<1>9. /\ StepOf(p) /\ PendingOK' /\ call' \in [Prompts -> Calls]
      /\ call'[p] = IF call[p].tool = call[p].last THEN over ELSE more
  BY <1>4, <1>5, <1>8, ToolAction, Zenon
<1>10. \A q \in Prompts : ToolInv(q)'
  BY <1>0, <1>5, <1>6, <1>9, SettledStep DEF pending
<1> QED BY <1>0, <1>9, <1>10, LoopAction

LEMMA RunKeeps ==
    ASSUME IInv, NEW p \in Prompts, Run(p),
           At(p, "tool") \/ (At(p, "approval") /\ approval[ToolAtHand(p)] = "approved"),
           UNCHANGED pending, tools' = tools, OtherTypes'
    PROVE  IInv'
<1>0. "running" \in Awaits /\ ToolAtHand(p) \in Ids
  BY Numbers, IdType DEF Awaits, ToolAtHand
<1>1. /\ call' \in [Prompts -> Calls] /\ call'[p].at = "running"
      /\ call'[p].tool = call[p].tool /\ call'[p].last = call[p].last
      /\ \A q \in Prompts \ {p} : call'[q] = call[q]
  BY <1>0, Awaited DEF Run
<1>2. ran' = ran \cup {ToolAtHand(p)} /\ approval' = approval
  BY DEF Run, pending
<1>3. \A q \in Prompts \ {p}, n \in 0..MaxTools : <<q, n>> \in ran' => <<q, n>> \in ran
  BY <1>2 DEF ToolAtHand
<1>4. PendingOK' /\ StepOf(p)
  BY <1>1, <1>3, Numbers, PendingKept DEF StepOf
<1>5. \A q \in Prompts : ToolInv(q)'
  BY <1>1, <1>2, <1>4, RunStep
<1>6. TypeOK'
  BY <1>0, <1>1, <1>2, <1>4 DEF IInv, TypeOK, OtherTypes, PendingOK, Status
<1> QED BY <1>5, <1>6 DEF IInv

LEMMA ToolKeeps ==
    ASSUME IInv, NEW p \in Prompts, Tool(p)
    PROVE  IInv'
<1>0. call[p] \in Calls /\ tools \in Nat /\ tools \in 0..MaxTools /\ OtherTypes
  BY Numbers DEF IInv, TypeOK, OtherTypes
<1>1. CASE AskForApproval(p)
  <2>1. /\ Await(p, "approval") /\ setDeferredToolExecution(ToolAtHand(p)) /\ At(p, "tool")
        /\ ran' = ran /\ tools' = tools /\ OtherTypes'
    BY <1>0, <1>1 DEF AskForApproval, session, counts, OtherTypes
  <2>2. "approval" \in Awaits /\ call[p].tool \in 0..MaxTools
    BY <1>0, CallFields DEF Awaits
  <2>3. /\ call' \in [Prompts -> Calls] /\ call'[p].at = "approval"
        /\ call'[p].tool = call[p].tool /\ call'[p].last = call[p].last
        /\ \A q \in Prompts \ {p} : call'[q] = call[q]
    BY <2>1, <2>2, Awaited
  <2>4. PendingOK' /\ \A q \in Prompts \ {p}, n \in 0..MaxTools : KeptOrRejected(<<q, n>>)
    BY <2>1, <2>2, DeferredKept, Zenon DEF ToolAtHand
  <2>5. StepOf(p)
    BY <1>0, <2>1, <2>3, <2>4 DEF StepOf
  <2>6. \A q \in Prompts : ToolInv(q)'
    BY <2>1, <2>3, <2>5, AskStep
  <2> QED BY <1>0, <2>1, <2>3, <2>4, <2>6, LoopAction
<1>2. CASE RunAtOnce(p)
  <2>1. Run(p) /\ At(p, "tool") /\ UNCHANGED pending /\ tools' = tools /\ OtherTypes'
    BY <1>0, <1>2 DEF RunAtOnce, session, counts, OtherTypes
  <2> QED BY <2>1, RunKeeps
<1>3. CASE ToolEnds(p)
  <2>1. /\ ~Waiting(p) /\ call[p].at \in {"tool", "approval", "running"} /\ UNCHANGED pending
        /\ ran' = ran /\ tools' = tools /\ OtherTypes'
    BY <1>0, <1>3 DEF ToolEnds, Waiting, session, counts, OtherTypes
  <2>2. PICK error \in BOOLEAN : ToolSettled(p, error)
    BY <1>3 DEF ToolEnds
  <2> QED BY <2>1, <2>2, SettledKeeps
<1>4. CASE ToolThrows(p)
  <2>1. /\ Finish(p) /\ UNCHANGED pending /\ ran' = ran /\ tools' = tools /\ OtherTypes'
    BY <1>0, <1>4 DEF ToolThrows, session, counts, OtherTypes
  <2>2. ~Waiting(p) \/ approval[WaitsFor(p)] # "waiting"
    BY <1>4 DEF ToolThrows, Waiting
  <2> QED BY <2>1, <2>2, FinishAction
<1>5. CASE ApprovalCancelled(p)
  <2>1. /\ call[p].at \in {"tool", "approval", "running"} /\ approval[WaitsFor(p)] # "waiting"
        /\ UNCHANGED pending /\ ran' = ran /\ tools' = tools /\ OtherTypes'
    BY <1>0, <1>5 DEF ApprovalCancelled, session, counts, OtherTypes
  <2>2. ToolSettled(p, TRUE)
    BY <1>5, Zenon DEF ApprovalCancelled
  <2> QED BY <2>1, <2>2, SettledKeeps, Zenon
<1>6. CASE Approved(p)
  <2>1. CASE At(p, "approval")
    <3>1. Run(p) /\ UNCHANGED pending /\ tools' = tools /\ OtherTypes'
      BY <1>0, <1>6, <2>1 DEF Approved, session, counts, OtherTypes, pending
    <3>2. approval[ToolAtHand(p)] = "approved"
      BY <1>6, <2>1 DEF Approved, WaitsFor
    <3> QED BY <2>1, <3>1, <3>2, RunKeeps
  <2>2. CASE ~At(p, "approval")
    <3>1. /\ deferred' = deferred \ {Offer(p)} /\ RunCompaction(p, call[p], current)
          /\ ran' = ran /\ tools' = tools /\ approval' = approval
          /\ approval[Offer(p)] = "approved"
      BY <1>6, <2>2 DEF Approved, counts, Waiting, WaitsFor
    <3>2. /\ call' \in [Prompts -> Calls] /\ history' \in Seq(Message(Ids))
          /\ call'[p].at \notin {"tool", "approval", "running", "offered"}
          /\ \A q \in Prompts \ {p} : call'[q] = call[q]
      BY <1>0, <3>1, Compacts
    <3>3. OtherTypes'
      BY <1>0, <1>6, <3>2 DEF Approved, session, counts, OtherTypes
    <3>4. PendingOK'
      BY <3>1 DEF IInv, TypeOK, PendingOK, Status
    <3>5. ASSUME NEW q \in Prompts, NEW n \in 0..MaxTools PROVE KeptOrRejected(<<q, n>>)
      BY <3>1 DEF KeptOrRejected
    <3>6. Unasked(p)
      BY <1>6, NotWaiting DEF Approved
    <3>7. \A q \in Prompts : ToolInv(q)'
      <4>1. tools' \in Nat /\ tools <= tools' /\ ran' = ran
        BY <1>0, <3>1
      <4>2. \A m \in Prompts, n \in 0..MaxTools : KeptOrRejected(<<m, n>>)
        BY <3>5
      <4> QED BY <3>2, <3>6, <4>1, <4>2, GoesOnQuietly, Zenon
    <3> QED BY <1>0, <3>1, <3>2, <3>3, <3>4, <3>7, LoopAction
  <2> QED BY <2>1, <2>2
<1> QED BY <1>1, <1>2, <1>3, <1>4, <1>5, <1>6 DEF Tool

\* A step of the user that continues no prompt: it aborts a request, and lets the promises
\* alone or rejects those that are pending.
LEMMA AbortAction ==
    ASSUME IInv, call' = call \/ call' = abortRequest(call),
           UNCHANGED pending \/ rejectAllDeferredToolExecutions("cancelled"),
           ran' = ran, tools' = tools, OtherTypes'
    PROVE  IInv'
<1>0. /\ call \in [Prompts -> Calls] /\ controller \in Prompts \cup {NoPrompt}
      /\ tools \in 0..MaxTools /\ tools \in Nat
  BY ChatAssumption DEF IInv, TypeOK
<1>1. call' \in [Prompts -> Calls]
  BY <1>0, AbortType
<1>2. PendingOK' /\ \A q \in Prompts, n \in 0..MaxTools : KeptOrRejected(<<q, n>>)
  BY PendingKept
<1>3. ASSUME NEW q \in Prompts PROVE ToolInv(q)'
  <2>1. call[q] \in Calls
    BY <1>0
  <2>2. \A b : LET c == [call[q] EXCEPT !.aborted = b]
               IN  c.at = call[q].at /\ c.tool = call[q].tool /\ c.last = call[q].last
    BY <2>1 DEF Calls
  <2>3. /\ call'[q].at = call[q].at /\ call'[q].tool = call[q].tool
        /\ call'[q].last = call[q].last
    <3>1. CASE call' = call
      BY <3>1
    <3>2. CASE call' = abortRequest(call)
      <4>1. PICK b \in {call[q].aborted, TRUE} : call'[q] = [call[q] EXCEPT !.aborted = b]
        BY <1>0, <3>2, AbortType
      <4> QED BY <2>2, <4>1
    <3> QED BY <3>1, <3>2
  <2> QED BY <1>0, <1>2, <2>3, OtherPrompt
<1>4. TypeOK'
  BY <1>0, <1>1, <1>2 DEF IInv, TypeOK, OtherTypes, PendingOK, Status
<1> QED BY <1>3, <1>4 DEF IInv

LEMMA CancellingKeeps ==
    ASSUME IInv, NEW p \in Prompts, Cancelling(p)
    PROVE  IInv'
<1>0. OtherTypes
  BY DEF IInv, TypeOK, OtherTypes
<1>1. ASSUME OnCancellation(p)
      PROVE  /\ call' = abortRequest(call)
             /\ UNCHANGED pending \/ rejectAllDeferredToolExecutions("cancelled")
             /\ token' \in [Prompts -> {"live", "early", "due", "skipping", "handled"}]
  BY <1>0, <1>1 DEF OnCancellation, OtherTypes
<1>2. CASE Cancel(p)
  <2>1. /\ call' = call \/ call' = abortRequest(call)
        /\ UNCHANGED pending \/ rejectAllDeferredToolExecutions("cancelled")
        /\ token' \in [Prompts -> {"live", "early", "due", "skipping", "handled"}]
    BY <1>0, <1>1, <1>2 DEF Cancel, pending, OtherTypes
  <2>2. ran' = ran /\ tools' = tools /\ incidents' \in 0..MaxIncidents
    BY <1>0, <1>2, ChatAssumption DEF Cancel, Incident, OtherTypes
  <2>3. OtherTypes'
    BY <1>0, <1>2, <2>1, <2>2 DEF Cancel, session, OtherTypes
  <2> QED BY <2>1, <2>2, <2>3, AbortAction
<1>3. CASE LateListener(p)
  <2>1. ran' = ran /\ tools' = tools /\ OtherTypes'
    BY <1>0, <1>1, <1>3 DEF LateListener, session, counts, OtherTypes
  <2> QED BY <1>1, <1>3, <2>1, AbortAction DEF LateListener
<1>4. CASE RejectPending(p)
  <2>1. ran' = ran /\ tools' = tools /\ OtherTypes'
    BY <1>0, <1>4 DEF RejectPending, session, counts, OtherTypes
  <2> QED BY <1>4, <2>1, AbortAction DEF RejectPending
<1> QED BY <1>2, <1>3, <1>4 DEF Cancelling

LEMMA ClearKeeps ==
    ASSUME IInv, Clear
    PROVE  IInv'
<1>0. OtherTypes
  BY DEF IInv, TypeOK, OtherTypes
<1>1. incidents' \in 0..MaxIncidents
  BY <1>0, ChatAssumption DEF Clear, Incident, OtherTypes
<1>2. history' \in Seq(Message(Ids)) /\ overlapped' \in BOOLEAN
  BY DEF Clear
<1>3. OtherTypes'
  BY <1>0, <1>1, <1>2, Zenon DEF Clear, OtherTypes
<1> QED BY <1>3, AbortAction DEF Clear

LEMMA ClickKeeps ==
    ASSUME IInv, onButtonClick
    PROVE  IInv'
<1>0. OtherTypes /\ PendingOK /\ tools \in Nat
  BY ChatAssumption DEF IInv, TypeOK, OtherTypes, PendingOK, Status
<1>1. PICK id \in deferred, answer \in {"approved", "rejected"} :
          approval[id] = "waiting" /\ approval' = [approval EXCEPT ![id] = answer]
  BY Zenon DEF onButtonClick
<1>2. id \in Ids /\ PendingOK'
  BY <1>0, <1>1 DEF PendingOK, Status, onButtonClick
<1>3. OtherTypes' /\ call' = call /\ ran' = ran /\ tools' = tools /\ deferred' = deferred
  BY <1>0 DEF onButtonClick, session, counts, OtherTypes
<1>4. ASSUME NEW q \in Prompts PROVE ToolInv(q)'
  <2>0. ToolInv(q)
    BY DEF IInv
  <2>1. ASSUME NEW n \in 0..MaxTools
        PROVE  /\ Untouched(<<q, n>>) => Untouched(<<q, n>>)'
               /\ approval'[<<q, n>>] = "waiting" => approval[<<q, n>>] = "waiting"
               /\ <<q, n>> \in ran => approval'[<<q, n>>] = approval[<<q, n>>]
    <3>1. <<q, n>> \in Ids /\ RanApproved(q, n)
      BY <2>0, IdType DEF ToolInv
    <3> QED BY <1>0, <1>1, <1>2, <1>3, <3>1 DEF PendingOK, Untouched, RanApproved
  <2>2. ToolBounds(q)'
    BY <1>3, <2>0 DEF ToolInv, ToolBounds
  <2>3. FreshTools(q)'
    <3> SUFFICES ASSUME NEW n \in 1..MaxTools
                 PROVE  /\ n > tools => Untouched(<<q, n>>)'
                        /\ At(q, "tool") /\ call[q].tool <= n /\ n <= call[q].last =>
                               Untouched(<<q, n>>)'
                        /\ (At(q, "approval") \/ At(q, "running")) /\ call[q].tool < n
                               /\ n <= call[q].last => Untouched(<<q, n>>)'
                        /\ At(q, "approval") /\ n = call[q].tool => <<q, n>> \notin ran
      BY <1>3 DEF FreshTools
    <3>1. n \in 0..MaxTools
      BY ChatAssumption
    <3> QED BY <2>0, <2>1, <3>1 DEF ToolInv, FreshTools
  <2>4. \A n \in 0..MaxTools : Reachable(q, n)' /\ RanApproved(q, n)'
    BY <1>3, <2>0, <2>1 DEF ToolInv, Reachable, RanApproved, Waiting, WaitsFor, ToolAtHand
  <2> QED BY <2>2, <2>3, <2>4 DEF ToolInv
<1>5. TypeOK'
  BY <1>2, <1>3 DEF IInv, TypeOK, OtherTypes, PendingOK, Status
<1> QED BY <1>4, <1>5 DEF IInv

\* The inductive invariant holds when the server starts.
LEMMA InitInv == Init => IInv
<1> SUFFICES ASSUME Init PROVE IInv
  OBVIOUS
<1>1. call \in [Prompts -> Calls] /\ \A p \in Prompts : call[p].at = "idle"
  BY FreshType DEF Init, Fresh
<1>2. TypeOK
  <2>1. history \in Seq(Message(Ids))
    BY DEF Init
  <2>2. 0 \in 0..MaxRequests /\ 0 \in 0..MaxTools /\ 0 \in 0..MaxIncidents
    BY ChatAssumption
  <2>3. OtherTypes
    BY <2>1, <2>2, Zenon DEF Init, OtherTypes
  <2>4. PendingOK
    BY DEF Init, PendingOK, Status
  <2>5. ran \subseteq Ids /\ tools \in 0..MaxTools
    BY <2>2 DEF Init
  <2> QED BY <1>1, <2>3, <2>4, <2>5 DEF TypeOK, OtherTypes, PendingOK, Status
<1>3. ASSUME NEW p \in Prompts PROVE ToolInv(p)
  <2>1. ToolBounds(p)
    BY <1>1 DEF ToolBounds
  <2>2. \A n \in 0..MaxTools : approval[<<p, n>>] = "none" /\ <<p, n>> \notin ran
    BY IdType DEF Init
  <2>3. FreshTools(p)
    <3>1. \A n \in 1..MaxTools : n \in 0..MaxTools
      BY ChatAssumption
    <3> QED BY <1>1, <2>2, <3>1 DEF FreshTools, Untouched
  <2> QED BY <2>1, <2>2, <2>3 DEF ToolInv, Reachable, RanApproved
<1> QED BY <1>2, <1>3 DEF IInv

\* Every step of the chat keeps the inductive invariant.
LEMMA NextInv == IInv /\ [Next]_vars => IInv'
<1> SUFFICES ASSUME IInv, [Next]_vars PROVE IInv'
  OBVIOUS
<1>1. CASE UNCHANGED vars
  <2>1. /\ call' = call /\ UNCHANGED pending /\ ran' = ran /\ tools' = tools
        /\ UNCHANGED <<token, session, history, overlapped, requests, incidents>>
    BY <1>1 DEF vars, counts
  <2>2. OtherTypes'
    BY <2>1 DEF IInv, TypeOK, OtherTypes, session
  <2> QED BY <2>1, <2>2, AbortAction
<1>2. CASE Next
  BY <1>2, PrepareKeeps, RequestKeeps, FaultKeeps, ToolKeeps, CancellingKeeps, ClickKeeps,
     ClearKeeps DEF Next
<1> QED BY <1>1, <1>2

\* Every variable of the chat tab keeps its type, whatever prompts, clicks and cancellations do.
THEOREM TypeCorrect == Spec => []TypeOK
<1>1. IInv => TypeOK
  BY DEF IInv
<1> QED BY <1>1, InitInv, NextInv, PTL DEF Spec

\* A prompt that waits for the user can be reached by a click, the next prompt or a cancellation:
\* setDeferredToolExecution and rejectAllDeferredToolExecutions never lose a pending promise.
THEOREM ApprovalsReachable == Spec => []WaitersAreReachable
<1>1. IInv => WaitersAreReachable
  BY InvGives
<1> QED BY <1>1, InitInv, NextInv, PTL DEF Spec

\* No tool use that processToolUses asked the user about is run without their approval.
THEOREM ApprovedBeforeRun == Spec => []OnlyApprovedRun
<1>1. IInv => OnlyApprovedRun
  BY InvGives
<1> QED BY <1>1, InitInv, NextInv, PTL DEF Spec

(***************************************************************************)
(* The inductive invariant for the history, while it has not been replaced *)
(* under a prompt (overlapped): it is sound, and for every prompt          *)
(*                                                                         *)
(*   Due     the session has a conversation when the agent loop is about   *)
(*           to start, the loop was given its id, and the next request has *)
(*           a text or results;                                            *)
(*   Writer  a prompt that is current, not cancelled and not a compaction  *)
(*           may add what it is about to add: the prompt of the request it *)
(*           has sent, the answer it is reading, or, once that is there,   *)
(*           the results of the tools.                                     *)
(***************************************************************************)
Early(p) == call[p].at \in {"idle", "invalidating", "trigger", "context"}

Due(p) ==
    /\ At(p, "context") => conversation
    /\ Early(p) => call[p].results = {} /\ call[p].content
    /\ ~Early(p) /\ ~At(p, "over") => call[p].conv
    /\ At(p, "next") => call[p].content \/ call[p].results # {}

Writes(p) == ~isPromptCanceled(p, current) /\ ~call[p].compact

Writer(p) ==
    Writes(p) =>
        /\ At(p, "loading") \/ (At(p, "response") /\ ~call[p].aborted) =>
               TakesPrompt(history, call[p].results, call[p].content)
        /\ At(p, "stream") => TakesAnswer(history)
        /\ call[p].at \in {"tool", "approval", "running", "next"} => history # <<>>

HistBody == Sound(history) /\ \A p \in Prompts : Due(p) /\ Writer(p)
HistInv == ~overlapped => HistBody

\* A prompt that a step does not continue, though its request may be aborted: it is not the
\* current one, or the history is as it was.
LEMMA OtherDue ==
    ASSUME NEW q \in Prompts, Due(q), Writer(q),
           call'[q].at = call[q].at, call'[q].compact = call[q].compact,
           call'[q].results = call[q].results, call'[q].content = call[q].content,
           call'[q].conv = call[q].conv, call[q].aborted => call'[q].aborted,
           conversation => conversation', token'[q] = "live" => token[q] = "live",
           current' = q => current = q /\ history' = history
    PROVE  Due(q)' /\ Writer(q)'
<1>1. Due(q)'
  BY DEF Due, Early
<1>2. Writes(q)' => Writes(q) /\ history' = history
  BY DEF Writes, isPromptCanceled, isCancellationRequested
<1>3. Writer(q)'
  BY <1>2 DEF Writer
<1> QED BY <1>1, <1>3

\* A step of prompt p alone.
LEMMA StepKeepsHistory ==
    ASSUME HistBody, NEW p \in Prompts, \A q \in Prompts \ {p} : call'[q] = call[q],
           \A q \in Prompts : token'[q] = "live" => token[q] = "live",
           conversation => conversation',
           (history' = history /\ current' = current) \/ current' = p,
           Sound(history'), Due(p)' /\ Writer(p)'
    PROVE  HistBody'
<1>1. ASSUME NEW q \in Prompts \ {p} PROVE Due(q)' /\ Writer(q)'
  <2>1. Due(q) /\ Writer(q)
    BY DEF HistBody
  <2> QED BY <2>1, OtherDue
<1> QED BY <1>1 DEF HistBody

\* What LeaveLoop, RunCompaction and the head of the agent loop do for prompt p.
LEMMA OverDue ==
    ASSUME NEW p \in Prompts,
           call'[p].at = "over" \/ (call'[p].at = "offered" /\ call'[p].conv)
    PROVE  Due(p)' /\ Writer(p)'
BY DEF Due, Early, Writer

\* A call that ends owes the history nothing.
LEMMA FinishDue ==
    ASSUME call \in [Prompts -> Calls], NEW p \in Prompts, Finish(p)
    PROVE  (\A q \in Prompts \ {p} : call'[q] = call[q]) /\ Due(p)' /\ Writer(p)'
<1>1. call'[p].at = "over"
  BY DEF Finish, Over, Fresh
<1>2. \A q \in Prompts \ {p} : call'[q] = call[q]
  BY DEF Finish
<1>3. Due(p)' /\ Writer(p)'
  BY <1>1 DEF Due, Early, Writer
<1> QED BY <1>2, <1>3

\* A call that leaves the loop owes the history nothing.
LEMMA LeaveDue ==
    ASSUME call \in [Prompts -> Calls], NEW p \in Prompts, NEW c, LeaveLoop(p, c),
           LET d == [c EXCEPT !.at = "offered", !.results = {}, !.incomplete = 0]
           IN  d.at = "offered" /\ d.conv
    PROVE  (\A q \in Prompts \ {p} : call'[q] = call[q]) /\ Due(p)' /\ Writer(p)'
<1> DEFINE d == [c EXCEPT !.at = "offered", !.results = {}, !.incomplete = 0]
<1>1. CASE Finish(p)
  BY <1>1, FinishDue
<1>2. CASE call' = [call EXCEPT ![p] = d]
  <2>1. d.at = "offered" /\ d.conv
    OBVIOUS
  <2> HIDE DEF d
  <2>2. call'[p] = d /\ \A q \in Prompts \ {p} : call'[q] = call[q]
    BY <1>2
  <2> QED BY <2>1, <2>2, OverDue
<1> QED BY <1>1, <1>2 DEF LeaveLoop

\* A turn that compacts leaves a sound history.
LEMMA CompactDue ==
    ASSUME TypeOK, Sound(history), NEW p \in Prompts, NEW c \in Calls, c.conv, NEW cur,
           RunCompaction(p, c, cur)
    PROVE  /\ \A q \in Prompts \ {p} : call'[q] = call[q]
           /\ Due(p)' /\ Writer(p)' /\ Sound(history')
           /\ history' = history \/ cur = p
<1> DEFINE fixed == fixAndGetHistory(history, {}, TRUE)
           d == [c EXCEPT !.at = "loading", !.compact = TRUE, !.results = fixed.results]
<1>1. call \in [Prompts -> Calls] /\ history \in Seq(Message(Ids))
  BY DEF TypeOK
<1>2. Sound(fixed.stored)
  BY <1>1, SoundFixed, Zenon
<1>3. /\ history' = history \/ (history' = fixed.stored /\ cur = p)
      /\ Finish(p) \/ call' = [call EXCEPT ![p] = d]
  BY DEF RunCompaction, isPromptCanceled
<1>4. d.at = "loading" /\ d.compact /\ d.conv
  BY DEF Calls
<1> HIDE DEF fixed, d
<1>5. CASE Finish(p)
  BY <1>1, <1>2, <1>3, <1>5, FinishDue
<1>6. CASE call' = [call EXCEPT ![p] = d]
  <2>1. call'[p] = d /\ \A q \in Prompts \ {p} : call'[q] = call[q]
    BY <1>1, <1>6
  <2>2. Due(p)' /\ Writer(p)'
    BY <1>4, <2>1 DEF Due, Early, Writer, Writes
  <2> QED BY <1>2, <1>3, <2>1, <2>2
<1> QED BY <1>3, <1>5, <1>6

\* The head of the loop leaves a sound history that takes the prompt of the turn.
LEMMA HeadDue ==
    ASSUME TypeOK, Sound(history), NEW p \in Prompts, NEW c \in Calls, c.conv, NEW cur,
           current' = cur, token' = token, LoopHead(p, c, cur),
           ~isPromptCanceled(p, cur) /\ ~c.compact =>
               /\ c.content \/ c.results # {}
               /\ history = <<>> => c.results = {} /\ c.content
    PROVE  /\ \A q \in Prompts \ {p} : call'[q] = call[q]
           /\ Due(p)' /\ Writer(p)' /\ Sound(history')
           /\ history' = history \/ cur = p
<1> DEFINE fixed == fixAndGetHistory(history, c.results, c.content)
           d == [c EXCEPT !.at = "loading", !.results = fixed.results]
<1>1. call \in [Prompts -> Calls] /\ history \in Seq(Message(Ids)) /\ c.content \in BOOLEAN
  BY DEF TypeOK, Calls
<1>2. /\ Sound(fixed.stored)
      /\ /\ fixed.ok /\ (c.content \/ c.results # {})
         /\ history = <<>> => c.results = {} /\ c.content
         => TakesPrompt(fixed.stored, fixed.results, c.content)
  <2> DEFINE r == c.results
             b == c.content
             f == fixAndGetHistory(history, r, b)
  <2>0. b \in BOOLEAN /\ f = fixAndGetHistory(history, r, b)
    BY <1>1
  <2> HIDE DEF r, b, f
  <2>1. history \in Seq(Message(Ids)) /\ Sound(history)
    BY <1>1
  <2> HIDE DEF fixed, d
  <2>2. Sound(f.stored)
    BY <2>0, <2>1, SoundFixed
  <2>3. ASSUME f.ok, b \/ r # {}, history = <<>> => r = {} /\ b
        PROVE  TakesPrompt(f.stored, f.results, b)
    BY <2>0, <2>1, <2>3, SoundFixed
  <2> QED BY <2>2, <2>3 DEF f, r, b, fixed
<1>3. \/ Finish(p) /\ UNCHANGED history
      \/ ~isPromptCanceled(p, cur) /\ history' = fixed.stored /\ LeaveLoop(p, c)
      \/ /\ ~isPromptCanceled(p, cur) /\ history' = fixed.stored /\ fixed.ok
         /\ call' = [call EXCEPT ![p] = d]
  BY DEF LoopHead
<1>4. /\ d.at = "loading" /\ d.compact = c.compact /\ d.conv /\ d.results = fixed.results
      /\ d.content = c.content
  BY DEF Calls
<1>5. LET e == [c EXCEPT !.at = "offered", !.results = {}, !.incomplete = 0]
      IN  e.at = "offered" /\ e.conv
  BY DEF Calls
<1>6. ~isPromptCanceled(p, cur) => cur = p
  BY DEF isPromptCanceled
<1> HIDE DEF fixed, d
<1>7. CASE Finish(p) /\ UNCHANGED history
  BY <1>1, <1>7, FinishDue
<1>8. CASE ~isPromptCanceled(p, cur) /\ history' = fixed.stored /\ LeaveLoop(p, c)
  BY <1>1, <1>2, <1>5, <1>6, <1>8, LeaveDue
<1>9. CASE /\ ~isPromptCanceled(p, cur) /\ history' = fixed.stored /\ fixed.ok
           /\ call' = [call EXCEPT ![p] = d]
  <2>1. call'[p] = d /\ \A q \in Prompts \ {p} : call'[q] = call[q]
    BY <1>1, <1>9
  <2>2. Due(p)'
    BY <1>4, <2>1 DEF Due, Early
  <2>3. ~c.compact => TakesPrompt(history', d.results, d.content)
    BY <1>2, <1>4, <1>9
  <2>4. Writer(p)'
    BY <1>4, <2>1, <2>3 DEF Writer, Writes
  <2> QED BY <1>2, <1>6, <1>9, <2>1, <2>2, <2>4
<1> QED BY <1>3, <1>7, <1>8, <1>9

(***************************************************************************)
(* The history through the actions                                         *)
(***************************************************************************)
LEMMA AwaitFields ==
    ASSUME call \in [Prompts -> Calls], NEW p \in Prompts, NEW at, Await(p, at)
    PROVE  /\ \A q \in Prompts \ {p} : call'[q] = call[q]
           /\ call'[p].at = at /\ call'[p].compact = call[p].compact
           /\ call'[p].results = call[p].results /\ call'[p].content = call[p].content
           /\ call'[p].conv = call[p].conv /\ call'[p].aborted = call[p].aborted
<1>1. call' = [call EXCEPT ![p].at = at]
  BY DEF Await
<1>2. call[p] \in Calls /\ call'[p] = [call[p] EXCEPT !.at = at]
  BY <1>1
<1> QED BY <1>1, <1>2 DEF Calls

\* The steps before the first request keep the history sound.
LEMMA PrepareHistory ==
    ASSUME TypeOK, HistBody, NEW p \in Prompts, Prepare(p)
    PROVE  HistBody'
<1>0. /\ call \in [Prompts -> Calls] /\ call[p] \in Calls /\ conversation \in BOOLEAN
      /\ token \in [Prompts -> {"live", "early", "due", "skipping", "handled"}]
      /\ Sound(history) /\ Due(p)
  BY DEF TypeOK, HistBody
<1>1. CASE OnChatPrompt(p)
  <2>1. PICK at \in {"invalidating", "trigger"}, compact \in BOOLEAN :
            call' = [call EXCEPT ![p] = [call[p] EXCEPT !.at = at, !.compact = compact]]
    BY <1>1 DEF OnChatPrompt
  <2>2. \A q \in Prompts \ {p} : call'[q] = call[q]
    BY <1>0, <2>1
  <2>3. call'[p] = [call[p] EXCEPT !.at = at, !.compact = compact]
    BY <1>0, <2>1
  <2>4. /\ call'[p].at = at /\ call'[p].results = call[p].results
        /\ call'[p].content = call[p].content
    BY <1>0, <2>3 DEF Calls
  <2>5. Due(p)' /\ Writer(p)'
    BY <1>0, <1>1, <2>1, <2>4 DEF Due, Early, Writer, OnChatPrompt
  <2>6. /\ history' = history /\ current' = current /\ conversation' = conversation
        /\ token' = token
    BY <1>1 DEF OnChatPrompt, session
  <2> QED BY <1>0, <2>2, <2>5, <2>6, StepKeepsHistory
<1>2. CASE IgnorePending(p)
  <2>1. /\ \A q \in Prompts \ {p} : call'[q] = call[q]
        /\ call'[p].at = "trigger" /\ call'[p].results = call[p].results
        /\ call'[p].content = call[p].content
    BY <1>0, <1>2, AwaitFields DEF IgnorePending
  <2>2. Due(p)' /\ Writer(p)'
    BY <1>0, <1>2, <2>1 DEF Due, Early, Writer, IgnorePending
  <2>3. /\ history' = history /\ current' = current /\ conversation' = conversation
        /\ token' = token
    BY <1>2 DEF IgnorePending, session
  <2> QED BY <1>0, <2>1, <2>2, <2>3, StepKeepsHistory
<1>3. CASE GotTrigger(p)
  <2>1. /\ \A q \in Prompts \ {p} : call'[q] = call[q]
        /\ call'[p].at = "context" /\ call'[p].results = call[p].results
        /\ call'[p].content = call[p].content
    BY <1>0, <1>3, AwaitFields DEF GotTrigger
  <2>2. Due(p)' /\ Writer(p)'
    BY <1>0, <1>3, <2>1 DEF Due, Early, Writer, GotTrigger
  <2>3. /\ history' = history /\ current' = current /\ conversation'
        /\ \A q \in Prompts : token'[q] = "live" => token[q] = "live"
    BY <1>0, <1>3 DEF GotTrigger
  <2> QED BY <1>0, <2>1, <2>2, <2>3, StepKeepsHistory
<1>4. CASE StartPrompt(p)
  <2> DEFINE c == [call[p] EXCEPT !.conv = conversation]
  <2>1. c \in Calls
    BY <1>0, Zenon DEF Calls
  <2>2. /\ c.conv = conversation /\ c.results = call[p].results /\ c.content = call[p].content
    BY <1>0 DEF Calls
  <2>3. /\ c.conv /\ c.results = {} /\ c.content
    BY <1>0, <1>4, <2>2 DEF Due, Early, StartPrompt
  <2>4. /\ RunCompaction(p, c, p) \/ LoopHead(p, c, p)
        /\ current' = p /\ token' = token /\ conversation' = conversation
    BY <1>4 DEF StartPrompt
  <2> HIDE DEF c
  <2>5. /\ \A q \in Prompts \ {p} : call'[q] = call[q]
        /\ Due(p)' /\ Writer(p)' /\ Sound(history')
    <3>1. CASE RunCompaction(p, c, p)
      BY <1>0, <2>1, <2>3, <3>1, CompactDue
    <3>2. CASE LoopHead(p, c, p)
      BY <1>0, <2>1, <2>3, <2>4, <3>2, HeadDue
    <3> QED BY <2>4, <3>1, <3>2
  <2> QED BY <2>4, <2>5, StepKeepsHistory
<1> QED BY <1>1, <1>2, <1>3, <1>4 DEF Prepare

\* An answer of prompt p that has no compaction is added: the tools may follow.
LEMMA AnswerAdded ==
    ASSUME TypeOK, HistBody, NEW p \in Prompts, At(p, "stream"), ~call[p].compact,
           NEW uses \in SUBSET Ids, addMessage(p, Answer(uses))
    PROVE  /\ Sound(history') /\ (history' = history \/ current = p)
           /\ ~isPromptCanceled(p, current) => history' # <<>>
<1>1. CASE isPromptCanceled(p, current)
  BY <1>1 DEF addMessage, HistBody
<1>2. CASE ~isPromptCanceled(p, current)
  <2>1. TakesAnswer(history) /\ Sound(history) /\ history \in Seq(Message(Ids))
    BY <1>2 DEF HistBody, Writer, Writes, TypeOK
  <2>2. history' = Append(history, Answer(uses)) /\ current = p
    BY <1>2 DEF addMessage, isPromptCanceled
  <2> QED BY <2>1, <2>2, SoundAnswer
<1> QED BY <1>1, <1>2

\* Sending a request and taking its response keep the history sound.
LEMMA RequestHistory ==
    ASSUME TypeOK, HistBody, NEW p \in Prompts, Request(p), ~overlapped'
    PROVE  HistBody'
<1>0. /\ call \in [Prompts -> Calls] /\ call[p] \in Calls /\ history \in Seq(Message(Ids))
      /\ Sound(history) /\ Due(p) /\ Writer(p)
  BY DEF TypeOK, HistBody
<1>1. CASE NextRound(p)
  <2>1. /\ LoopHead(p, call[p], current) /\ current' = current /\ token' = token
        /\ conversation' = conversation
    BY <1>1 DEF NextRound, session
  <2>2. /\ call[p].conv
        /\ ~isPromptCanceled(p, current) /\ ~call[p].compact =>
               (call[p].content \/ call[p].results # {}) /\ history # <<>>
    BY <1>0, <1>1 DEF NextRound, Due, Early, Writer, Writes
  <2>3. /\ \A q \in Prompts \ {p} : call'[q] = call[q]
        /\ Due(p)' /\ Writer(p)' /\ Sound(history')
        /\ history' = history \/ current = p
    BY <1>0, <2>1, <2>2, HeadDue
  <2> QED BY <2>1, <2>3, StepKeepsHistory
<1>2. CASE getChatResponse(p)
  <2> DEFINE d == [call[p] EXCEPT !.at = "response", !.aborted = FALSE, !.requested = TRUE]
  <2>1. call' = [call EXCEPT ![p] = d]
    BY <1>2 DEF getChatResponse
  <2>2. /\ d.at = "response" /\ d.compact = call[p].compact /\ d.results = call[p].results
        /\ d.content = call[p].content /\ d.conv = call[p].conv
    BY <1>0 DEF Calls
  <2> HIDE DEF d
  <2>3. call'[p] = d /\ \A q \in Prompts \ {p} : call'[q] = call[q]
    BY <1>0, <2>1
  <2>4. /\ history' = history /\ current' = current /\ conversation' = conversation
        /\ token' = token
    BY <1>2 DEF getChatResponse
  <2>5. Due(p)'
    BY <1>0, <1>2, <2>2, <2>3 DEF Due, Early, getChatResponse
  <2>6. Writer(p)'
    BY <1>0, <1>2, <2>2, <2>3, <2>4
       DEF Writer, Writes, isPromptCanceled, isCancellationRequested, getChatResponse
  <2> QED BY <1>0, <2>3, <2>4, <2>5, <2>6, StepKeepsHistory
<1>3. CASE Responds(p)
  <2>1. /\ \A q \in Prompts \ {p} : call'[q] = call[q]
        /\ call'[p].at = "stream" /\ call'[p].compact = call[p].compact
        /\ call'[p].conv = call[p].conv
    BY <1>0, <1>3, AwaitFields DEF Responds
  <2>2. current' = current /\ conversation' = conversation /\ token' = token
    BY <1>3 DEF Responds, session
  <2>3. call[p].conv /\ Due(p)'
    BY <1>0, <1>3, <2>1 DEF Due, Early, Responds
  <2>4. Writes(p)' => Writes(p)
    BY <2>1, <2>2 DEF Writes, isPromptCanceled, isCancellationRequested
  <2>5. CASE Writes(p)
    <3>1. history' = Append(history, Prompt(call[p].results, call[p].content)) /\ current = p
      BY <1>3, <2>3, <2>5 DEF Responds, addMessage, Writes, isPromptCanceled
    <3>2. TakesPrompt(history, call[p].results, call[p].content)
      BY <1>0, <1>3, <2>5 DEF Writer, Responds
    <3>3. call[p].results \in SUBSET Ids /\ call[p].content \in BOOLEAN
      BY <1>0 DEF Calls
    <3>4. Sound(history') /\ TakesAnswer(history')
      BY <1>0, <3>1, <3>2, <3>3, SoundPrompt
    <3>5. Writer(p)'
      BY <2>1, <3>4 DEF Writer
    <3> QED BY <2>1, <2>2, <2>3, <3>1, <3>4, <3>5, StepKeepsHistory
  <2>6. CASE ~Writes(p)
    <3>1. history' = history
      BY <1>3, <2>6 DEF Responds, addMessage, Writes
    <3>2. Writer(p)'
      BY <2>4, <2>6 DEF Writer
    <3> QED BY <1>0, <2>1, <2>2, <2>3, <3>1, <3>2, StepKeepsHistory
  <2> QED BY <2>5, <2>6
<1>4. CASE StreamAnswers(p)
  <2>1. /\ At(p, "stream") /\ ~call[p].compact /\ addMessage(p, Answer({}))
        /\ LeaveLoop(p, call[p])
        /\ current' = current /\ conversation' = conversation /\ token' = token
    BY <1>4 DEF StreamAnswers, session
  <2>2. Sound(history') /\ (history' = history \/ current = p)
    BY <2>1, AnswerAdded
  <2>3. LET d == [call[p] EXCEPT !.at = "offered", !.results = {}, !.incomplete = 0]
        IN  d.at = "offered" /\ d.conv
    BY <1>0, <2>1 DEF Due, Early, Calls
  <2>4. (\A q \in Prompts \ {p} : call'[q] = call[q]) /\ Due(p)' /\ Writer(p)'
    BY <1>0, <2>1, <2>3, LeaveDue
  <2> QED BY <2>1, <2>2, <2>4, StepKeepsHistory
<1>5. CASE StreamAsksForTools(p)
  <2>1. PICK n \in 1..(MaxTools - tools) :
            /\ addMessage(p, Answer(NewTools(p, n)))
            /\ call' = [call EXCEPT ![p] = [@ EXCEPT !.at = "tool", !.tool = tools + 1,
                                                     !.last = tools + n, !.results = {},
                                                     !.content = FALSE, !.incomplete = 0]]
    BY <1>5 DEF StreamAsksForTools
  <2>2. /\ At(p, "stream") /\ ~call[p].compact
        /\ current' = current /\ conversation' = conversation /\ token' = token
    BY <1>5 DEF StreamAsksForTools, GoesOn, session
  <2>3. NewTools(p, n) \in SUBSET Ids
    BY NewToolsType
  <2>4. /\ Sound(history') /\ (history' = history \/ current = p)
        /\ ~isPromptCanceled(p, current) => history' # <<>>
    BY <2>1, <2>2, <2>3, AnswerAdded
  <2>5. /\ \A q \in Prompts \ {p} : call'[q] = call[q]
        /\ call'[p].at = "tool" /\ call'[p].conv = call[p].conv
    BY <1>0, <2>1 DEF Calls
  <2>6. Due(p)'
    BY <1>0, <2>2, <2>5 DEF Due, Early
  <2>7. Writer(p)'
    BY <2>2, <2>4, <2>5 DEF Writer, Writes, isPromptCanceled, isCancellationRequested
  <2> QED BY <2>2, <2>4, <2>5, <2>6, <2>7, StepKeepsHistory
<1>6. CASE replaceWithSummary(p)
  <2>1. /\ history' = Summary /\ Finish(p) /\ current' = current /\ conversation' = conversation
        /\ token' = token
        /\ \A q \in Prompts \ {p} : call[q].at \notin {"loading", "response", "stream"}
    BY <1>6 DEF replaceWithSummary, session
  <2>2. (\A q \in Prompts \ {p} : call'[q] = call[q]) /\ Due(p)' /\ Writer(p)'
    BY <1>0, <2>1, FinishDue
  <2>3. ASSUME NEW q \in Prompts \ {p} PROVE Due(q)' /\ Writer(q)'
    <3>1. Due(q)'
      BY <2>1, <2>2 DEF HistBody, Due, Early
    <3>2. Writer(q)'
      BY <2>1, <2>2, SoundFresh DEF Writer
    <3> QED BY <3>1, <3>2
  <2> QED BY <2>1, <2>2, <2>3, SoundFresh DEF HistBody
<1>7. CASE RequestAborted(p)
  <2>1. (\A q \in Prompts \ {p} : call'[q] = call[q]) /\ Due(p)' /\ Writer(p)'
    BY <1>0, <1>7, FinishDue DEF RequestAborted
  <2>2. /\ history' = history /\ current' = current /\ conversation' = conversation
        /\ token' = token
    BY <1>7 DEF RequestAborted, session
  <2> QED BY <1>0, <2>1, <2>2, StepKeepsHistory
<1> QED BY <1>1, <1>2, <1>3, <1>4, <1>5, <1>6, <1>7 DEF Request

\* The error paths of a request keep the history sound.
LEMMA FaultHistory ==
    ASSUME TypeOK, HistBody, NEW p \in Prompts, Fault(p), ~overlapped'
    PROVE  HistBody'
<1>0. /\ call \in [Prompts -> Calls] /\ call[p] \in Calls /\ history \in Seq(Message(Ids))
      /\ Sound(history) /\ Due(p)
  BY DEF TypeOK, HistBody
<1>1. ASSUME Finish(p), history' = history, current' = current, conversation' = conversation,
             token' = token
      PROVE  HistBody'
  <2>1. (\A q \in Prompts \ {p} : call'[q] = call[q]) /\ Due(p)' /\ Writer(p)'
    BY <1>0, <1>1, FinishDue
  <2> QED BY <1>0, <1>1, <2>1, StepKeepsHistory
<1>2. CASE ContextFails(p)
  BY <1>1, <1>2 DEF ContextFails, session
<1>3. CASE RequestFails(p)
  <2>1. Finish(p) /\ current' = current /\ conversation' = conversation /\ token' = token
    BY <1>3 DEF RequestFails, session
  <2>2. CASE history' = history
    BY <1>1, <2>1, <2>2
  <2>3. CASE history' = <<>> /\ \A q \in Prompts \ {p} : ~Midway(q)
    <3>1. (\A q \in Prompts \ {p} : call'[q] = call[q]) /\ Due(p)' /\ Writer(p)'
      BY <1>0, <2>1, FinishDue
    <3>2. ASSUME NEW q \in Prompts \ {p} PROVE Due(q)' /\ Writer(q)'
      <4>1. Due(q)'
        BY <2>1, <3>1 DEF HistBody, Due, Early
      <4>2. Writer(q)'
        BY <2>3, <3>1, SoundFresh DEF Writer, Midway
      <4> QED BY <4>1, <4>2
    <3> QED BY <2>3, <3>1, <3>2, SoundFresh DEF HistBody
  <2> QED BY <1>3, <2>2, <2>3 DEF RequestFails
<1>4. CASE StreamTimesOut(p)
  <2>1. /\ At(p, "stream") /\ ~call[p].compact /\ addMessage(p, Answer({}))
        /\ current' = current /\ conversation' = conversation /\ token' = token
    BY <1>4 DEF StreamTimesOut, GoesOn, session
  <2>2. /\ Sound(history') /\ (history' = history \/ current = p)
        /\ ~isPromptCanceled(p, current) => history' # <<>>
    BY <2>1, AnswerAdded
  <2>3. call' = [call EXCEPT ![p] = [@ EXCEPT !.at = "next", !.results = {}, !.content = TRUE]]
    BY <1>4 DEF StreamTimesOut
  <2>4. /\ \A q \in Prompts \ {p} : call'[q] = call[q]
        /\ call'[p].at = "next" /\ call'[p].conv = call[p].conv /\ call'[p].content
    BY <1>0, <2>3 DEF Calls
  <2>5. Due(p)'
    BY <1>0, <2>1, <2>4 DEF Due, Early
  <2>6. Writer(p)'
    BY <2>1, <2>2, <2>4 DEF Writer, Writes, isPromptCanceled, isCancellationRequested
  <2> QED BY <2>1, <2>2, <2>4, <2>5, <2>6, StepKeepsHistory
<1>5. CASE StreamErrs(p)
  <2>1. PICK n \in 1..(MaxTools - tools), incomplete \in BOOLEAN :
            LET streak == call[p].incomplete + (IF incomplete THEN 1 ELSE 0)
                c == [call[p] EXCEPT !.at = "next", !.results = NewTools(p, n),
                                     !.content = incomplete, !.incomplete = streak]
            IN  /\ addMessage(p, Answer(NewTools(p, n)))
                /\ LeaveLoop(p, c) \/ call' = [call EXCEPT ![p] = c]
    BY <1>5 DEF StreamErrs
  <2> DEFINE streak == call[p].incomplete + (IF incomplete THEN 1 ELSE 0)
             c == [call[p] EXCEPT !.at = "next", !.results = NewTools(p, n),
                                  !.content = incomplete, !.incomplete = streak]
  <2>2. /\ At(p, "stream") /\ ~call[p].compact
        /\ current' = current /\ conversation' = conversation /\ token' = token
    BY <1>5 DEF StreamErrs, GoesOn, session
  <2>3. NewTools(p, n) \in SUBSET Ids /\ NewTools(p, n) # {}
    BY NewToolsType
  <2>4. /\ Sound(history') /\ (history' = history \/ current = p)
        /\ ~isPromptCanceled(p, current) => history' # <<>>
    BY <2>1, <2>2, <2>3, AnswerAdded
  <2>5. call[p].conv
    BY <1>0, <2>2 DEF Due, Early
  <2> HIDE DEF streak
  <2>6. LET d == [c EXCEPT !.at = "offered", !.results = {}, !.incomplete = 0]
        IN  d.at = "offered" /\ d.conv
    BY <1>0, <2>5 DEF Calls
  <2>7. c.at = "next" /\ c.conv /\ c.results = NewTools(p, n)
    BY <1>0, <2>5 DEF Calls
  <2>8. LeaveLoop(p, c) \/ call' = [call EXCEPT ![p] = c]
    BY <2>1 DEF streak
  <2> HIDE DEF c
  <2>9. CASE LeaveLoop(p, c)
    <3>1. (\A q \in Prompts \ {p} : call'[q] = call[q]) /\ Due(p)' /\ Writer(p)'
      BY <1>0, <2>6, <2>9, LeaveDue
    <3> QED BY <2>2, <2>4, <3>1, StepKeepsHistory
  <2>10. CASE call' = [call EXCEPT ![p] = c]
    <3>1. call'[p] = c /\ \A q \in Prompts \ {p} : call'[q] = call[q]
      BY <1>0, <2>10
    <3>2. Due(p)'
      BY <2>3, <2>7, <3>1 DEF Due, Early
    <3>3. Writer(p)'
      BY <2>2, <2>4, <2>7, <3>1 DEF Writer, Writes, isPromptCanceled, isCancellationRequested
    <3> QED BY <2>2, <2>4, <3>1, <3>2, <3>3, StepKeepsHistory
  <2> QED BY <2>8, <2>9, <2>10
<1> QED BY <1>2, <1>3, <1>4, <1>5 DEF Fault

\* A step within processToolUses.
LEMMA ToolDue ==
    ASSUME TypeOK, HistBody, NEW p \in Prompts, call[p].at \in {"tool", "approval", "running"},
           \A q \in Prompts \ {p} : call'[q] = call[q],
           call'[p].at \in {"tool", "approval", "running", "next"},
           call'[p].at = "next" => call'[p].content \/ call'[p].results # {},
           call'[p].conv = call[p].conv, call'[p].compact = call[p].compact,
           history' = history, current' = current, conversation' = conversation, token' = token
    PROVE  HistBody'
<1>0. Sound(history) /\ Due(p) /\ Writer(p)
  BY DEF HistBody
<1>1. Due(p)'
  BY <1>0 DEF Due, Early
<1>2. Writes(p)' => Writes(p)
  BY DEF Writes, isPromptCanceled, isCancellationRequested
<1>3. Writer(p)'
  BY <1>0, <1>2 DEF Writer
<1> QED BY <1>0, <1>1, <1>3, StepKeepsHistory

\* A tool that settles leaves its call with a result, at the next tool or the next turn.
LEMMA SettledDue ==
    ASSUME call \in [Prompts -> Calls], NEW p \in Prompts, NEW error \in BOOLEAN,
           ToolSettled(p, error)
    PROVE  /\ \A q \in Prompts \ {p} : call'[q] = call[q]
           /\ call'[p].at \in {"tool", "next"} /\ call'[p].results # {}
           /\ call'[p].conv = call[p].conv /\ call'[p].compact = call[p].compact
<1> DEFINE r == call[p].results \cup {ToolAtHand(p)}
           b == call[p].content \/ error
           c == [call[p] EXCEPT !.results = r, !.content = b]
           next == [c EXCEPT !.at = "next", !.tool = 0, !.last = 0]
           tool == [c EXCEPT !.at = "tool", !.tool = @ + 1]
<1>1. call' = [call EXCEPT ![p] = next] \/ call' = [call EXCEPT ![p] = tool]
  BY DEF ToolSettled
<1>2. call[p] \in Calls /\ r # {}
  OBVIOUS
<1> HIDE DEF r, b
<1>3. /\ next.at = "next" /\ next.results = r
      /\ next.conv = call[p].conv /\ next.compact = call[p].compact
  BY <1>2 DEF Calls
<1>4. /\ tool.at = "tool" /\ tool.results = r
      /\ tool.conv = call[p].conv /\ tool.compact = call[p].compact
  BY <1>2 DEF Calls
<1> HIDE DEF next, tool
<1> QED BY <1>1, <1>2, <1>3, <1>4

\* Approving, running and settling tools keep the history sound.
LEMMA ToolHistory ==
    ASSUME TypeOK, HistBody, NEW p \in Prompts, Tool(p)
    PROVE  HistBody'
<1>0. /\ call \in [Prompts -> Calls] /\ call[p] \in Calls /\ Sound(history) /\ Due(p)
  BY DEF TypeOK, HistBody
<1>1. CASE AskForApproval(p)
  BY <1>0, <1>1, AwaitFields, ToolDue DEF AskForApproval, session
<1>2. CASE RunAtOnce(p)
  BY <1>0, <1>2, AwaitFields, ToolDue DEF RunAtOnce, Run, session
<1>3. CASE ToolEnds(p)
  BY <1>0, <1>3, SettledDue, ToolDue DEF ToolEnds, session
<1>4. CASE ApprovalCancelled(p)
  BY <1>0, <1>4, SettledDue, ToolDue DEF ApprovalCancelled, session
<1>5. CASE ToolThrows(p)
  <2>1. (\A q \in Prompts \ {p} : call'[q] = call[q]) /\ Due(p)' /\ Writer(p)'
    BY <1>0, <1>5, FinishDue DEF ToolThrows
  <2>2. /\ history' = history /\ current' = current /\ conversation' = conversation
        /\ token' = token
    BY <1>5 DEF ToolThrows, session
  <2> QED BY <1>0, <2>1, <2>2, StepKeepsHistory
<1>6. CASE Approved(p)
  <2>1. current' = current /\ conversation' = conversation /\ token' = token
    BY <1>6 DEF Approved, session
  <2>2. CASE At(p, "approval")
    BY <1>0, <1>6, <2>1, <2>2, AwaitFields, ToolDue DEF Approved, Run
  <2>3. CASE At(p, "offered")
    <3>1. RunCompaction(p, call[p], current) /\ call[p].conv
      BY <1>0, <1>6, <2>3 DEF Approved, Due, Early
    <3>2. /\ \A q \in Prompts \ {p} : call'[q] = call[q]
          /\ Due(p)' /\ Writer(p)' /\ Sound(history')
          /\ history' = history \/ current = p
      BY <1>0, <3>1, CompactDue
    <3> QED BY <2>1, <3>2, StepKeepsHistory
  <2> QED BY <1>6, <2>2, <2>3 DEF Approved, Waiting
<1> QED BY <1>1, <1>2, <1>3, <1>4, <1>5, <1>6 DEF Tool

\* Requests may be aborted and tokens cancelled, and nothing else.
LEMMA AbortFields ==
    ASSUME TypeOK, call' = call \/ call' = abortRequest(call), NEW q \in Prompts
    PROVE  /\ call'[q].at = call[q].at /\ call'[q].compact = call[q].compact
           /\ call'[q].results = call[q].results /\ call'[q].content = call[q].content
           /\ call'[q].conv = call[q].conv /\ (call[q].aborted => call'[q].aborted)
<1>1. call \in [Prompts -> Calls] /\ call[q] \in Calls
      /\ controller \in Prompts \cup {NoPrompt}
  BY DEF TypeOK
<1>2. CASE call' = call
  BY <1>2
<1>3. CASE call' = abortRequest(call)
  <2>1. PICK b \in {call[q].aborted, TRUE} : call'[q] = [call[q] EXCEPT !.aborted = b]
    BY <1>1, <1>3, AbortType
  <2> QED BY <1>1, <2>1 DEF Calls
<1> QED BY <1>2, <1>3

\* Aborting calls keeps the history sound.
LEMMA AbortHistory ==
    ASSUME TypeOK, HistBody, call' = call \/ call' = abortRequest(call),
           \A q \in Prompts : token'[q] = "live" => token[q] = "live",
           history' = history, current' = current, conversation' = conversation
    PROVE  HistBody'
<1>1. ASSUME NEW q \in Prompts PROVE Due(q)' /\ Writer(q)'
  <2>1. Due(q) /\ Writer(q)
    BY DEF HistBody
  <2> QED BY <2>1, AbortFields, OtherDue
<1> QED BY <1>1 DEF HistBody

\* The steps of a cancellation keep the history sound.
LEMMA CancellingHistory ==
    ASSUME TypeOK, HistBody, NEW p \in Prompts, Cancelling(p)
    PROVE  HistBody'
<1>1. /\ call' = call \/ call' = abortRequest(call)
      /\ history' = history /\ current' = current /\ conversation' = conversation
  BY DEF Cancelling, Cancel, LateListener, RejectPending, OnCancellation, session
<1>2. PICK t \in {"early", "skipping", "handled"} : token' = [token EXCEPT ![p] = t]
  BY DEF Cancelling, Cancel, LateListener, RejectPending, OnCancellation
<1>3. \A q \in Prompts : token'[q] = "live" => token[q] = "live"
  BY <1>2 DEF TypeOK
<1> QED BY <1>1, <1>3, AbortHistory

\* Clearing the tab leaves a sound history.
LEMMA ClearHistory ==
    ASSUME TypeOK, HistBody, Clear, ~overlapped'
    PROVE  HistBody'
<1>1. history' = <<>> /\ current' = current /\ token' = token /\ call' = abortRequest(call)
  BY DEF Clear
<1>2. ASSUME NEW q \in Prompts PROVE Due(q)' /\ Writer(q)'
  <2>1. /\ call'[q].at = call[q].at /\ call'[q].compact = call[q].compact
        /\ call'[q].results = call[q].results /\ call'[q].content = call[q].content
        /\ call'[q].conv = call[q].conv
    BY <1>1, AbortFields
  <2>2. ~At(q, "context") /\ (Midway(q) => At(q, "response") /\ call'[q].aborted)
    BY DEF Clear
  <2>3. Due(q)'
    BY <2>1, <2>2 DEF HistBody, Due, Early, Midway
  <2>4. Writer(q)'
    BY <1>1, <2>1, <2>2, SoundFresh DEF Writer, Midway
  <2> QED BY <2>3, <2>4
<1> QED BY <1>1, <1>2, SoundFresh DEF HistBody

\* The history is sound when the server starts.
LEMMA InitHistory == Init => HistInv
<1> SUFFICES ASSUME Init PROVE HistBody
  BY DEF HistInv
<1>1. \A p \in Prompts : call[p].at = "idle" /\ call[p].results = {} /\ call[p].content
  BY DEF Init, Fresh
<1>2. \A p \in Prompts : Due(p) /\ Writer(p)
  BY <1>1 DEF Due, Early, Writer
<1> QED BY <1>2, SoundFresh DEF HistBody, Init

\* Every step of the chat keeps the history sound.
LEMMA NextHistory == TypeOK /\ HistInv /\ [Next]_vars => HistInv'
<1> SUFFICES ASSUME TypeOK, HistInv, [Next]_vars, ~overlapped' PROVE HistBody'
  BY DEF HistInv
<1>1. CASE UNCHANGED vars
  <2>1. /\ call' = call /\ token' = token /\ history' = history /\ current' = current
        /\ conversation' = conversation /\ overlapped' = overlapped
    BY <1>1 DEF vars, session
  <2> QED BY <2>1, AbortHistory DEF HistInv
<1>2. ASSUME NEW p \in Prompts, Prepare(p) PROVE HistBody'
  <2>1. ~overlapped
    BY <1>2 DEF Prepare, OnChatPrompt, IgnorePending, GotTrigger, StartPrompt
  <2> QED BY <1>2, <2>1, PrepareHistory DEF HistInv
<1>3. ASSUME NEW p \in Prompts, Request(p) PROVE HistBody'
  <2>1. ~overlapped
    BY <1>3 DEF Request, NextRound, getChatResponse, Responds, StreamAnswers,
                StreamAsksForTools, replaceWithSummary, RequestAborted
  <2> QED BY <1>3, <2>1, RequestHistory DEF HistInv
<1>4. ASSUME NEW p \in Prompts, Fault(p) PROVE HistBody'
  <2>1. ~overlapped
    BY <1>4 DEF Fault, ContextFails, RequestFails, StreamTimesOut, StreamErrs
  <2> QED BY <1>4, <2>1, FaultHistory DEF HistInv
<1>5. ASSUME NEW p \in Prompts, Tool(p) PROVE HistBody'
  <2>1. ~overlapped
    BY <1>5 DEF Tool, AskForApproval, RunAtOnce, ToolEnds, ToolThrows, ApprovalCancelled,
                Approved
  <2> QED BY <1>5, <2>1, ToolHistory DEF HistInv
<1>6. ASSUME NEW p \in Prompts, Cancelling(p) PROVE HistBody'
  <2>1. ~overlapped
    BY <1>6 DEF Cancelling, Cancel, LateListener, RejectPending
  <2> QED BY <1>6, <2>1, CancellingHistory DEF HistInv
<1>7. CASE onButtonClick
  <2>1. /\ call' = call /\ token' = token /\ history' = history /\ current' = current
        /\ conversation' = conversation /\ overlapped' = overlapped
    BY <1>7 DEF onButtonClick, session
  <2> QED BY <2>1, AbortHistory DEF HistInv
<1>8. CASE Clear
  <2>1. ~overlapped
    BY <1>8 DEF Clear
  <2> QED BY <1>8, <2>1, ClearHistory DEF HistInv
<1> QED BY <1>1, <1>2, <1>3, <1>4, <1>5, <1>6, <1>7, <1>8 DEF Next

\* A history that the invariant describes is sent with its prompts and answers in turn.
LEMMA HistoryGives ==
    ASSUME TypeOK, HistInv
    PROVE  HistoryPaired
<1> SUFFICES ASSUME ~overlapped PROVE SentAlternates
  BY DEF HistoryPaired
<1>1. Sound(history) /\ history \in Seq(Message(Ids))
  BY DEF HistInv, HistBody, TypeOK
<1> DEFINE sent == ensureValidMessageSequence(history).sent
           stored == ensureValidMessageSequence(history).stored
<1>2. Paired(sent) /\ (sent # <<>> => sent[1].type = "prompt")
  BY <1>1, SoundSent
<1> QED BY <1>2 DEF SentAlternates

\* What fixAndGetHistory sends starts with a prompt, alternates and brings the results of every tool
\* use, for any number of prompts, whatever comes in between short of what HistoryPaired excepts.
THEOREM HistoryAlternates == Spec => []HistoryPaired
<1>1. IInv => TypeOK
  BY DEF IInv
<1>2. TypeOK /\ HistInv => HistoryPaired
  BY HistoryGives
<1> QED BY <1>1, <1>2, InitInv, NextInv, InitHistory, NextHistory, PTL DEF Spec
==============================================================================
