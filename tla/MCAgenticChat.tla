---------------------------- MODULE MCAgenticChat ----------------------------
(***************************************************************************)
(* Instances of AgenticChat for TLC.                                       *)
(***************************************************************************)
EXTENDS AgenticChat, TLC

\* A prompt's steps do not depend on its name.
PromptSymmetry == Permutations(Prompts)
==============================================================================
