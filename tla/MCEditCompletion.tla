-------------------------- MODULE MCEditCompletion --------------------------
(***************************************************************************)
(* EditCompletion for TLC: two requests that may overlap, or one at a      *)
(* time, three sessions, and a tracker of one rejected edit.               *)
(***************************************************************************)
EXTENDS EditCompletion
=============================================================================
