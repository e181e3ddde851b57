------------------------ MODULE MCInlineCompletion ------------------------
(***************************************************************************)
(* InlineCompletion for TLC: two requests of the client, three sessions,   *)
(* of which the manager's log keeps two.                                   *)
(***************************************************************************)
EXTENDS InlineCompletion
===========================================================================
