----------------------------- MODULE MCSsoToken -----------------------------
(* SsoToken for TLC.  The unit is of the order of the cooldown: a refresh   *)
(* window of two units, a cooldown of one, and a token that lives longer   *)
(* than the window.                                                        *)
EXTENDS SsoToken, TLC

CONSTANTS c1, c2, h1, h2

MCCalls == {c1, c2}
MCHandles == {h1, h2}
Symmetry == Permutations(MCCalls) \cup Permutations(MCHandles)
=============================================================================
