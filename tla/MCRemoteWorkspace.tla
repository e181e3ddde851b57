-------------------------- MODULE MCRemoteWorkspace --------------------------
(* Two intervals of a kind and a few clients. *)
EXTENDS RemoteWorkspace, TLC
=============================================================================
