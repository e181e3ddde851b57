--------------------------- MODULE MCQConfiguration ---------------------------
(***************************************************************************)
(* A small instance of QConfiguration: one profile, one identity and two   *)
(* values of each section.                                                 *)
(***************************************************************************)
EXTENDS QConfiguration

MCProfiles == {"east"}
MCRegionOf == [east |-> "us-east-1"]
MCRegions == {"us-east-1"}
===============================================================================
