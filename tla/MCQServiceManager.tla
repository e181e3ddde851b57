-------------------------- MODULE MCQServiceManager --------------------------
(***************************************************************************)
(* Small instances of QServiceManager: two profiles of one region, one of  *)
(* another region and one of a region without an Amazon Q endpoint.        *)
(***************************************************************************)
EXTENDS QServiceManager

MCProfiles == {"east1", "east2", "west", "mars"}
MCRegionOf == [east1 |-> "us-east-1", east2 |-> "us-east-1",
               west |-> "eu-central-1", mars |-> "mars-1"]
MCRegions == {"us-east-1", "eu-central-1"}
=============================================================================
