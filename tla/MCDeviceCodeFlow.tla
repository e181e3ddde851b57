-------------------------- MODULE MCDeviceCodeFlow --------------------------
(***************************************************************************)
(* The device code flow with a clock of a few intervals: long enough for   *)
(* two slow-downs and for the expiry to come during a poll or a sleep.     *)
(***************************************************************************)
EXTENDS DeviceCodeFlow
=============================================================================
