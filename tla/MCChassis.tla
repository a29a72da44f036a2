--------------------------------- MODULE MCChassis ---------------------------------
(***************************************************************************)
(* Two signals, one crash and a log file that is moved away once.          *)
(***************************************************************************)
EXTENDS Chassis
=============================================================================
