------------------------------ MODULE MCHillclimb ------------------------------
(* Instances of HillclimbIter for TLC.                                     *)
EXTENDS HillclimbIter

CONSTANTS cron, manual
=============================================================================
