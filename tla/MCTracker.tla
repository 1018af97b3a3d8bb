----------------------------- MODULE MCTracker -----------------------------
(* The instance of the timely run with the conflict tracker beside it.     *)
EXTENDS MCBLSMR, ConflictTracker
============================================================================
