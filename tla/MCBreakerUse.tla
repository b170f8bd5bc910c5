---------------------------- MODULE MCBreakerUse ----------------------------
(* Instances of BreakerUse for TLC. *)
EXTENDS BreakerUse
=============================================================================
