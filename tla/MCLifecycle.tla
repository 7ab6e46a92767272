---------------------------- MODULE MCLifecycle ----------------------------
(* Lifecycle for TLC: runs of the scripts, orders and faults in any order. *)
EXTENDS Lifecycle

MCModes == {Normal, Observe, Safe}
=============================================================================
