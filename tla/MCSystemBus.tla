----------------------------- MODULE MCSystemBus -----------------------------
(* Instances of SystemBus for TLC. *)
EXTENDS SystemBus
=============================================================================
