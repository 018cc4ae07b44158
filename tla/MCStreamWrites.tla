--------------------------- MODULE MCStreamWrites ---------------------------
(* Instances of StreamWrites for TLC. *)
EXTENDS StreamWrites
=============================================================================
