-------------------------------- MODULE MCDtm --------------------------------
(* Instances of Dtm for TLC. *)
EXTENDS Dtm, TLC

CONSTANTS a1, a2, readKey, writeKey

MCNoBatches == <<>>

\* read_mem's shape (write an address, read twice, collect) and a plain write.
MCBatches ==
  (readKey :> <<WriteOp(a1, 1), ReadOp(a1), ReadOp(a2), Nop>>)
  @@ (writeKey :> <<WriteOp(a1, 0), WriteOp(a2, 1)>>)
=============================================================================
