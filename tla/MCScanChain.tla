----------------------------- MODULE MCScanChain -----------------------------
(* Instances of ScanChain for TLC: the chains of chips.py and one of three TAPs. *)
EXTENDS ScanChain, TLC

\* C6, C3, H2: one TAP.  C5, S3: two TAPs with the same IDCODE, the table selects
\* the second.  Three TAPs: no table entry, the middle one picked by the caller.
\* A caller who picks a TAP that is not there.
MCBoards == {
  [idcodes |-> << <<0, 1>> >>, override |-> NoOverride],
  [idcodes |-> << <<1, 1>>, <<1, 1>> >>, override |-> NoOverride],
  [idcodes |-> << <<1, 0>>, <<1, 1>>, <<0, 1>> >>, override |-> 1],
  [idcodes |-> << <<1, 1>> >>, override |-> 1]}
MCChainTable == <<1, 1>> :> 1
=============================================================================
