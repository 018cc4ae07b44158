------------------------------- MODULE DmiPort -------------------------------
(***************************************************************************)
(* What dmi_write and dmi_read promise the debugger built on them: a file  *)
(* of registers with one posted write.  A write that returns has been      *)
(* posted exactly once, a write that raises has not been posted; a read    *)
(* samples its register once, after the posted write has landed, and       *)
(* returns that sample.  Where operations can fail, a posted write may be  *)
(* lost: its call has returned by then.                                    *)
(***************************************************************************)
CONSTANTS
  Addr, Data,
  Idle,       \* no call in progress
  Unsampled,  \* a read that has not sampled its register
  CanFault    \* whether a posted write may be lost

VARIABLES
  regs,     \* register contents
  posted,   \* the write accepted and not yet landed: a set of at most one
  request,  \* the call in progress, or Idle
  taken,    \* the call in progress has been posted
  sample,   \* what the read in progress has sampled, or Unsampled
  answer    \* how the last call ended: <<"none">>, <<"raise">>, <<"ok">> or <<"ok", data>>

vars == <<regs, posted, request, taken, sample, answer>>

Init ==
  /\ regs \in [Addr -> Data]
  /\ posted = {}
  /\ request = Idle
  /\ taken = FALSE
  /\ sample = Unsampled
  /\ answer = <<"none">>

Invoke ==
  /\ request = Idle
  /\ request' \in [kind : {"write"}, addr : Addr, data : Data]
                  \cup [kind : {"read"}, addr : Addr]
  /\ taken' = FALSE
  /\ sample' = Unsampled
  /\ answer' = <<"none">>
  /\ UNCHANGED <<regs, posted>>

Land ==
  /\ posted # {}
  /\ \E w \in posted : regs' = [regs EXCEPT ![w.addr] = w.data]
  /\ posted' = {}
  /\ UNCHANGED <<request, taken, sample, answer>>

Lose ==
  /\ CanFault
  /\ posted # {} /\ posted' = {}
  /\ UNCHANGED <<regs, request, taken, sample, answer>>

\* The write is posted and, in the same step, its call returns.
ReturnWrite ==
  /\ request # Idle /\ request.kind = "write" /\ ~taken
  /\ posted = {}
  /\ posted' = {request}
  /\ taken' = TRUE
  /\ request' = Idle
  /\ answer' = <<"ok">>
  /\ UNCHANGED <<regs, sample>>

Sample ==
  /\ request # Idle /\ request.kind = "read" /\ sample = Unsampled
  /\ posted = {}
  /\ sample' = regs[request.addr]
  /\ UNCHANGED <<regs, posted, request, taken, answer>>

ReturnRead ==
  /\ request # Idle /\ request.kind = "read" /\ sample # Unsampled
  /\ request' = Idle
  /\ answer' = <<"ok", sample>>
  /\ sample' = Unsampled
  /\ UNCHANGED <<regs, posted, taken>>

Raise ==
  /\ request # Idle /\ ~taken
  /\ request' = Idle
  /\ answer' = <<"raise">>
  /\ sample' = Unsampled
  /\ UNCHANGED <<regs, posted, taken>>

Next == Invoke \/ Land \/ Lose \/ ReturnWrite \/ Sample \/ ReturnRead \/ Raise

Spec == Init /\ [][Next]_vars
=============================================================================
