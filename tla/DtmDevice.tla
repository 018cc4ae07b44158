------------------------------ MODULE DtmDevice ------------------------------
(***************************************************************************)
(* The RISC-V Debug Transport Module as the transport of espjtag uses it:  *)
(* a DMI register file behind one DR scan at a time.  The DTM is hardware, *)
(* so everything here is external: it is what transport.py relies on when  *)
(* it reads the op-status of a scan (0 done, 2 failed, 3 busy), clocks     *)
(* idle cycles after it and clears the sticky status with DTMCS.DMIRESET.  *)
(*                                                                         *)
(* One scan captures the status and the data of the PREVIOUS operation and *)
(* then, if that status is 0, starts the operation it carries.  A scan     *)
(* that meets an operation still in flight makes status 3 sticky and is    *)
(* otherwise ignored.                                                      *)
(***************************************************************************)
EXTENDS Naturals

CONSTANTS
  Addr,         \* DMI addresses
  Data,         \* register contents
  MaxLatency,   \* idle cycles after which an operation has completed
  CanFault      \* whether an operation may fail (op-status 2)

ASSUME DeviceAssumption ==
  /\ Addr # {}
  /\ Data # {}
  /\ MaxLatency \in Nat \ {0}
  /\ CanFault \in BOOLEAN

VARIABLES
  reg,      \* the debug module's registers
  busy,     \* the operation in flight, or NoOp
  left,     \* idle cycles after which it has surely completed
  sticky,   \* dmistat: 0, 2 (failed) or 3 (busy)
  out       \* data of the last completed read

device == <<reg, busy, left, sticky, out>>

NoOp == [kind |-> "none"]
Nop == [kind |-> "nop"]
ReadOp(a) == [kind |-> "read", addr |-> a]
WriteOp(a, d) == [kind |-> "write", addr |-> a, data |-> d]
Op == {ReadOp(a) : a \in Addr} \cup {WriteOp(a, d) : a \in Addr, d \in Data}

DeviceTypeOK ==
  /\ reg \in [Addr -> Data]
  /\ busy \in Op \cup {NoOp}
  /\ left \in Nat
  /\ sticky \in {0, 2, 3}
  /\ out \in Data

\* What a scan captures as the op-status.
Status ==
  IF sticky # 0 THEN sticky ELSE IF busy # NoOp THEN 3 ELSE 0

\* An operation that has had its idle cycles is complete before the next scan.
Due == busy # NoOp /\ left = 0

Accepted(op) == Status = 0 /\ op # Nop

\* The DR scan carrying op, followed by n idle cycles.
Scan(op, n) ==
  LET cycles == IF Accepted(op) THEN MaxLatency ELSE left
  IN  /\ ~Due
      /\ sticky' = Status
      /\ busy' = IF Accepted(op) THEN op ELSE busy
      /\ left' = IF cycles > n THEN cycles - n ELSE 0
      /\ UNCHANGED <<reg, out>>

\* DTMCS.DMIRESET clears the sticky status and leaves the operation alone.
DmiReset ==
  /\ sticky' = 0
  /\ UNCHANGED <<reg, busy, left, out>>

\* The operation in flight completes, at the latest when it is due: it is performed,
\* or it fails and changes nothing but the status.
Completes == busy # NoOp /\ busy' = NoOp /\ left' = 0

Perform ==
  /\ Completes
  /\ UNCHANGED sticky
  /\ reg' = IF busy.kind = "write" THEN [reg EXCEPT ![busy.addr] = busy.data] ELSE reg
  /\ out' = IF busy.kind = "read" THEN reg[busy.addr] ELSE out

Fault ==
  /\ Completes
  /\ CanFault
  /\ sticky' = IF sticky = 0 THEN 2 ELSE sticky
  /\ UNCHANGED <<reg, out>>

Settle == Perform \/ Fault

DeviceInit ==
  /\ reg \in [Addr -> Data]
  /\ busy = NoOp
  /\ left = 0
  /\ sticky = 0
  /\ out \in Data
=============================================================================
