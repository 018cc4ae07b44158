------------------------------ MODULE DtmProofs ------------------------------
(***************************************************************************)
(* Proofs about Dtm for every set of addresses and data, every latency,    *)
(* every number of retries and every list of batches.                      *)
(***************************************************************************)
EXTENDS Dtm, FiniteSetTheorems, TLAPS

WriteStages == {"write", "writeReset"}
ReadStages == {"fast", "fastCollect", "fastReset", "read", "collect", "readReset"}

\* A scan stage belongs to the call it is part of, and the retry loop has an
\* attempt left wherever it is about to count one.
StageInv ==
  /\ pc \in WriteStages => IsWrite
  /\ pc \in ReadStages => IsRead
  /\ pc = "batch" => call \in DOMAIN Batches
  /\ pc \in {"writeReset", "collect", "readReset"} => tries < Retries

TypeInv == TypeOK /\ StageInv

-----------------------------------------------------------------------------
\* The fields of an operation: an address, and a datum if it writes.
LEMMA OpFields ==
  ASSUME NEW op \in Op
  PROVE  /\ op.kind \in {"read", "write"}
         /\ op.addr \in Addr
         /\ op.kind = "write" => op.data \in Data
         /\ op # Nop /\ op # NoOp
<1>1. CASE \E a \in Addr : op = ReadOp(a)
  BY <1>1 DEF ReadOp, Nop, NoOp
<1>2. CASE \E a \in Addr, d \in Data : op = WriteOp(a, d)
  BY <1>2 DEF WriteOp, Nop, NoOp
<1> QED BY <1>1, <1>2 DEF Op

\* The status a scan captures is one of the three the code tells apart.
LEMMA StatusRange ==
  ASSUME DeviceTypeOK
  PROVE  Status \in {0, 2, 3} /\ (Status = 0 <=> sticky = 0 /\ busy = NoOp)
BY DEF DeviceTypeOK, Status

\* A scan keeps the device well formed.
LEMMA ScanType ==
  ASSUME DeviceTypeOK, NEW op \in Op \cup {Nop}, NEW n \in Nat, Scan(op, n)
  PROVE  DeviceTypeOK'
<1>1. MaxLatency \in Nat
  BY DeviceAssumption
<1>2. left' \in Nat
  BY <1>1 DEF Scan, DeviceTypeOK
<1>3. busy' \in Op \cup {NoOp}
  BY DEF Scan, DeviceTypeOK, Accepted
<1>4. sticky' \in {0, 2, 3}
  BY StatusRange DEF Scan
<1> QED BY <1>2, <1>3, <1>4 DEF Scan, DeviceTypeOK

\* So does the completion of an operation, failed or not.
LEMMA SettleType ==
  ASSUME DeviceTypeOK, Settle
  PROVE  DeviceTypeOK'
<1>1. busy \in Op
  BY DEF Settle, Perform, Fault, Completes, DeviceTypeOK
<1>2. reg' \in [Addr -> Data] /\ out' \in Data
  BY <1>1, OpFields DEF Settle, Perform, Fault, DeviceTypeOK
<1> QED BY <1>2 DEF Settle, Perform, Fault, Completes, DeviceTypeOK

\* The settle time added for an access is a count.
LEMMA SettlingNat ==
  ASSUME NEW n \in Nat
  PROVE  Settling(n) \in Nat
BY DEF Settling

-----------------------------------------------------------------------------
\* The first state has the types.
LEMMA InitType == Init => TypeInv
BY HostAssumption DEF Init, TypeInv, TypeOK, StageInv, DeviceInit, DeviceTypeOK,
   Stages, WriteStages, ReadStages, NotCached

\* What the actions of the host have in common.
LEMMA HostScanType ==
  ASSUME TypeInv, NEW op \in Op \cup {Nop}, NEW n \in Nat, HostScan(op, n)
  PROVE  DeviceTypeOK' /\ accepted' \in Nat
<1>1. DeviceTypeOK'
  BY ScanType DEF HostScan, TypeInv, TypeOK
<1>2. accepted' \in Nat
  BY DEF HostScan, TypeInv, TypeOK
<1> QED BY <1>1, <1>2

\* Every step keeps the types: one case per action.
LEMMA NextType == TypeInv /\ [Next]_vars => TypeInv'
<1> SUFFICES ASSUME TypeInv, [Next]_vars PROVE TypeInv'
  OBVIOUS
<1> USE DEF TypeInv, TypeOK
<1>a. Retries \in Nat /\ MaxCalls \in Nat /\ Retries >= 1
  BY HostAssumption
<1>b. ASSUME NEW c \in Op \cup DOMAIN Batches, NEW stage \in Stages, Begin(c, stage),
             stage \in WriteStages => c \in Op /\ c.kind = "write",
             stage \in ReadStages => c \in Op /\ c.kind = "read",
             stage = "batch" => c \in DOMAIN Batches,
             stage \notin {"writeReset", "collect", "readReset"}
      PROVE  TypeInv'
  <2>1. TypeOK'
    BY <1>a, <1>b DEF Begin, device, DeviceTypeOK
  <2>2. StageInv'
    BY <1>b DEF Begin, StageInv, IsWrite, IsRead
  <2> QED BY <2>1, <2>2
<1>1. ASSUME NEW a \in Addr, NEW d \in Data, StartWrite(a, d) PROVE TypeInv'
  <2>1. WriteOp(a, d) \in Op /\ WriteOp(a, d).kind = "write"
    BY DEF Op, WriteOp
  <2> QED BY <2>1, <1>1, <1>b DEF StartWrite, Stages, WriteStages, ReadStages
<1>2. ASSUME NEW a \in Addr, StartRead(a) PROVE TypeInv'
  <2>1. ReadOp(a) \in Op /\ ReadOp(a).kind = "read"
    BY DEF Op, ReadOp
  <2>2. CASE readCache[a] # NotCached
    BY <2>1, <2>2, <1>2, <1>b DEF StartRead, Stages, WriteStages, ReadStages
  <2>3. CASE readCache[a] = NotCached
    BY <2>1, <2>3, <1>2, <1>b DEF StartRead, Stages, WriteStages, ReadStages
  <2> QED BY <2>2, <2>3
<1>3. ASSUME NEW k \in DOMAIN Batches, StartBatch(k) PROVE TypeInv'
  BY <1>3, <1>b DEF StartBatch, Stages, WriteStages, ReadStages
<1>4. CASE WriteScan
  <2>1. call \in Op /\ IsWrite
    BY <1>4 DEF WriteScan, StageInv, WriteStages, IsWrite
  <2>2. DeviceTypeOK' /\ accepted' \in Nat
    BY <1>4, <2>1, HostScanType, SettlingNat DEF WriteScan
  <2>3. TypeOK'
    BY <1>4, <2>2, <1>a DEF WriteScan, HostScan, Return, Goto, Stages
  <2>4. StageInv'
    BY <1>4, <2>1 DEF WriteScan, HostScan, Return, Goto, StageInv, IsWrite, IsRead,
       WriteStages, ReadStages
  <2> QED BY <2>3, <2>4
<1>5. CASE WriteReset
  <2>1. TypeOK'
    BY <1>5, <1>a DEF WriteReset, Goto, Stages, StageInv, DmiReset, DeviceTypeOK
  <2>2. StageInv'
    BY <1>5 DEF WriteReset, Goto, StageInv, IsWrite, IsRead, WriteStages, ReadStages
  <2> QED BY <2>1, <2>2
<1>6. CASE FastIssue
  <2>1. IsRead /\ readCache[call.addr] \in Nat
    BY <1>6, OpFields DEF FastIssue, StageInv, ReadStages, IsRead
  <2>2. DeviceTypeOK' /\ accepted' \in Nat
    BY <1>6, <2>1, HostScanType DEF FastIssue, IsRead
  <2>3. TypeOK'
    BY <1>6, <2>2 DEF FastIssue, HostScan, Goto, Stages
  <2>4. StageInv'
    BY <1>6, <2>1 DEF FastIssue, HostScan, Goto, StageInv, IsWrite, IsRead,
       WriteStages, ReadStages
  <2> QED BY <2>3, <2>4
<1>7. CASE FastCollect
  <2>1. IsRead /\ readCache[call.addr] \in Nat
    BY <1>7, OpFields DEF FastCollect, StageInv, ReadStages, IsRead
  <2>2. DeviceTypeOK' /\ accepted' \in Nat
    BY <1>7, <2>1, HostScanType DEF FastCollect, IsRead
  <2>3. TypeOK'
    BY <1>7, <2>2 DEF FastCollect, HostScan, Goto, Return, Stages, DeviceTypeOK
  <2>4. StageInv'
    BY <1>7, <2>1 DEF FastCollect, HostScan, Goto, Return, StageInv, IsWrite, IsRead,
       WriteStages, ReadStages
  <2> QED BY <2>3, <2>4
<1>8. CASE ReadIssue
  <2>1. IsRead
    BY <1>8 DEF ReadIssue, StageInv, ReadStages, IsRead
  <2>2. DeviceTypeOK' /\ accepted' \in Nat
    BY <1>8, <2>1, HostScanType, SettlingNat DEF ReadIssue, IsRead
  <2>3. TypeOK'
    BY <1>8, <2>2 DEF ReadIssue, HostScan, Goto, Stages
  <2>4. StageInv'
    BY <1>8, <2>1, <1>a DEF ReadIssue, HostScan, Goto, StageInv, IsWrite, IsRead,
       WriteStages, ReadStages
  <2> QED BY <2>3, <2>4
<1>9. CASE ReadCollect
  <2>1. IsRead /\ call.addr \in Addr /\ tries < Retries
    BY <1>9, OpFields DEF ReadCollect, StageInv, ReadStages, IsRead
  <2>2. DeviceTypeOK' /\ accepted' \in Nat
    BY <1>9, <2>1, HostScanType, SettlingNat DEF ReadCollect
  <2>3. readCache' \in [Addr -> Nat]
    BY <1>9, SettlingNat DEF ReadCollect
  <2>4. TypeOK'
    BY <1>9, <2>1, <2>2, <2>3, <1>a DEF ReadCollect, HostScan, Goto, Return, Stages, DeviceTypeOK
  <2>5. StageInv'
    BY <1>9, <2>1 DEF ReadCollect, HostScan, Goto, Return, StageInv, IsWrite, IsRead,
       WriteStages, ReadStages
  <2> QED BY <2>4, <2>5
<1>10. CASE ReadReset
  <2>1. TypeOK'
    BY <1>10, <1>a DEF ReadReset, Goto, Stages, StageInv, DmiReset, DeviceTypeOK, NotCached
  <2>2. StageInv'
    BY <1>10 DEF ReadReset, Goto, StageInv, IsWrite, IsRead, WriteStages, ReadStages
  <2> QED BY <2>1, <2>2
<1>11. CASE GiveUp
  <2>1. TypeOK'
    BY <1>11 DEF GiveUp, Return, Stages, device, DeviceTypeOK
  <2>2. StageInv'
    BY <1>11 DEF GiveUp, Return, StageInv, WriteStages, ReadStages
  <2> QED BY <2>1, <2>2
<1>12. CASE BatchScan
  <2> DEFINE op == Batches[call][Len(got) + 1]
             n == IF batchCache[call] # NotCached THEN batchCache[call] ELSE Settling(idle)
  <2>1. call \in DOMAIN Batches
    BY <1>12 DEF BatchScan, StageInv
  <2>2. op \in Op \cup {Nop} /\ n \in Nat
    <3>1. Batches[call] \in Seq(Op \cup {Nop}) /\ Len(got) \in Nat
      BY <2>1, HostAssumption
    <3>2. Len(got) + 1 \in 1..Len(Batches[call])
      BY <1>12, <3>1 DEF BatchScan
    <3>3. n \in Nat
      BY <2>1, SettlingNat
    <3> QED BY <3>1, <3>2, <3>3
  <2>3. DeviceTypeOK' /\ accepted' \in Nat
    <3>1. HostScan(op, n)
      BY <1>12 DEF BatchScan
    <3> QED BY <2>2, <3>1, HostScanType
  <2>4. got' \in Seq(Data \X {0, 2, 3})
    <3>1. <<out, Status>> \in Data \X {0, 2, 3}
      BY StatusRange DEF DeviceTypeOK
    <3> QED BY <3>1, <1>12 DEF BatchScan
  <2>5. TypeOK'
    BY <1>12, <2>3, <2>4 DEF BatchScan, HostScan
  <2>6. StageInv'
    BY <1>12 DEF BatchScan, HostScan, StageInv, IsWrite, IsRead, WriteStages, ReadStages
  <2> QED BY <2>5, <2>6
<1>13. CASE BatchReturn
  <2>1. batchCache' \in [DOMAIN Batches -> Nat]
    BY <1>13, SettlingNat DEF BatchReturn
  <2>2. TypeOK'
    BY <1>13, <2>1 DEF BatchReturn, Return, Stages, device, DeviceTypeOK
  <2>3. StageInv'
    BY <1>13 DEF BatchReturn, Return, StageInv, WriteStages, ReadStages
  <2> QED BY <2>2, <2>3
<1>14. CASE Complete
  <2>1. DeviceTypeOK'
    BY <1>14, SettleType DEF Complete, Settle
  <2>2. TypeOK'
    BY <1>14, <2>1 DEF Complete, host
  <2>3. StageInv'
    BY <1>14 DEF Complete, host, StageInv, IsWrite, IsRead
  <2> QED BY <2>2, <2>3
<1>15. CASE UNCHANGED vars
  BY <1>15 DEF vars, host, device, StageInv, IsWrite, IsRead, DeviceTypeOK
<1> QED
  BY <1>1, <1>2, <1>3, <1>4, <1>5, <1>6, <1>7, <1>8, <1>9, <1>10, <1>11, <1>12,
     <1>13, <1>14, <1>15 DEF Next, Start, Host

\* Every reachable state of the DMI layer is well typed: the statuses, the retry
\* counter and the captures stay in range whatever the module answers.
THEOREM TypeCorrect == Spec => []TypeOK
<1>1. Spec => []TypeInv
  BY InitType, NextType, PTL DEF Spec
<1>2. TypeInv => TypeOK
  BY DEF TypeInv
<1> QED BY <1>1, <1>2, PTL
-----------------------------------------------------------------------------
(***************************************************************************)
(* A write is started once.  The inductive form says what the retry loop   *)
(* knows before its scan succeeds: nothing of this call was started yet.   *)
(***************************************************************************)
WriteInv ==
  /\ WriteStartedOnce
  /\ pc \in WriteStages => ret = "none"

\* No write has started at first.
LEMMA InitWrite == Init => WriteInv
BY DEF Init, WriteInv, WriteStartedOnce, IsWrite, NoOp, Op, ReadOp, WriteOp, WriteStages

\* Every step keeps a returned write one that started once, and no return before the last stage.
LEMMA NextWrite == TypeInv /\ WriteInv /\ [Next]_vars => WriteInv'
<1> SUFFICES ASSUME TypeInv, WriteInv, [Next]_vars PROVE WriteInv'
  OBVIOUS
<1> USE DEF WriteInv, WriteStartedOnce
<1>1. ASSUME NEW c, NEW stage, Begin(c, stage), stage # "ready" PROVE WriteInv'
  BY <1>1 DEF Begin, IsWrite
<1>2. CASE Start
  <2>1. ASSUME NEW a \in Addr, StartRead(a) PROVE WriteInv'
    <3>1. CASE readCache[a] # NotCached
      BY <3>1, <2>1, <1>1 DEF StartRead
    <3>2. CASE readCache[a] = NotCached
      BY <3>2, <2>1, <1>1 DEF StartRead
    <3> QED BY <3>1, <3>2
  <2> QED BY <1>2, <1>1, <2>1 DEF Start, StartWrite, StartBatch
<1>3. CASE WriteScan
  <2>1. IsWrite /\ accepted = 0 /\ call \in Op
    BY <1>3 DEF WriteScan, TypeInv, StageInv, WriteStages, IsWrite
  <2>2. accepted' = (IF Status = 0 THEN 1 ELSE 0) /\ call' = call
    BY <1>3, <2>1, OpFields DEF WriteScan, HostScan, Accepted
  <2>3. Status = 0 => pc' = "ready" /\ ret' = "ok"
    BY <1>3 DEF WriteScan, Return, Goto
  <2>4. Status # 0 => pc' \in {"write", "writeReset"} /\ ret' = ret
    BY <1>3 DEF WriteScan, Return, Goto
  <2> QED BY <2>1, <2>2, <2>3, <2>4, <1>3 DEF IsWrite, WriteStages, WriteScan
<1>4. CASE WriteReset
  BY <1>4 DEF WriteReset, Goto, IsWrite, WriteStages
<1>5. CASE FastIssue \/ FastCollect \/ ReadIssue \/ ReadCollect \/ ReadReset
  <2>1. IsRead /\ call' = call
    BY <1>5 DEF FastIssue, FastCollect, ReadIssue, ReadCollect, ReadReset, HostScan,
       TypeInv, StageInv, ReadStages
  <2>2. pc' \notin WriteStages
    BY <1>5 DEF FastIssue, FastCollect, ReadIssue, ReadCollect, ReadReset, Goto, Return,
       WriteStages
  <2> QED BY <2>1, <2>2 DEF IsRead, IsWrite
<1>6. CASE GiveUp
  BY <1>6 DEF GiveUp, Return, IsWrite, WriteStages
<1>7. CASE BatchScan \/ BatchReturn
  <2>1. call \notin Op /\ call' = call
    BY <1>7, HostAssumption DEF BatchScan, BatchReturn, HostScan, TypeInv, StageInv
  <2>2. pc' \notin WriteStages
    BY <1>7 DEF BatchScan, BatchReturn, Return, WriteStages
  <2> QED BY <2>1, <2>2 DEF IsWrite
<1>8. CASE Complete \/ UNCHANGED vars
  BY <1>8 DEF Complete, vars, host, IsWrite, WriteStages
<1> QED
  BY <1>2, <1>3, <1>4, <1>5, <1>6, <1>7, <1>8 DEF Next, Host

\* A dmi_write that returned reached the debug module exactly once, one that
\* raised did not reach it, for any number of retries and any latency.
THEOREM WriteOnce == Spec => []WriteStartedOnce
<1>1. Spec => [](TypeInv /\ WriteInv)
  BY InitType, NextType, InitWrite, NextWrite, PTL DEF Spec
<1>2. WriteInv => WriteStartedOnce
  BY DEF WriteInv
<1> QED BY <1>1, <1>2, PTL

-----------------------------------------------------------------------------
(***************************************************************************)
(* A read is fresh.  Between the READ scan and the NOP scan that collects  *)
(* it, a clean status can only mean that this call's READ was started: it  *)
(* is in flight, or its data is in the output register and nothing has     *)
(* been started since.                                                     *)
(***************************************************************************)
Collected == busy = call \/ (busy = NoOp /\ out = reg[call.addr])

FreshInv ==
  /\ ReadIsFresh
  /\ pc \in {"fastCollect", "collect"} /\ sticky = 0 => Collected
  /\ pc \in ReadStages => ret = "none"

\* Nothing has been returned at first.
LEMMA InitFresh == Init => FreshInv
BY DEF Init, FreshInv, ReadIsFresh, ReadStages

\* Every step keeps a returned read fresh, and a clean status one whose value was collected.
LEMMA NextFresh == TypeInv /\ FreshInv /\ [Next]_vars => FreshInv'
<1> SUFFICES ASSUME TypeInv, FreshInv, [Next]_vars PROVE FreshInv'
  OBVIOUS
<1> USE DEF FreshInv, ReadIsFresh, Collected
<1>1. ASSUME NEW c, NEW stage, Begin(c, stage),
             stage \in {"write", "fast", "read", "batch"}
      PROVE  FreshInv'
  BY <1>1 DEF Begin
<1>2. CASE Start
  <2>1. ASSUME NEW a \in Addr, StartRead(a) PROVE FreshInv'
    <3>1. CASE readCache[a] # NotCached
      BY <3>1, <2>1, <1>1 DEF StartRead
    <3>2. CASE readCache[a] = NotCached
      BY <3>2, <2>1, <1>1 DEF StartRead
    <3> QED BY <3>1, <3>2
  <2> QED BY <1>2, <1>1, <2>1 DEF Start, StartWrite, StartBatch
<1>3. CASE WriteScan \/ WriteReset
  <2>1. IsWrite /\ call' = call /\ call \in Op
    BY <1>3 DEF WriteScan, WriteReset, HostScan, TypeInv, StageInv, WriteStages, IsWrite
  <2>2. pc' \notin ReadStages
    BY <1>3 DEF WriteScan, WriteReset, Goto, Return, ReadStages
  <2> QED BY <2>1, <2>2 DEF IsWrite, IsRead, ReadStages
<1>4. CASE FastIssue \/ ReadIssue
  <2>1. call \in Op
    BY <1>4 DEF FastIssue, ReadIssue, TypeInv, StageInv, ReadStages, IsRead
  <2>2. sticky' = 0 => busy' = call'
    BY <1>4, <2>1, OpFields DEF FastIssue, ReadIssue, HostScan, Scan, Accepted
  <2> QED BY <1>4, <2>2 DEF FastIssue, ReadIssue, Goto, ReadStages
<1>5. CASE FastCollect \/ ReadCollect
  <2>1. reg' = reg /\ call' = call /\ busy' = busy /\ DeviceTypeOK
    BY <1>5 DEF FastCollect, ReadCollect, HostScan, Scan, Accepted, TypeInv, TypeOK
  <2>2. CASE Status = 0
    <3>1. busy = NoOp /\ out = reg[call.addr]
      BY <1>5, <2>1, <2>2, StatusRange, OpFields
         DEF FastCollect, ReadCollect, TypeInv, StageInv, ReadStages, IsRead
    <3> QED BY <1>5, <2>1, <2>2, <3>1
            DEF FastCollect, ReadCollect, Goto, Return, ReadStages
  <2>3. CASE Status # 0
    <3>1. pc' \in {"fastReset", "readReset", "read"} /\ ret' = ret
      BY <1>5, <2>3 DEF FastCollect, ReadCollect, Goto, Return
    <3> QED BY <1>5, <3>1 DEF FastCollect, ReadCollect, ReadStages
  <2> QED BY <2>2, <2>3
<1>6. CASE ReadReset
  BY <1>6 DEF ReadReset, Goto, ReadStages
<1>7. CASE GiveUp
  BY <1>7 DEF GiveUp, Return, ReadStages
<1>8. CASE BatchScan \/ BatchReturn
  <2>1. call \notin Op /\ call' = call
    BY <1>8, HostAssumption DEF BatchScan, BatchReturn, HostScan, TypeInv, StageInv
  <2>2. pc' \notin ReadStages
    BY <1>8 DEF BatchScan, BatchReturn, Return, ReadStages
  <2> QED BY <2>1, <2>2 DEF IsRead, ReadStages
<1>9. CASE Complete
  <2>1. UNCHANGED <<pc, call, ret, value>> /\ busy # NoOp /\ busy' = NoOp
    BY <1>9 DEF Complete, Perform, Fault, Completes, host
  <2>2. ASSUME pc \in {"fastCollect", "collect"}, sticky' = 0 PROVE Collected'
    <3>1. call \in Op /\ call.kind = "read"
      BY <2>2 DEF TypeInv, StageInv, ReadStages, IsRead
    <3>2. sticky = 0
      BY <1>9, <2>2 DEF Complete, Perform, Fault, TypeInv, TypeOK, DeviceTypeOK
    <3>3. busy = call
      BY <2>1, <2>2, <3>2
    <3> QED BY <1>9, <2>1, <2>2, <3>1, <3>2, <3>3 DEF Complete, Perform, Fault
  <2> QED BY <2>1, <2>2 DEF IsRead
<1>10. CASE UNCHANGED vars
  BY <1>10 DEF vars, host, device, IsRead
<1> QED
  BY <1>2, <1>3, <1>4, <1>5, <1>6, <1>7, <1>8, <1>9, <1>10 DEF Next, Host

\* dmi_read returns the content of its register at the moment it returns, never
\* the data of another access or of a scan the DTM ignored.
THEOREM ReadFresh == Spec => []ReadIsFresh
<1>1. Spec => [](TypeInv /\ FreshInv)
  BY InitType, NextType, InitFresh, NextFresh, PTL DEF Spec
<1>2. FreshInv => ReadIsFresh
  BY DEF FreshInv
<1> QED BY <1>1, <1>2, PTL
-----------------------------------------------------------------------------
(***************************************************************************)
(* dmi_write and dmi_read implement the register port, whether or not      *)
(* operations can fail.  A read that has sampled keeps its sample through  *)
(* every retry: nothing but its own READs is in flight any more, and they  *)
(* sample the same register.                                               *)
(***************************************************************************)
SampleInv ==
  /\ executed > 0 => accepted > 0
  /\ IsRead /\ accepted > 0 => busy \in {NoOp, call}
  /\ IsRead /\ executed > 0 => out = reg[call.addr]

\* Where a clean status is about to be collected, a READ is in flight or performed.
SampledInv ==
  pc \in {"fastCollect", "collect"} /\ sticky = 0 =>
    accepted > 0 /\ (busy = NoOp => executed > 0)

\* No request of the call has been sampled at first.
LEMMA InitSample == Init => SampleInv /\ SampledInv
BY DEF Init, SampleInv, SampledInv

\* What a scan of the read in progress does to the sample: nothing.
LEMMA ScanSample ==
  ASSUME TypeInv, SampleInv, IsRead, NEW op \in {call, Nop}, NEW n, HostScan(op, n)
  PROVE  SampleInv'
<1>1. call' = call /\ reg' = reg /\ out' = out /\ executed' = executed
  BY DEF HostScan, Scan
<1>2. accepted \in Nat /\ accepted' \in {accepted, accepted + 1}
  BY DEF HostScan, TypeInv, TypeOK
<1>3. CASE Accepted(op)
  BY <1>1, <1>2, <1>3 DEF SampleInv, HostScan, Scan, Accepted, IsRead
<1>4. CASE ~Accepted(op)
  BY <1>1, <1>2, <1>4 DEF SampleInv, HostScan, Scan, IsRead
<1> QED BY <1>3, <1>4

\* Every step keeps the sample of a read: what is busy is the read, and what it gave is in the
\* output.
LEMMA NextSample == TypeInv /\ SampleInv /\ [Next]_vars => SampleInv'
<1> SUFFICES ASSUME TypeInv, SampleInv, [Next]_vars PROVE SampleInv'
  OBVIOUS
<1>1. ASSUME NEW c, NEW stage, Begin(c, stage) PROVE SampleInv'
  BY <1>1 DEF Begin, SampleInv
<1>2. CASE Start
  BY <1>2, <1>1 DEF Start, StartWrite, StartRead, StartBatch
<1>3. CASE FastIssue \/ FastCollect \/ ReadIssue \/ ReadCollect
  <2>1. IsRead
    BY <1>3 DEF FastIssue, FastCollect, ReadIssue, ReadCollect, TypeInv, StageInv, ReadStages
  <2>2. \E op \in {call, Nop} : \E n : HostScan(op, n)
    BY <1>3 DEF FastIssue, FastCollect, ReadIssue, ReadCollect
  <2> QED BY <2>1, <2>2, ScanSample
<1>4. CASE WriteScan \/ BatchScan
  <2>1. call' = call /\ ~IsRead
    BY <1>4, HostAssumption DEF WriteScan, BatchScan, HostScan, TypeInv, StageInv,
       WriteStages, IsWrite, IsRead
  <2>2. executed' = executed /\ accepted \in Nat /\ accepted' \in {accepted, accepted + 1}
    BY <1>4 DEF WriteScan, BatchScan, HostScan, TypeInv, TypeOK
  <2> QED BY <2>1, <2>2 DEF SampleInv, IsRead
<1>5. CASE WriteReset \/ ReadReset \/ GiveUp \/ BatchReturn
  BY <1>5 DEF WriteReset, ReadReset, GiveUp, BatchReturn, DmiReset, device, SampleInv, IsRead
<1>6. CASE Complete
  <2>1. UNCHANGED <<call, accepted>> /\ busy # NoOp /\ busy' = NoOp
    BY <1>6 DEF Complete, Perform, Fault, Completes, host
  <2>2. CASE IsRead /\ accepted > 0
    <3>1. busy = call /\ call.kind = "read"
      BY <2>1, <2>2 DEF SampleInv, IsRead
    <3> QED BY <1>6, <2>1, <2>2, <3>1 DEF Complete, Perform, Fault, SampleInv, IsRead
  <2>3. CASE ~IsRead \/ ~(accepted > 0)
    BY <1>6, <2>1, <2>3 DEF Complete, SampleInv, IsRead, TypeInv, TypeOK
  <2> QED BY <2>2, <2>3
<1>7. CASE UNCHANGED vars
  BY <1>7 DEF vars, host, device, SampleInv, IsRead
<1> QED
  BY <1>2, <1>3, <1>4, <1>5, <1>6, <1>7 DEF Next, Host

\* Every step keeps a clean status one of a read in flight or performed.
LEMMA NextSampled == TypeInv /\ SampledInv /\ [Next]_vars => SampledInv'
<1> SUFFICES ASSUME TypeInv, SampledInv, [Next]_vars,
                    pc' \in {"fastCollect", "collect"}, sticky' = 0
             PROVE  accepted' > 0 /\ (busy' = NoOp => executed' > 0)
  BY DEF SampledInv
<1>1. CASE FastIssue \/ ReadIssue
  <2>1. call \in Op
    BY <1>1 DEF FastIssue, ReadIssue, TypeInv, StageInv, ReadStages, IsRead
  <2>2. Accepted(call)
    BY <1>1, <2>1, OpFields DEF FastIssue, ReadIssue, HostScan, Scan, Accepted
  <2> QED BY <1>1, <2>1, <2>2, OpFields DEF FastIssue, ReadIssue, HostScan, Scan, TypeInv, TypeOK
<1>2. CASE Complete
  <2>1. UNCHANGED <<pc, accepted>>
    BY <1>2 DEF Complete, host
  <2>2. Perform /\ executed' = executed + 1
    <3>1. ASSUME Fault PROVE sticky' # 0
      BY <3>1 DEF Fault
    <3>2. CASE Perform /\ executed' = IF accepted > 0 THEN executed + 1 ELSE executed
      BY <2>1, <3>2 DEF Perform, SampledInv
    <3> QED BY <3>1, <3>2, <1>2 DEF Complete
  <2> QED BY <2>1, <2>2 DEF Perform, SampledInv, TypeInv, TypeOK
<1>3. CASE UNCHANGED vars
  BY <1>3 DEF vars, host, device, SampledInv
<1>4. ~Start
  BY DEF Start, StartWrite, StartRead, StartBatch, Begin
<1>5. CASE Host /\ ~FastIssue /\ ~ReadIssue
  BY <1>5 DEF Host, WriteScan, WriteReset, FastCollect, ReadCollect, ReadReset, GiveUp,
     BatchScan, BatchReturn, Goto, Return
<1> QED BY <1>1, <1>2, <1>3, <1>4, <1>5 DEF Next, Host

\* The initial states are initial states of the port.
LEMMA InitPort == Init => Port!Init
BY DEF Init, DeviceInit, Port!Init, IsRead, IsWrite, NoOp, Op, ReadOp, WriteOp

\* Every step of a call, and of the module, is a step of the port or none.
LEMMA NextPort ==
  ASSUME DOMAIN Batches = {}, TypeInv, WriteInv, FreshInv, SampleInv, SampledInv, [Next]_vars
  PROVE  [Port!Next]_(Port!vars)
<1> USE DEF Port!Next, Port!vars
<1>1. call \in Op \cup {NoOp} /\ pc # "batch" /\ (pc # "ready" => call \in Op)
  BY DEF TypeInv, TypeOK, StageInv, IsRead, IsWrite, Stages, WriteStages, ReadStages
<1>2. ASSUME NEW c \in Op, NEW stage \in Stages \ {"ready"}, Begin(c, stage)
      PROVE  Port!Invoke
  <2>1. c \in [kind : {"write"}, addr : Addr, data : Data] \cup [kind : {"read"}, addr : Addr]
    BY DEF Op, ReadOp, WriteOp
  <2> QED BY <1>2, <2>1 DEF Begin, Port!Invoke, device
<1>3. CASE Start
  <2>1. \A a \in Addr, d \in Data : WriteOp(a, d) \in Op /\ ReadOp(a) \in Op
    BY DEF Op
  <2>2. ASSUME NEW a \in Addr, NEW d \in Data, StartWrite(a, d) PROVE Port!Invoke
    BY <2>1, <2>2, <1>2 DEF StartWrite, Stages
  <2>3. ASSUME NEW a \in Addr, StartRead(a) PROVE Port!Invoke
    <3>1. ReadOp(a) \in Op
      BY DEF Op
    <3> QED BY <3>1, <2>3, <1>2 DEF StartRead, Stages
  <2> QED BY <1>3, <2>2, <2>3 DEF Start
<1>4. CASE WriteScan
  <2>1. IsWrite /\ accepted = 0 /\ ret = "none" /\ call.kind = "write" /\ call \in Op /\ ~IsRead
    BY <1>4 DEF WriteScan, TypeInv, StageInv, WriteInv, WriteStartedOnce, WriteStages, IsWrite,
       IsRead
  <2>2. UNCHANGED <<reg, out, call, executed>> /\ pc = "write"
    BY <1>4 DEF WriteScan, HostScan, Scan
  <2>3. CASE Status = 0
    <3>1. busy = NoOp /\ Accepted(call)
      BY <2>1, <2>3, OpFields DEF Status, Accepted, TypeInv, TypeOK, DeviceTypeOK
    <3>2. busy' = call /\ accepted' = 1 /\ pc' = "ready" /\ ret' = "ok" /\ call # NoOp
      BY <1>4, <2>1, <2>3, <3>1, OpFields DEF WriteScan, HostScan, Scan, Return
    <3> QED BY <2>1, <2>2, <3>1, <3>2 DEF Port!ReturnWrite, IsWrite, IsRead
  <2>4. CASE Status # 0
    <3>1. busy' = busy /\ accepted' = 0 /\ pc' # "ready" /\ ret' = ret
      BY <1>4, <2>1, <2>4 DEF WriteScan, HostScan, Scan, Accepted, Goto
    <3> QED BY <2>1, <2>2, <3>1 DEF IsWrite, IsRead
  <2> QED BY <2>3, <2>4
<1>5. CASE FastIssue \/ ReadIssue
  <2>1. IsRead /\ call.kind = "read" /\ pc # "ready" /\ ret = "none" /\ ~IsWrite
    BY <1>5 DEF FastIssue, ReadIssue, TypeInv, StageInv, FreshInv, ReadStages, IsRead, IsWrite
  <2>2. UNCHANGED <<reg, out, call, executed, ret>> /\ pc' # "ready"
    BY <1>5 DEF FastIssue, ReadIssue, HostScan, Scan, Goto
  <2>3. busy' \in {busy, call} /\ (busy' # busy => busy = NoOp)
    BY <1>5 DEF FastIssue, ReadIssue, HostScan, Scan, Accepted, Status, TypeInv, TypeOK,
       DeviceTypeOK
  <2> QED BY <2>1, <2>2, <2>3 DEF IsWrite, IsRead, NoOp
<1>6. CASE FastCollect \/ ReadCollect
  <2>1. IsRead /\ call.kind = "read" /\ call # NoOp /\ pc # "ready" /\ ret = "none" /\ ~IsWrite
    BY <1>6, OpFields DEF FastCollect, ReadCollect, TypeInv, StageInv, FreshInv, ReadStages,
       IsRead, IsWrite
  <2>2. UNCHANGED <<reg, out, call, executed, busy>>
    BY <1>6 DEF FastCollect, ReadCollect, HostScan, Scan, Accepted
  <2>3. CASE Status = 0
    <3>1. pc' = "ready" /\ ret' = "ok" /\ value' = out
      BY <1>6, <2>3 DEF FastCollect, ReadCollect, Return
    <3>2. executed > 0
      <4>1. sticky = 0 /\ busy = NoOp
        BY <2>3 DEF Status
      <4> QED BY <4>1, <1>6 DEF FastCollect, ReadCollect, SampledInv
    <3>3. out # Unsampled
      BY UnsampledAssumption DEF TypeInv, TypeOK, DeviceTypeOK
    <3> QED BY <2>1, <2>2, <3>1, <3>2, <3>3 DEF Port!ReturnRead, IsRead, IsWrite
  <2>4. CASE Status # 0
    <3>1. pc' # "ready" /\ ret' = ret
      BY <1>6, <2>4 DEF FastCollect, ReadCollect, Goto
    <3> QED BY <2>1, <2>2, <3>1 DEF IsRead, IsWrite
  <2> QED BY <2>3, <2>4
<1>7. CASE WriteReset \/ ReadReset
  BY <1>7 DEF WriteReset, ReadReset, DmiReset, Goto, IsRead, IsWrite
<1>8. CASE GiveUp
  <2>1. UNCHANGED <<device, call, accepted, executed>> /\ pc' = "ready" /\ ret' = "raise"
        /\ pc # "ready" /\ call # NoOp
    BY <1>8, <1>1, OpFields DEF GiveUp, Return
  <2>2. ~(IsWrite /\ accepted > 0)
    BY <1>8 DEF GiveUp, WriteInv, WriteStartedOnce
  <2> QED BY <2>1, <2>2 DEF Port!Raise, device, IsRead, IsWrite
<1>9. CASE BatchScan \/ BatchReturn
  BY <1>9, <1>1 DEF BatchScan, BatchReturn
<1>10. CASE Complete
  <2>1. UNCHANGED <<pc, call, ret, value, accepted>> /\ busy # NoOp /\ busy' = NoOp
    BY <1>10 DEF Complete, Perform, Fault, Completes, host
  <2>2. CASE busy.kind = "write"
    <3>1. ~(IsRead /\ accepted > 0)
      BY <2>1, <2>2 DEF SampleInv, IsRead
    <3>2. executed' > 0 /\ IsRead => FALSE
      BY <3>1, <1>10 DEF Complete, SampleInv, TypeInv, TypeOK
    <3>3. CASE Perform
      BY <2>1, <2>2, <3>1, <3>2, <3>3 DEF Perform, Port!Land, SampleInv, IsRead, IsWrite
    <3>4. CASE Fault
      BY <2>1, <2>2, <3>1, <3>2, <3>4 DEF Fault, Port!Lose, SampleInv, IsRead, IsWrite
    <3> QED BY <3>3, <3>4, <1>10 DEF Complete
  <2>3. CASE busy.kind # "write"
    <3>1. busy.kind = "read" /\ reg' = reg
      BY <1>10, <2>1, <2>3, OpFields DEF Complete, Perform, Fault, TypeInv, TypeOK, DeviceTypeOK
    <3>2. CASE Fault /\ UNCHANGED executed
      BY <2>1, <2>3, <3>1, <3>2 DEF Fault, IsRead, IsWrite
    <3>3. CASE Perform /\ executed' = IF accepted > 0 THEN executed + 1 ELSE executed
      <4>1. accepted \in Nat /\ executed \in Nat /\ out' = reg[busy.addr]
        BY <3>1, <3>3 DEF Perform, TypeInv, TypeOK
      <4>2. CASE IsRead /\ accepted > 0 /\ pc # "ready"
        <5>1. busy = call /\ call # NoOp /\ call.kind = "read"
          BY <2>1, <4>2 DEF SampleInv, IsRead
        <5>2. CASE executed = 0
          BY <2>1, <2>3, <3>1, <3>3, <4>1, <4>2, <5>1, <5>2 DEF Port!Sample, IsRead, IsWrite
        <5>3. CASE executed > 0
          BY <2>1, <2>3, <3>1, <3>3, <4>1, <4>2, <5>1, <5>3 DEF SampleInv, IsRead, IsWrite
        <5> QED BY <4>1, <5>2, <5>3
      <4>3. CASE ~IsRead \/ accepted = 0 \/ pc = "ready"
        BY <2>1, <2>3, <3>1, <3>3, <4>1, <4>3 DEF SampleInv, IsRead, IsWrite
      <4> QED BY <4>1, <4>2, <4>3
    <3> QED BY <3>2, <3>3, <1>10 DEF Complete
  <2> QED BY <2>2, <2>3
<1>11. CASE UNCHANGED vars
  BY <1>11 DEF vars, host, device, IsRead, IsWrite
<1> QED
  BY <1>3, <1>4, <1>5, <1>6, <1>7, <1>8, <1>9, <1>10, <1>11 DEF Next, Host

\* Every behaviour of dmi_write and dmi_read, with every retry, DMIRESET and cached
\* stream, is a behaviour of a register port with one posted write: for any latency
\* and any number of retries, and also when operations fail and calls raise.
THEOREM PortImplemented ==
  ASSUME DOMAIN Batches = {}
  PROVE  Spec => ImplementsPort
<1>1. Spec => [](TypeInv /\ WriteInv /\ FreshInv /\ SampleInv /\ SampledInv)
  BY InitType, NextType, InitWrite, NextWrite, InitFresh, NextFresh, InitSample, NextSample,
     NextSampled, PTL DEF Spec
<1>2. TypeInv /\ WriteInv /\ FreshInv /\ SampleInv /\ SampledInv /\ [Next]_vars
        => [Port!Next]_(Port!vars)
  BY NextPort
<1> QED BY <1>1, <1>2, InitPort, PTL DEF Spec, ImplementsPort, Port!Spec

-----------------------------------------------------------------------------
(***************************************************************************)
(* A batch whose captures are clean did what was asked.  A scan that the   *)
(* DTM ignored leaves its status sticky, so the first capture, which       *)
(* nobody looks at, was clean as well if the second one is.                *)
(***************************************************************************)
Requests == Batches[call]
AllClean == \A i \in 1..Len(got) : got[i][2] = 0
NoWriteIn(i, n) == \A j \in i..n : Requests[j].kind # "write"

\* The requests sent so far, none of which the DTM ignored, were all started.
CountInv == AllClean => accepted = Cardinality({i \in 1..Len(got) : Requests[i] # Nop})

\* The last of them is in flight, or done, with its data in the output register.
LastInv ==
  AllClean /\ Len(got) > 0 =>
    LET last == Requests[Len(got)] IN
    /\ busy \in {NoOp, last}
    /\ last.kind = "read" /\ sticky = 0 => busy = last \/ out = reg[last.addr]

\* What was captured of the reads before it is current, unless a write followed.
DataInv ==
  AllClean =>
    \A i \in 2..Len(got) :
      /\ Requests[i - 1].kind = "read"
      /\ NoWriteIn(i, Len(got))
      => got[i][1] = reg[Requests[i - 1].addr]

BatchInv ==
  pc = "batch" =>
    /\ Len(got) <= Len(Requests)
    /\ Clean(got) => AllClean \/ (Len(got) = 1 /\ sticky # 0)
    /\ CountInv /\ LastInv /\ DataInv

\* A batch is a sequence of operations and NOPs.
LEMMA RequestsType ==
  ASSUME TypeInv, pc = "batch"
  PROVE  Requests \in Seq(Op \cup {Nop}) /\ call \in DOMAIN Batches
BY HostAssumption DEF TypeInv, StageInv, Requests

\* One more request, counted if it is not a NOP.
LEMMA CountNext ==
  ASSUME NEW reqs, NEW n \in Nat
  PROVE  Cardinality({i \in 1..(n + 1) : reqs[i] # Nop})
           = Cardinality({i \in 1..n : reqs[i] # Nop}) + (IF reqs[n + 1] # Nop THEN 1 ELSE 0)
<1> DEFINE A == {i \in 1..n : reqs[i] # Nop}
<1>1. IsFiniteSet(1..n) /\ A \in SUBSET (1..n)
  BY FS_Interval
<1>2. IsFiniteSet(A) /\ n + 1 \notin A
  BY <1>1, FS_Subset
<1>3. {i \in 1..(n + 1) : reqs[i] # Nop} = IF reqs[n + 1] # Nop THEN A \cup {n + 1} ELSE A
  OBVIOUS
<1> HIDE DEF A
<1>4. Cardinality(A) \in Nat
  BY <1>2, FS_CardinalityType
<1>5. Cardinality(A \cup {n + 1}) = Cardinality(A) + 1
  BY <1>2, FS_AddElement
<1>6. Cardinality({i \in 1..(n + 1) : reqs[i] # Nop})
        = Cardinality(A) + (IF reqs[n + 1] # Nop THEN 1 ELSE 0)
  BY <1>3, <1>4, <1>5
<1> QED BY <1>6 DEF A

\* No batch runs at first.
LEMMA InitBatch == Init => BatchInv
BY DEF Init, BatchInv

\* A batch begins with nothing captured and nothing counted.
LEMMA BeginBatch ==
  ASSUME TypeInv', NEW c, NEW stage, Begin(c, stage)
  PROVE  BatchInv'
<1> SUFFICES ASSUME pc' = "batch" PROVE BatchInv'
  BY DEF BatchInv
<1>1. got' = <<>> /\ Len(got') = 0 /\ accepted' = 0
  BY DEF Begin
<1>2. Requests' \in Seq(Op \cup {Nop})
  BY RequestsType, HostAssumption DEF TypeInv, StageInv, Requests
<1>3. Cardinality({i \in 1..0 : Requests'[i] # Nop}) = 0
  <2>1. {i \in 1..0 : Requests'[i] # Nop} = {}
    OBVIOUS
  <2> QED BY <2>1, FS_EmptySet
<1> QED
  BY <1>1, <1>2, <1>3 DEF BatchInv, AllClean, CountInv, LastInv, DataInv

\* A scan of the batch.
LEMMA ScanBatch ==
  ASSUME TypeInv, BatchInv, BatchScan
  PROVE  BatchInv'
<1> DEFINE n == Len(got)
           next == Requests[n + 1]
<1>1. pc = "batch" /\ Requests \in Seq(Op \cup {Nop}) /\ got \in Seq(Data \X {0, 2, 3})
  BY RequestsType DEF BatchScan, TypeInv, TypeOK
<1>2. n \in Nat /\ n < Len(Requests) /\ n + 1 \in 1..Len(Requests) /\ next \in Op \cup {Nop}
  BY <1>1 DEF BatchScan, Requests
<1>3. /\ Requests' = Requests /\ reg' = reg /\ out' = out
      /\ sticky' = Status
      /\ busy' = IF Accepted(next) THEN next ELSE busy
      /\ accepted' = IF Accepted(next) THEN accepted + 1 ELSE accepted
  BY DEF BatchScan, HostScan, Scan, Requests
<1>4. /\ Len(got') = n + 1
      /\ got'[n + 1] = <<out, Status>>
      /\ \A i \in 1..n : got'[i] = got[i]
  BY <1>1 DEF BatchScan
<1>5. Status \in {0, 2, 3} /\ (Status = 0 <=> sticky = 0 /\ busy = NoOp)
  BY StatusRange DEF TypeInv, TypeOK
<1>6. AllClean' <=> AllClean /\ Status = 0
  BY <1>2, <1>4 DEF AllClean
<1>7. Clean(got)' => AllClean' \/ (Len(got') = 1 /\ sticky' # 0)
  <2> SUFFICES ASSUME Clean(got)' PROVE AllClean' \/ (Len(got') = 1 /\ sticky' # 0)
    OBVIOUS
  <2>1. CASE n = 0
    BY <2>1, <1>3, <1>4, <1>5 DEF AllClean
  <2>2. CASE n > 0
    <3>1. Status = 0 /\ Clean(got)
      BY <2>2, <1>2, <1>4 DEF Clean
    <3>2. AllClean
      BY <3>1, <1>1, <1>5 DEF BatchInv
    <3> QED BY <3>1, <3>2, <1>6
  <2> QED BY <2>1, <2>2, <1>2
<1>8. CASE ~AllClean'
  BY <1>1, <1>2, <1>3, <1>4, <1>7, <1>8 DEF BatchInv, CountInv, LastInv, DataInv
<1>9. CASE AllClean'
  <2>1. AllClean /\ Status = 0 /\ sticky = 0 /\ busy = NoOp
    BY <1>5, <1>6, <1>9
  <2>2. CountInv /\ LastInv /\ DataInv /\ accepted \in Nat
    BY <1>1 DEF BatchInv, TypeInv, TypeOK
  <2>3. Accepted(next) <=> next # Nop
    BY <2>1 DEF Accepted
  <2>4. CountInv'
    <3>1. accepted = Cardinality({i \in 1..n : Requests[i] # Nop})
      BY <2>1, <2>2 DEF CountInv
    <3>2. accepted' = accepted + (IF next # Nop THEN 1 ELSE 0)
      BY <1>3, <2>2, <2>3
    <3>3. accepted' = Cardinality({i \in 1..(n + 1) : Requests[i] # Nop})
      BY <3>1, <3>2, <1>2, CountNext
    <3> QED BY <3>3, <1>3, <1>4 DEF CountInv
  <2>5. LastInv'
    BY <1>2, <1>3, <1>4, <2>1, <2>3 DEF LastInv, Nop
  <2>6. DataInv'
    <3> SUFFICES ASSUME NEW i \in 2..(n + 1), Requests[i - 1].kind = "read",
                        \A j \in i..(n + 1) : Requests[j].kind # "write"
                 PROVE  got'[i][1] = reg[Requests[i - 1].addr]
      BY <1>3, <1>4 DEF DataInv, NoWriteIn
    <3>1. CASE i = n + 1
      <4>1. Requests[n].kind = "read" /\ n > 0
        BY <3>1, <1>2
      <4>2. Requests[n] # NoOp
        BY <4>1 DEF NoOp
      <4>3. out = reg[Requests[n].addr]
        BY <2>1, <2>2, <4>1, <4>2 DEF LastInv
      <4> QED BY <3>1, <4>3, <1>2, <1>4
    <3>2. CASE i \in 2..n
      <4>1. \A j \in i..n : Requests[j].kind # "write"
        BY <3>2, <1>2
      <4> QED BY <3>2, <4>1, <1>2, <1>4, <2>1, <2>2 DEF DataInv, NoWriteIn
    <3> QED BY <3>1, <3>2, <1>2
  <2> QED BY <1>1, <1>2, <1>3, <1>4, <1>7, <2>4, <2>5, <2>6 DEF BatchInv
<1> QED BY <1>8, <1>9

\* The module performs the last request, or fails it and makes that sticky.
LEMMA CompleteBatch ==
  ASSUME TypeInv, BatchInv, Complete
  PROVE  BatchInv'
<1> SUFFICES ASSUME pc = "batch" PROVE BatchInv'
  BY DEF BatchInv, Complete, host
<1>1. UNCHANGED <<pc, call, got, accepted, Requests>> /\ busy # NoOp /\ busy' = NoOp
  BY DEF Complete, Perform, Fault, Completes, host, Requests
<1>2. (AllClean' <=> AllClean) /\ (Clean(got)' <=> Clean(got))
  BY <1>1 DEF AllClean, Clean
<1>3. sticky # 0 => sticky' # 0
  BY DEF Complete, Perform, Fault
<1>4. CountInv'
  BY <1>1, <1>2 DEF BatchInv, CountInv
<1>5. ASSUME AllClean, Len(got) > 0 PROVE busy = Requests[Len(got)]
  BY <1>1, <1>5 DEF BatchInv, LastInv
<1>6. LastInv'
  <2>1. CASE Perform
    BY <1>1, <1>2, <1>5, <2>1 DEF LastInv, Perform
  <2>2. CASE Fault
    <3>1. sticky' # 0
      BY <2>2 DEF Fault
    <3> QED BY <1>1, <1>2, <3>1 DEF LastInv
  <2> QED BY <2>1, <2>2 DEF Complete
<1>7. DataInv'
  <2> SUFFICES ASSUME AllClean, NEW i \in 2..Len(got), Requests[i - 1].kind = "read",
                      NoWriteIn(i, Len(got))
               PROVE  got[i][1] = reg'[Requests[i - 1].addr]
    BY <1>1, <1>2 DEF DataInv, NoWriteIn
  <2>1. Len(got) \in Nat
    BY DEF TypeInv, TypeOK
  <2>2. busy.kind # "write"
    BY <1>5, <2>1 DEF NoWriteIn
  <2>3. reg' = reg
    BY <2>2 DEF Complete, Perform, Fault
  <2> QED BY <2>3 DEF BatchInv, DataInv
<1> QED BY <1>1, <1>2, <1>3, <1>4, <1>6, <1>7 DEF BatchInv

\* Every step of a batch keeps its results those of its requests as long as they are clean.
LEMMA NextBatch == TypeInv /\ TypeInv' /\ BatchInv /\ [Next]_vars => BatchInv'
<1> SUFFICES ASSUME TypeInv, TypeInv', BatchInv, [Next]_vars PROVE BatchInv'
  OBVIOUS
<1>1. CASE Start
  BY <1>1, BeginBatch DEF Start, StartWrite, StartRead, StartBatch
<1>2. CASE BatchScan
  BY <1>2, ScanBatch
<1>3. CASE Complete
  BY <1>3, CompleteBatch
<1>4. CASE Host /\ ~BatchScan
  <2>1. pc' # "batch"
    BY <1>4 DEF Host, WriteScan, WriteReset, FastIssue, FastCollect, ReadIssue, ReadCollect,
       ReadReset, GiveUp, BatchReturn, Goto, Return
  <2> QED BY <2>1 DEF BatchInv
<1>5. CASE UNCHANGED vars
  BY <1>5 DEF vars, host, device, BatchInv, AllClean, CountInv, LastInv, DataInv, Clean,
     Requests, NoWriteIn
<1> QED BY <1>1, <1>2, <1>3, <1>4, <1>5 DEF Next

\* A batch whose captures from the second on are clean had every request started, and
\* each capture behind a READ is what that READ's register holds: for every list of
\* requests, every cached idle count and every latency.
THEOREM BatchExact == Spec => []CleanBatchIsExact
<1>1. TypeInv /\ [Next]_vars => TypeInv'
  BY NextType
<1>2. Spec => [](TypeInv /\ BatchInv)
  BY InitType, InitBatch, <1>1, NextBatch, PTL DEF Spec
<1>3. \A m \in Nat : m > 1 => m # 1
  OBVIOUS
<1>4. TypeInv /\ BatchInv => CleanBatchIsExact
  <2> SUFFICES ASSUME TypeInv, BatchInv, pc = "batch", Len(got) = Len(Batches[call]),
                      Len(got) > 1, Clean(got)
               PROVE  /\ accepted = Cardinality({i \in DOMAIN Requests : Requests[i] # Nop})
                      /\ \A i \in 2..Len(Requests) :
                           /\ Requests[i - 1].kind = "read"
                           /\ \A j \in i..Len(Requests) : Requests[j].kind # "write"
                           => got[i][1] = reg[Requests[i - 1].addr]
    BY DEF CleanBatchIsExact, Requests
  <2>1. DOMAIN Requests = 1..Len(got) /\ Len(Requests) = Len(got)
    BY RequestsType DEF Requests
  <2>2. AllClean
    <3>1. Len(got) \in Nat
      BY DEF TypeInv, TypeOK
    <3>2. Len(got) # 1
      BY <1>3, <3>1, Zenon
    <3> QED BY <3>2 DEF BatchInv
  <2> QED BY <2>1, <2>2 DEF BatchInv, CountInv, DataInv, NoWriteIn
<1> QED BY <1>2, <1>4, PTL

(***************************************************************************)
(* No call gives up.  With the idle hint the last attempt has reached, the *)
(* module is done within one scan; each attempt before it leaves the       *)
(* module at most as many idle cycles short as there are attempts left.    *)
(***************************************************************************)
\* No operation fails, and the latency is one the last attempt waits for.
Patient == CanFault = FALSE /\ MaxLatency <= Settling(IdleInit + Retries - 1)

CachesWait ==
  /\ \A a \in Addr : readCache[a] # NotCached => readCache[a] >= Settling(IdleInit)
  /\ \A k \in DOMAIN Batches : batchCache[k] # NotCached => batchCache[k] >= Settling(IdleInit)
  /\ pc \in {"fast", "fastCollect"} => readCache[call.addr] # NotCached

PatienceInv ==
  /\ sticky # 2 /\ ret # "raise"
  /\ idle >= IdleInit + tries
  /\ left <= Retries - 1
  /\ sticky # 0 => Retries > 1
  /\ CachesWait
  /\ pc \in {"fast", "fastCollect", "fastReset"} => tries = 0
  /\ pc \in {"write", "read", "collect"} =>
       /\ tries + left < Retries
       /\ sticky # 0 => tries + 1 < Retries
  /\ pc \in {"writeReset", "readReset"} => tries + left + 1 < Retries

\* The counts the argument adds and compares.
LEMMA Counts ==
  ASSUME TypeInv
  PROVE  /\ Retries \in Nat /\ Retries > 0 /\ IdleInit \in Nat /\ MaxLatency \in Nat
         /\ left \in Nat /\ tries \in Nat /\ tries <= Retries /\ idle \in Nat
         /\ Settling(idle) \in Nat /\ Settling(idle) >= 1 /\ Settling(idle) >= idle
         /\ Settling(IdleInit) \in Nat
         /\ \A n \in Nat : n >= IdleInit => Settling(n) >= Settling(IdleInit)
BY HostAssumption, DeviceAssumption DEF TypeInv, TypeOK, DeviceTypeOK, Settling

\* At first nothing is in flight and nothing is cached.
LEMMA InitPatience == Init => PatienceInv
BY HostAssumption DEF Init, DeviceInit, PatienceInv, CachesWait

\* A scan with at least the settle time of the first idle hint leaves at most one
\* cycle for each attempt but the last; what was still in flight loses a cycle.
LEMMA ScanWaits ==
  ASSUME Patient, TypeInv, PatienceInv, NEW op, NEW n \in Nat, n >= Settling(IdleInit), HostScan(op, n)
  PROVE  /\ sticky' = Status /\ Status \in {0, 3}
         /\ left' \in Nat /\ left' <= Retries - 1
         /\ Status = 3 => /\ sticky = 0 => left > 0
                          /\ left' = 0 \/ left' < left
                          /\ Retries > 1
         /\ left' = 0 \/ left' = left - n \/ (Status = 0 /\ left' = MaxLatency - n)
<1>1. /\ sticky' = Status /\ (sticky = 0 /\ busy # NoOp => left > 0)
      /\ left' = LET cycles == IF Accepted(op) THEN MaxLatency ELSE left
                 IN  IF cycles > n THEN cycles - n ELSE 0
  BY Counts DEF HostScan, Scan, Due
<1>2. Status \in {0, 3} /\ (Status = 3 => sticky # 0 \/ busy # NoOp)
  BY DEF Status, PatienceInv, TypeInv, TypeOK, DeviceTypeOK
<1>3. n >= 1 /\ n >= IdleInit
  BY Counts DEF Settling
<1>4. MaxLatency - n <= Retries - 1
  <2>1. MaxLatency <= 1 \/ MaxLatency <= IdleInit + Retries - 1
    BY Counts DEF Patient, Settling
  <2> QED BY <2>1, <1>3, Counts
<1>5. Status = 3 => sticky # 0 \/ left > 0
  BY <1>1, <1>2, Counts
<1>6. left <= Retries - 1 /\ (sticky # 0 => Retries > 1)
  BY DEF PatienceInv
<1>7. Accepted(op) => Status = 0
  BY DEF Accepted
<1> HIDE DEF Status, Accepted
<1>8. CASE Accepted(op)
  BY <1>1, <1>2, <1>3, <1>4, <1>6, <1>7, <1>8, Counts
<1>9. CASE ~Accepted(op)
  BY <1>1, <1>2, <1>3, <1>5, <1>6, <1>9, Counts
<1> QED BY <1>8, <1>9

\* Every step keeps the patience: one case per action.
LEMMA NextPatience ==
  ASSUME Patient, TypeInv, PatienceInv, [Next]_vars
  PROVE  PatienceInv'
<1> DEFINE first == Settling(IdleInit)
<1>c. /\ Settling(idle) >= first /\ Settling(idle) \in Nat
      /\ \A a \in Addr : readCache[a] \in Nat
      /\ \A k \in DOMAIN Batches : batchCache[k] \in Nat
  <2>1. idle >= IdleInit
    BY Counts DEF PatienceInv
  <2> QED BY <2>1, Counts DEF TypeInv, TypeOK
<1>1. ASSUME NEW c, NEW stage, Begin(c, stage),
             stage \notin {"fastCollect", "collect", "writeReset", "readReset"},
             stage = "fast" => readCache[c.addr] # NotCached
      PROVE  PatienceInv'
  BY <1>1, Counts DEF Begin, device, PatienceInv, CachesWait
<1>2. CASE WriteScan
  <2>1. HostScan(call, Settling(idle)) /\ pc = "write" /\ UNCHANGED <<readCache, batchCache, idle>>
    BY <1>2 DEF WriteScan
  <2>2. /\ sticky' = Status /\ Status \in {0, 3} /\ left' \in Nat /\ left' <= Retries - 1
        /\ Status = 3 => /\ sticky = 0 => left > 0
                         /\ left' = 0 \/ left' < left
                         /\ Retries > 1
    BY <2>1, <1>c, ScanWaits
  <2>3. tries' = tries /\ \/ Status = 0 /\ pc' = "ready" /\ ret' = "ok"
                          \/ Status = 3 /\ pc' = "writeReset" /\ ret' = ret
    BY <1>2, <2>2 DEF WriteScan, Return, Goto
  <2> HIDE DEF Status
  <2> QED BY <2>1, <2>2, <2>3, Counts DEF PatienceInv, CachesWait
<1>3. CASE WriteReset
  BY <1>3, Counts DEF WriteReset, DmiReset, Goto, PatienceInv, CachesWait
<1>4. CASE FastIssue \/ FastCollect
  <2> DEFINE n == readCache[call.addr]
  <2>1. PICK op \in {call, Nop} : HostScan(op, n)
    BY <1>4 DEF FastIssue, FastCollect
  <2>2. n \in Nat /\ n >= first
    <3>1. call.addr \in Addr /\ n # NotCached
      BY <1>4, OpFields DEF FastIssue, FastCollect, PatienceInv, CachesWait, TypeInv, StageInv,
         ReadStages, IsRead
    <3> QED BY <1>c, <3>1 DEF PatienceInv, CachesWait
  <2>3. /\ sticky' = Status /\ Status \in {0, 3} /\ left' \in Nat /\ left' <= Retries - 1
        /\ Status = 3 => Retries > 1
    BY <2>1, <2>2, ScanWaits
  <2>4. /\ tries = 0 /\ UNCHANGED <<tries, idle, readCache, batchCache, call>>
        /\ \/ pc = "fast" /\ pc' = "fastCollect" /\ ret' = ret
           \/ Status = 0 /\ pc' = "ready" /\ ret' = "ok"
           \/ Status = 3 /\ pc' = "fastReset" /\ ret' = ret
    BY <1>4, <2>3 DEF FastIssue, FastCollect, HostScan, Return, Goto, PatienceInv
  <2> HIDE DEF Status, n
  <2> QED BY <2>3, <2>4, Counts DEF PatienceInv, CachesWait
<1>5. CASE ReadIssue
  <2>1. HostScan(call, Settling(idle)) /\ pc = "read" /\ UNCHANGED <<readCache, batchCache, idle, tries, ret>>
        /\ pc' = "collect" /\ tries < Retries
    BY <1>5 DEF ReadIssue, Goto
  <2>2. /\ sticky' = Status /\ Status \in {0, 3} /\ left' \in Nat /\ left' <= Retries - 1
        /\ Status = 3 => /\ sticky = 0 => left > 0
                         /\ left' = 0 \/ left' < left
                         /\ Retries > 1
        /\ left' = 0 \/ left' = left - Settling(idle) \/ (Status = 0 /\ left' = MaxLatency - Settling(idle))
    BY <2>1, <1>c, ScanWaits
  <2>3. tries + left' < Retries
    <3>1. MaxLatency <= 1 \/ MaxLatency <= IdleInit + Retries - 1
      BY Counts DEF Patient, Settling
    <3>2. tries + left < Retries /\ idle >= IdleInit + tries
      BY <2>1 DEF PatienceInv
    <3> QED BY <2>1, <2>2, <3>1, <3>2, Counts
  <2> HIDE DEF Status
  <2> QED BY <2>1, <2>2, <2>3, Counts DEF PatienceInv, CachesWait
<1>6. CASE ReadCollect
  <2>1. HostScan(Nop, Settling(idle)) /\ pc = "collect" /\ UNCHANGED <<batchCache, idle>>
    BY <1>6 DEF ReadCollect
  <2>2. /\ sticky' = Status /\ Status \in {0, 3} /\ left' \in Nat /\ left' <= Retries - 1
        /\ Status = 3 => /\ sticky = 0 => left > 0
                         /\ left' = 0 \/ left' < left
                         /\ Retries > 1
    BY <2>1, <1>c, ScanWaits
  <2>3. tries' = tries
        /\ \/ Status = 0 /\ pc' = "ready" /\ ret' = "ok"
              /\ readCache' = [readCache EXCEPT ![call.addr] = Settling(idle)]
           \/ Status = 3 /\ pc' = "readReset" /\ ret' = ret /\ readCache' = readCache
    BY <1>6, <2>2 DEF ReadCollect, Return, Goto
  <2>4. CachesWait'
    BY <2>1, <2>3, <1>c DEF CachesWait, PatienceInv, TypeInv, TypeOK
  <2> HIDE DEF Status
  <2> QED BY <2>1, <2>2, <2>3, <2>4, Counts DEF PatienceInv
<1>7. CASE ReadReset
  BY <1>7, Counts DEF ReadReset, DmiReset, Goto, PatienceInv, CachesWait
<1>8. CASE GiveUp
  BY <1>8, Counts DEF GiveUp, PatienceInv
<1>9. CASE BatchScan
  <2> DEFINE n == IF batchCache[call] # NotCached THEN batchCache[call] ELSE Settling(idle)
             op == Batches[call][Len(got) + 1]
  <2>1. HostScan(op, n) /\ pc = "batch" /\ UNCHANGED <<pc, ret, tries, idle, readCache, batchCache>>
    BY <1>9 DEF BatchScan
  <2>2. n \in Nat /\ n >= first
    BY <2>1, <1>c DEF TypeInv, StageInv, PatienceInv, CachesWait
  <2>3. /\ sticky' = Status /\ Status \in {0, 3} /\ left' \in Nat /\ left' <= Retries - 1
        /\ Status = 3 => Retries > 1
    BY <2>1, <2>2, ScanWaits
  <2> HIDE DEF Status, n, op
  <2> QED BY <2>1, <2>3 DEF PatienceInv, CachesWait
<1>10. CASE BatchReturn
  BY <1>10, <1>c, Counts DEF BatchReturn, Return, device, PatienceInv, CachesWait, TypeInv, TypeOK
<1>11. CASE Complete
  BY <1>11, Counts DEF Complete, Perform, Fault, Completes, host, Patient, PatienceInv, CachesWait
<1>12. CASE UNCHANGED vars
  BY <1>12 DEF vars, host, device, PatienceInv, CachesWait
<1>13. CASE Start
  <2>1. ASSUME NEW a \in Addr, StartRead(a) PROVE PatienceInv'
    <3>1. ReadOp(a).addr = a
      BY DEF ReadOp
    <3> QED BY <2>1, <3>1, <1>1 DEF StartRead
  <2> QED BY <1>13, <2>1, <1>1 DEF Start, StartWrite, StartBatch
<1> QED BY <1>2, <1>3, <1>4, <1>5, <1>6, <1>7, <1>8, <1>9, <1>10, <1>11, <1>12, <1>13
        DEF Next, Host

\* As long as no operation fails and the latency is one that the idle hint of the last
\* attempt covers, no call raises, whatever was in flight when it began and whatever
\* idle counts its cached streams were built with.
THEOREM PatientCalls == ASSUME Patient PROVE Spec => []NeverGivesUp
<1>1. TypeInv /\ [Next]_vars => TypeInv'
  BY NextType
<1>2. TypeInv /\ PatienceInv /\ [Next]_vars => PatienceInv'
  BY NextPatience
<1>3. TypeInv /\ PatienceInv => NeverGivesUp
  BY DEF PatienceInv, NeverGivesUp
<1> QED BY InitType, InitPatience, <1>1, <1>2, <1>3, PTL DEF Spec
=============================================================================
