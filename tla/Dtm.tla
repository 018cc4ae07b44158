--------------------------------- MODULE Dtm ---------------------------------
(***************************************************************************)
(* DMI access over the DTM: dmi_write, dmi_read and dmi_batch_cached of    *)
(* espjtag/transport.py, with the retry on busy, the adaptive idle hint    *)
(* and the caches of packed OUT streams.  One action is one DR scan (or    *)
(* one DMIRESET) of a call; the debug module completes operations in       *)
(* between, whenever it likes up to its latency.                           *)
(***************************************************************************)
EXTENDS DtmDevice, Sequences, FiniteSets

CONSTANTS
  Retries,    \* the `retries` argument (8 in the code)
  IdleInit,   \* the idle hint read from DTMCS
  MaxCalls,   \* bound: calls made in a behaviour
  Batches     \* the request lists of dmi_batch_cached, by cache key

ASSUME HostAssumption ==
  /\ Retries \in Nat \ {0}
  /\ IdleInit \in Nat
  /\ MaxCalls \in Nat
  /\ \A k \in DOMAIN Batches : Batches[k] \in Seq(Op \cup {Nop}) /\ Batches[k] # <<>>
  /\ \A k \in DOMAIN Batches : k \notin Op \cup {NoOp}

VARIABLES
  pc,           \* where the call is; "ready" between calls
  call,         \* the operation asked for (a key of Batches in a batch)
  tries,        \* attempts of the retry loop that ended without success
  idle,         \* self.idle
  readCache,    \* self._dmi_read_cache: idle cycles baked into each entry
  batchCache,   \* self._batch_cache: the same, by key
  got,          \* captures of the batch so far: <<data, status>>
  ret,          \* how the last call ended: "none", "ok" or "raise"
  value,        \* the data dmi_read returned
  calls,        \* calls made
  accepted,     \* history: operations of this call the DTM started
  executed      \* history: operations of this call the module performed

host == <<pc, call, tries, idle, readCache, batchCache, got, ret, value, calls>>
vars == <<device, host, accepted, executed>>

NotCached == 0     \* no entry: a cached stream has at least one idle cycle
Settling(n) == IF n > 1 THEN n ELSE 1            \* max(self.idle, 1)
Stages == {"ready", "write", "writeReset", "fast", "fastCollect", "fastReset",
           "read", "collect", "readReset", "batch"}

TypeOK ==
  /\ DeviceTypeOK
  /\ pc \in Stages
  /\ call \in Op \cup {NoOp} \cup DOMAIN Batches
  /\ tries \in 0..Retries
  /\ idle \in Nat
  /\ readCache \in [Addr -> Nat]
  /\ batchCache \in [DOMAIN Batches -> Nat]
  /\ got \in Seq(Data \X {0, 2, 3})
  /\ ret \in {"none", "ok", "raise"}
  /\ value \in Data
  /\ calls \in 0..MaxCalls
  /\ accepted \in Nat /\ executed \in Nat

Init ==
  /\ DeviceInit
  /\ pc = "ready" /\ call = NoOp /\ tries = 0
  /\ idle = IdleInit
  /\ readCache = [a \in Addr |-> NotCached]
  /\ batchCache = [k \in DOMAIN Batches |-> NotCached]
  /\ got = <<>>
  /\ ret = "none"
  /\ value = out
  /\ calls = 0 /\ accepted = 0 /\ executed = 0

(***************************************************************************)
(* Steps shared by the calls                                               *)
(***************************************************************************)
Begin(c, stage) ==
  /\ pc = "ready"
  /\ calls < MaxCalls
  /\ calls' = calls + 1
  /\ call' = c
  /\ pc' = stage
  /\ ret' = "none"
  /\ tries' = 0
  /\ got' = <<>>
  /\ accepted' = 0 /\ executed' = 0
  /\ UNCHANGED <<device, idle, readCache, batchCache, value>>

\* One scan of this call, remembered in the history.
HostScan(op, n) ==
  /\ Scan(op, n)
  /\ accepted' = IF Accepted(op) THEN accepted + 1 ELSE accepted
  /\ UNCHANGED <<executed, calls, call>>

Return(how) == pc' = "ready" /\ ret' = how
Goto(stage) == pc' = stage /\ UNCHANGED ret

(***************************************************************************)
(* dmi_write                                                               *)
(***************************************************************************)
StartWrite(a, d) == Begin(WriteOp(a, d), "write")

\* Mutant of WriteScan: only busy counts as a failure of the write.
WriteScanIgnoresFailure ==
  /\ pc = "write" /\ tries < Retries
  /\ HostScan(call, Settling(idle))
  /\ \/ Status # 3 /\ Return("ok") /\ UNCHANGED tries
     \/ Status = 3 /\ Goto("writeReset") /\ UNCHANGED tries
  /\ UNCHANGED <<idle, readCache, batchCache, got, value>>

\* status 0 returns, 3 goes to the DMIRESET, anything else just tries again.
WriteScan ==
  /\ pc = "write" /\ tries < Retries
  /\ HostScan(call, Settling(idle))
  /\ \/ Status = 0 /\ Return("ok") /\ UNCHANGED tries
     \/ Status = 3 /\ Goto("writeReset") /\ UNCHANGED tries
     \/ Status = 2 /\ Goto("write") /\ tries' = tries + 1
  /\ UNCHANGED <<idle, readCache, batchCache, got, value>>

\* Mutant of WriteReset: more idle, but the sticky busy status stays.
WriteResetKeepsSticky ==
  /\ pc = "writeReset"
  /\ UNCHANGED device
  /\ idle' = idle + 1
  /\ tries' = tries + 1
  /\ Goto("write")
  /\ UNCHANGED <<call, readCache, batchCache, got, value, calls, accepted, executed>>

\* The busy path of dmi_write adds idle; it leaves both caches as they are.
WriteReset ==
  /\ pc = "writeReset"
  /\ DmiReset
  /\ idle' = idle + 1
  /\ tries' = tries + 1
  /\ Goto("write")
  /\ UNCHANGED <<call, readCache, batchCache, got, value, calls, accepted, executed>>

(***************************************************************************)
(* dmi_read: a READ scan, then a NOP scan that collects its data           *)
(***************************************************************************)
StartRead(a) ==
  Begin(ReadOp(a), IF readCache[a] # NotCached THEN "fast" ELSE "read")

\* The fast path replays the cached stream, with the idle cycles it was built with.
FastIssue ==
  /\ pc = "fast"
  /\ HostScan(call, readCache[call.addr])
  /\ Goto("fastCollect")
  /\ UNCHANGED <<tries, idle, readCache, batchCache, got, value>>

\* Mutant of FastCollect: returns whatever the scan captured.
FastCollectAnyStatus ==
  /\ pc = "fastCollect"
  /\ HostScan(Nop, readCache[call.addr])
  /\ Return("ok")
  /\ value' = out
  /\ UNCHANGED <<tries, idle, readCache, batchCache, got>>

FastCollect ==
  /\ pc = "fastCollect"
  /\ HostScan(Nop, readCache[call.addr])
  /\ \/ Status = 0 /\ Return("ok") /\ value' = out
     \/ Status = 3 /\ Goto("fastReset") /\ UNCHANGED value
     \/ Status = 2 /\ Goto("read") /\ UNCHANGED value
  /\ UNCHANGED <<tries, idle, readCache, batchCache, got>>

ReadIssue ==
  /\ pc = "read" /\ tries < Retries
  /\ HostScan(call, Settling(idle))
  /\ Goto("collect")
  /\ UNCHANGED <<tries, idle, readCache, batchCache, got, value>>

\* Mutant of ReadCollect: a busy collection is repeated at once, with neither
\* a DMIRESET nor a try counted.
ReadCollectSpins ==
  /\ pc = "collect"
  /\ HostScan(Nop, Settling(idle))
  /\ \/ /\ Status = 0
        /\ Return("ok")
        /\ value' = out
        /\ readCache' = [readCache EXCEPT ![call.addr] = Settling(idle)]
        /\ UNCHANGED tries
     \/ Status = 3 /\ Goto("read") /\ UNCHANGED <<value, readCache, tries>>
     \/ Status = 2 /\ Goto("read") /\ tries' = tries + 1 /\ UNCHANGED <<value, readCache>>
  /\ UNCHANGED <<idle, batchCache, got>>

\* Only the status of the NOP scan is looked at; success caches the stream.
ReadCollect ==
  /\ pc = "collect"
  /\ HostScan(Nop, Settling(idle))
  /\ \/ /\ Status = 0
        /\ Return("ok")
        /\ value' = out
        /\ readCache' = [readCache EXCEPT ![call.addr] = Settling(idle)]
        /\ UNCHANGED tries
     \/ Status = 3 /\ Goto("readReset") /\ UNCHANGED <<value, readCache, tries>>
     \/ Status = 2 /\ Goto("read") /\ tries' = tries + 1 /\ UNCHANGED <<value, readCache>>
  /\ UNCHANGED <<idle, batchCache, got>>

\* Busy: DMIRESET, one more idle cycle, and both caches are dropped.
ReadReset ==
  /\ pc \in {"fastReset", "readReset"}
  /\ DmiReset
  /\ idle' = idle + 1
  /\ readCache' = [a \in Addr |-> NotCached]
  /\ batchCache' = [k \in DOMAIN Batches |-> NotCached]
  /\ tries' = IF pc = "readReset" THEN tries + 1 ELSE tries
  /\ Goto("read")
  /\ UNCHANGED <<call, got, value, calls, accepted, executed>>

\* The retries are used up: the call raises.
GiveUp ==
  /\ pc \in {"write", "read"} /\ tries = Retries
  /\ Return("raise")
  /\ UNCHANGED <<device, call, tries, idle, readCache, batchCache, got, value,
                 calls, accepted, executed>>

(***************************************************************************)
(* dmi_batch_cached: the requests of a batch, one scan each, in one go     *)
(***************************************************************************)
StartBatch(k) == Begin(k, "batch")

\* Mutant of BatchScan: one bit of the op-status is kept.
BatchScanOneStatusBit ==
  /\ pc = "batch" /\ Len(got) < Len(Batches[call])
  /\ HostScan(Batches[call][Len(got) + 1],
              IF batchCache[call] # NotCached THEN batchCache[call] ELSE Settling(idle))
  /\ got' = Append(got, <<out, IF Status = 2 THEN 0 ELSE Status>>)
  /\ UNCHANGED <<pc, ret, tries, idle, readCache, batchCache, value>>

BatchScan ==
  /\ pc = "batch" /\ Len(got) < Len(Batches[call])
  /\ HostScan(Batches[call][Len(got) + 1],
              IF batchCache[call] # NotCached THEN batchCache[call] ELSE Settling(idle))
  /\ got' = Append(got, <<out, Status>>)
  /\ UNCHANGED <<pc, ret, tries, idle, readCache, batchCache, value>>

\* r[1] == 0 for every result but the first.
Clean(captures) == \A i \in 2..Len(captures) : captures[i][2] = 0

BatchReturn ==
  /\ pc = "batch" /\ Len(got) = Len(Batches[call])
  /\ Return("ok")
  /\ batchCache' = IF batchCache[call] = NotCached /\ Clean(got)
                   THEN [batchCache EXCEPT ![call] = Settling(idle)] ELSE batchCache
  /\ UNCHANGED <<device, call, tries, idle, readCache, got, value, calls,
                 accepted, executed>>

(***************************************************************************)
(* The debug module                                                        *)
(***************************************************************************)
\* History: the operation in flight belongs to this call if the call started one.
Complete ==
  /\ \/ Perform /\ executed' = IF accepted > 0 THEN executed + 1 ELSE executed
     \/ Fault /\ UNCHANGED executed
  /\ UNCHANGED <<host, accepted>>

Start ==
  \/ \E a \in Addr, d \in Data : StartWrite(a, d)
  \/ \E a \in Addr : StartRead(a)
  \/ \E k \in DOMAIN Batches : StartBatch(k)

Host ==
  \/ WriteScan \/ WriteReset
  \/ FastIssue \/ FastCollect
  \/ ReadIssue \/ ReadCollect \/ ReadReset
  \/ GiveUp
  \/ BatchScan \/ BatchReturn

Next == Start \/ Host \/ Complete

Spec == Init /\ [][Next]_vars

\* The host runs its call to the end; the module completes what it started.
FairSpec == Spec /\ WF_vars(Host) /\ WF_vars(Complete)
-----------------------------------------------------------------------------
(***************************************************************************)
(* Properties                                                              *)
(***************************************************************************)
IsWrite == call \in Op /\ call.kind = "write"
IsRead == call \in Op /\ call.kind = "read"

\* A dmi_write that returned was started by the DTM exactly once, however many
\* of its scans came back busy; one that is still trying, or that raised, was
\* never started: the retry loop neither drops nor doubles a write.
WriteStartedOnce ==
  IsWrite => accepted = IF pc = "ready" /\ ret = "ok" THEN 1 ELSE 0

\* The data of a dmi_read that returned is the content of its register at that
\* moment, with nothing in flight that could still change it: never the data of
\* an earlier access, never what a busy scan captured.
ReadIsFresh ==
  IsRead /\ pc = "ready" /\ ret = "ok" =>
    busy = NoOp /\ value = reg[call.addr]

\* When every status from the second capture on is 0, every request of the batch
\* was started, and the capture after a READ holds the data of that READ: the
\* one-slot shift read_mem and read_registers rely on when they slice a batch.
CleanBatchIsExact ==
  pc = "batch" /\ Len(got) = Len(Batches[call]) /\ Len(got) > 1 /\ Clean(got) =>
    LET reqs == Batches[call] IN
    /\ accepted = Cardinality({i \in DOMAIN reqs : reqs[i] # Nop})
    /\ \A i \in 2..Len(reqs) :
         /\ reqs[i - 1].kind = "read"
         /\ \A j \in i..Len(reqs) : reqs[j].kind # "write"
         => got[i][1] = reg[reqs[i - 1].addr]

\* While no operation fails and the latency is within what the retries and the
\* growing idle hint can wait for, no call gives up: the adaptive idle converges
\* instead of running out of tries.
NeverGivesUp == ret # "raise"

\* Every call returns or raises; no interleaving with the module makes the retry
\* loops run for ever.
EveryCallEnds == (pc # "ready") ~> (pc = "ready")

(***************************************************************************)
(* Single accesses implement the register port.  The posted write is the   *)
(* one in flight, a read has sampled its register once one of its READs    *)
(* has been performed.                                                     *)
(***************************************************************************)
CONSTANT Unsampled

ASSUME UnsampledAssumption == Unsampled \notin Data

Port == INSTANCE DmiPort WITH
  Idle <- NoOp,
  regs <- reg,
  posted <- IF busy # NoOp /\ busy.kind = "write" THEN {busy} ELSE {},
  request <- IF pc = "ready" THEN NoOp ELSE call,
  taken <- IsWrite /\ accepted > 0,
  sample <- IF pc # "ready" /\ IsRead /\ executed > 0 THEN out ELSE Unsampled,
  answer <- IF ret = "ok" /\ IsRead THEN <<"ok", value>> ELSE <<ret>>

\* Every behaviour of dmi_write and dmi_read, retries and caches included, is a
\* behaviour of a register port with one posted write.
ImplementsPort == Port!Spec
=============================================================================
