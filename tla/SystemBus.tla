------------------------------ MODULE SystemBus ------------------------------
(***************************************************************************)
(* Memory access over the system bus: read_mem32, write_mem32, read_mem    *)
(* and write_mem of espjtag/debug.py with their fallbacks, on top of the   *)
(* DMI calls of transport.py.  A batch and a stream are one action per     *)
(* scan, because the bus works in between and a scan may come back busy; a *)
(* single dmi_write or dmi_read is one action (Dtm has its steps).         *)
(* Numbers are words; words of one behaviour are all different.            *)
(***************************************************************************)
EXTENDS Naturals, SequencesExt

CONSTANTS
  Size,       \* words of mapped memory; an access beyond is a bus error
  MaxWords,   \* bound: words of one call
  MaxCalls,   \* bound: calls in a behaviour
  MaxBusy     \* bound: scans that come back busy

ASSUME BusAssumption ==
  /\ Size \in Nat \ {0} /\ MaxWords \in Nat \ {0}
  /\ MaxCalls \in Nat /\ MaxBusy \in Nat

VARIABLES
  dm,        \* the debug module's system bus manager and the memory behind it
  sticky,    \* dmistat is busy: every scan is ignored until a DMIRESET
  pc,        \* "ready", "batch", "stream", "closing" or "single"
  call,      \* [kind, addr, n]
  sent,      \* scans of the batch or stream already sent
  caps,      \* captures of the batch: <<data, busy>>
  todo,      \* single accesses still to make
  then,      \* what follows them: "return", "closing" or "raise"
  got,       \* data of the single reads
  ret,       \* "none", "ok" or "raise"
  result,    \* the words a read returned
  calls, busies,
  before,    \* history: memory at the start of the call
  pending,   \* history: the slow read started with an error still pending
  repeated,  \* history: a retried dmi_read performed its READ twice
  missed     \* history: a scan of the closing batch came back busy

history == <<before, pending, repeated, missed>>
vars == <<dm, sticky, pc, call, sent, caps, todo, then, got, ret, result, calls, busies, history>>

(***************************************************************************)
(* The debug module                                                        *)
(***************************************************************************)
Cfg(auto, onAddr, onData) == [auto |-> auto, onAddr |-> onAddr, onData |-> onData]
Off == Cfg(FALSE, FALSE, FALSE)
Faulty(d) == d.err \/ d.raced

\* No access starts while an error is pending; one too many is an error itself.
Start(d, kind) ==
  IF Faulty(d) THEN d
  ELSE IF d.bus # "none" THEN [d EXCEPT !.raced = TRUE]
  ELSE [d EXCEPT !.bus = kind]

\* The access in progress ends; the address moves on if it succeeded.
Finished(d) ==
  IF d.bus = "none" THEN d
  ELSE IF d.addr >= Size THEN [d EXCEPT !.bus = "none", !.err = TRUE]
  ELSE [d EXCEPT !.bus = "none",
                 !.data = IF d.bus = "read" THEN d.mem[d.addr] ELSE @,
                 !.mem = IF d.bus = "write" THEN [@ EXCEPT ![d.addr] = d.data] ELSE @,
                 !.addr = IF d.cfg.auto THEN @ + 1 ELSE @]

Nop == [op |-> "nop"]
Arm(cfg) == [op |-> "arm", cfg |-> cfg, clear |-> FALSE]     \* SBCS <- cfg
ClearErrors == [op |-> "arm", cfg |-> Off, clear |-> TRUE]   \* SBCS <- the W1C error bits
PutAddr(a) == [op |-> "addr", value |-> a]                   \* SBADDRESS0 <- a
PutData(w) == [op |-> "data", value |-> w]                   \* SBDATA0 <- w
GetData == [op |-> "getData"]
GetCs == [op |-> "getCs"]
Reads == {"getData", "getCs"}

Performed(d, x) ==
  CASE x.op = "nop" -> d
    [] x.op = "arm" -> [d EXCEPT !.cfg = x.cfg, !.err = @ /\ ~x.clear, !.raced = @ /\ ~x.clear]
    [] x.op = "addr" ->
         IF d.bus # "none" THEN [d EXCEPT !.raced = TRUE]
         ELSE IF d.cfg.onAddr THEN Start([d EXCEPT !.addr = x.value], "read")
         ELSE [d EXCEPT !.addr = x.value]
    [] x.op = "data" ->
         IF d.bus # "none" THEN [d EXCEPT !.raced = TRUE]
         ELSE Start([d EXCEPT !.data = x.value], "write")
    [] x.op = "getData" ->
         IF d.cfg.onData THEN Start([d EXCEPT !.out = d.data], "read")
         ELSE [d EXCEPT !.out = d.data, !.raced = @ \/ d.bus # "none"]
    [] x.op = "getCs" -> [d EXCEPT !.out = IF Faulty(d) THEN 1 ELSE 0]

\* One DMI scan carrying x: busy is possible while the access before it may still
\* be in flight; the scan is then ignored, and so are the ones after it.
Scan(x) ==
  \/ /\ ~sticky
     /\ dm' = [Performed(dm, x) EXCEPT !.flying = x # Nop]
     /\ UNCHANGED <<sticky, busies>>
  \/ /\ ~sticky /\ dm.flying /\ busies < MaxBusy
     /\ sticky' = TRUE
     /\ busies' = busies + 1
     /\ UNCHANGED dm
  \/ /\ sticky
     /\ UNCHANGED <<dm, sticky, busies>>

\* The bus access in progress ends, between any two scans.
Settle ==
  /\ dm.bus # "none"
  /\ dm' = Finished(dm)
  /\ UNCHANGED <<sticky, pc, call, sent, caps, todo, then, got, ret, result, calls, busies, history>>

(***************************************************************************)
(* The calls.  A word written is named by its call and its place in it.    *)
(***************************************************************************)
Word(i) == Size + calls * MaxWords + i
Words == [i \in 1..call.n |-> PutData(Word(i))]

Prefetch == Cfg(TRUE, TRUE, TRUE)
Autoincrement == Cfg(TRUE, FALSE, FALSE)

\* The batch of read_mem, its closing SBCS read and clear included.
ReadBatch ==
  <<Arm(Prefetch), PutAddr(call.addr)>>
  \o [i \in 1..call.n + 1 |-> GetData] \o <<Nop, GetCs, Nop, Arm(Off)>>

\* _read_mem_slow
SlowRead ==
  <<Arm(Prefetch), PutAddr(call.addr)>> \o [i \in 1..call.n |-> GetData] \o <<Arm(Off)>>

\* The stream of write_mem, and the same accesses one by one when it came back dirty.
WriteStream == <<Arm(Autoincrement), PutAddr(call.addr)>> \o Words
\* Mutant of SlowWrite: goes on from the address the stream has reached.
SlowWriteInPlace == <<Arm(Autoincrement)>> \o Words
SlowWrite == WriteStream

Closing == <<GetCs, Nop, Arm(Off)>>

Begin(kind, a, n, stage, accesses) ==
  /\ pc = "ready" /\ dm.bus = "none"
  /\ calls < MaxCalls
  /\ calls' = calls + 1
  /\ call' = [kind |-> kind, addr |-> a, n |-> n]
  /\ pc' = stage
  /\ todo' = accesses /\ then' = "return"
  /\ sent' = 0 /\ caps' = <<>> /\ got' = <<>>
  /\ ret' = "none" /\ result' = <<>>
  /\ before' = dm.mem
  /\ pending' = FALSE /\ repeated' = FALSE /\ missed' = FALSE
  /\ UNCHANGED <<dm, sticky, busies>>

\* read_mem32 and write_mem32 look at no error.
ReadMem32(a) ==
  Begin("read32", a, 1, "single", <<Arm(Cfg(FALSE, TRUE, FALSE)), PutAddr(a), GetData>>)
WriteMem32(a) ==
  Begin("write32", a, 1, "single",
        <<Arm(Off), PutAddr(a), PutData(Size + (calls + 1) * MaxWords + 1)>>)
ReadMem(a, n) == Begin("read", a, n, "batch", <<>>)
WriteMem(a, n) == Begin("write", a, n, "stream", <<>>)

\* dmi_write, dmi_read: a pending busy is reset first.  A USB round trip outlasts
\* a bus access, so each starts on an idle bus.  A read that came back busy is retried from its READ scan.
Single ==
  /\ pc = "single" /\ todo # <<>> /\ dm.bus = "none"
  /\ LET x == Head(todo) IN
     /\ \/ /\ dm' = [Performed(dm, x) EXCEPT !.flying = x.op \notin Reads]
           /\ UNCHANGED <<busies, repeated>>
        \/ /\ x.op \in Reads /\ busies < MaxBusy
           /\ busies' = busies + 1
           /\ repeated' = TRUE
           /\ dm' = [Performed(Finished(Performed(dm, x)), x) EXCEPT !.flying = FALSE]
     /\ got' = IF x.op \in Reads THEN Append(got, dm'.out) ELSE got
     /\ todo' = Tail(todo)
  /\ sticky' = FALSE
  /\ UNCHANGED <<pc, call, sent, caps, then, ret, result, calls, before, pending, missed>>

Singly(accesses, next) == pc' = "single" /\ todo' = accesses /\ then' = next

SinglesDone ==
  /\ pc = "single" /\ todo = <<>> /\ dm.bus = "none"
  /\ IF then = "closing"
     THEN pc' = "closing" /\ sent' = 0 /\ caps' = <<>> /\ UNCHANGED <<ret, result>>
     ELSE /\ pc' = "ready"
          /\ ret' = IF then = "raise" THEN "raise" ELSE "ok"
          /\ result' = got
          /\ UNCHANGED <<sent, caps>>
  /\ UNCHANGED <<dm, sticky, call, todo, then, got, calls, busies, history>>

\* One scan of the batch of read_mem, captured.
BatchScan ==
  /\ pc = "batch" /\ sent < Len(ReadBatch)
  /\ Scan(ReadBatch[sent + 1])
  /\ sent' = sent + 1
  /\ caps' = Append(caps, <<dm.out, sticky'>>)
  /\ UNCHANGED <<pc, call, todo, then, got, ret, result, calls, history>>

\* Mutant of Slots: the slots the docstring of read_mem names.
SlotsOfDocstring == [i \in 1..call.n |-> caps[2 + i][1]]
\* res[3 + i][0], counted from 0.
Slots == [i \in 1..call.n |-> caps[3 + i][1]]

\* The end of read_mem, once its captures are back: busy in the burst, a bus error in its SBCS, or the words.
BatchDone ==
  /\ pc = "batch" /\ sent = Len(ReadBatch) /\ dm.bus = "none"
  /\ IF \E i \in 2..Len(caps) : caps[i][2]
     THEN /\ Singly(<<Arm(Off)>> \o SlowRead, "return")
          /\ pending' = Faulty(dm)
          /\ UNCHANGED <<ret, result>>
     ELSE IF caps[call.n + 6][1] # 0
     THEN Singly(<<ClearErrors, Arm(Off)>> \o SlowRead, "return") /\ UNCHANGED <<pending, ret, result>>
     ELSE pc' = "ready" /\ ret' = "ok" /\ result' = Slots /\ UNCHANGED <<pending, todo, then>>
  /\ UNCHANGED <<dm, sticky, call, sent, caps, got, calls, busies, before, repeated, missed>>

\* One scan of the OUT-only stream of write_mem.
StreamScan ==
  /\ pc = "stream" /\ sent < Len(WriteStream)
  /\ Scan(WriteStream[sent + 1])
  /\ sent' = sent + 1
  /\ UNCHANGED <<pc, call, caps, todo, then, got, ret, result, calls, history>>

\* Mutant of StreamDone: the sticky status is reset and forgotten.
StreamDoneUnchecked ==
  /\ pc = "stream" /\ sent = Len(WriteStream) /\ dm.bus = "none"
  /\ pc' = "closing" /\ sent' = 0 /\ UNCHANGED <<todo, then>>
  /\ sticky' = FALSE
  /\ UNCHANGED <<dm, call, caps, got, ret, result, calls, busies, history>>

\* The round trip that reads dmistat: everything accepted, or DMIRESET and the whole write again.
StreamDone ==
  /\ pc = "stream" /\ sent = Len(WriteStream) /\ dm.bus = "none"
  /\ IF sticky THEN Singly(SlowWrite, "closing") /\ UNCHANGED sent
     ELSE pc' = "closing" /\ sent' = 0 /\ UNCHANGED <<todo, then>>
  /\ sticky' = FALSE
  /\ UNCHANGED <<dm, call, caps, got, ret, result, calls, busies, history>>

\* The closing batch of write_mem.  A dmi_write or a stream has left the last
\* access in flight, so its first scan may be busy already.
ClosingScan ==
  /\ pc = "closing" /\ sent < Len(Closing)
  /\ Scan(Closing[sent + 1])
  /\ sent' = sent + 1
  /\ caps' = Append(caps, <<dm.out, sticky'>>)
  /\ missed' = (missed \/ sticky')
  /\ UNCHANGED <<pc, call, todo, then, got, ret, result, calls, before, pending, repeated>>

\* fin[1][0]: the statuses of the batch are not looked at.
ClosingDone ==
  /\ pc = "closing" /\ sent = Len(Closing)
  /\ IF caps[2][1] # 0
     THEN Singly(<<ClearErrors, Arm(Off)>>, "raise") /\ UNCHANGED ret
     ELSE pc' = "ready" /\ ret' = "ok" /\ UNCHANGED <<todo, then>>
  /\ UNCHANGED <<dm, sticky, call, sent, caps, got, result, calls, busies, history>>

Init ==
  /\ dm = [mem |-> [a \in 0..Size - 1 |-> a + 1], cfg |-> Off, addr |-> 0, data |-> 0,
           err |-> FALSE, raced |-> FALSE, bus |-> "none", out |-> 0, flying |-> FALSE]
  /\ sticky = FALSE
  /\ pc = "ready" /\ call = [kind |-> "none", addr |-> 0, n |-> 0]
  /\ sent = 0 /\ caps = <<>> /\ todo = <<>> /\ then = "return" /\ got = <<>>
  /\ ret = "none" /\ result = <<>> /\ calls = 0 /\ busies = 0
  /\ before = dm.mem /\ pending = FALSE /\ repeated = FALSE /\ missed = FALSE

Calls ==
  \E a \in 0..Size - 1 :
    \/ ReadMem32(a) \/ WriteMem32(a)
    \/ \E n \in 1..MaxWords : ReadMem(a, n) \/ WriteMem(a, n)

Next ==
  \/ Calls \/ Single \/ SinglesDone \/ BatchScan \/ BatchDone
  \/ StreamScan \/ StreamDone \/ ClosingScan \/ ClosingDone \/ Settle

Spec == Init /\ [][Next]_vars
-----------------------------------------------------------------------------
DebugModule ==
  [mem: [0..Size - 1 -> Nat], cfg: [auto: BOOLEAN, onAddr: BOOLEAN, onData: BOOLEAN],
   addr: Nat, data: Nat, err: BOOLEAN, raced: BOOLEAN, bus: {"none", "read", "write"},
   out: Nat, flying: BOOLEAN]

TypeOK ==
  /\ dm \in DebugModule
  /\ pc \in {"ready", "batch", "stream", "closing", "single"}
  /\ sticky \in BOOLEAN
  /\ caps \in Seq(Nat \X BOOLEAN) /\ got \in Seq(Nat) /\ result \in Seq(Nat)
  /\ Len(result) <= MaxWords
  /\ then \in {"return", "closing", "raise"} /\ ret \in {"none", "ok", "raise"}
  /\ calls \in 0..MaxCalls /\ busies \in 0..MaxBusy

Mapped == call.addr + call.n <= Size
Returned(kind) == pc = "ready" /\ ret = "ok" /\ call.kind = kind
Content == [i \in 1..call.n |-> before[call.addr + i - 1]]

\* A read_mem of mapped words returns their contents, whatever comes in between:
\* a scan that is busy, a burst that outruns the bus, the prefetch running off the
\* end of memory, an error left behind by an earlier call.  Two departures of the
\* slow path are excluded by history variables: it checks no error, so one that is
\* pending when a busy burst falls back to it makes every word stale (`pending`);
\* and a dmi_read of SBDATA0 that is retried takes a word twice (`repeated`).
ReadExact == Returned("read") /\ Mapped /\ ~repeated /\ ~pending => result = Content

Target == call.addr..call.addr + call.n - 1
Writing == call.kind \in {"write", "write32"}

\* A write_mem that returns has written every word to its place, also when the
\* stream lost scans and was redone from the start; unless a scan of its closing
\* batch came back busy, see WriteNeverSilent.
WriteExact ==
  Returned("write") /\ ~missed =>
    /\ Mapped
    /\ \A i \in 1..call.n : dm.mem[call.addr + i - 1] = Word(i)

\* Whatever is dropped, raced or redone, no call changes a word outside its range,
\* and a read changes none: a lost address write never sends the data elsewhere.
OnlyTargetWritten ==
  \A a \in 0..Size - 1 : dm.mem[a] # before[a] => Writing /\ a \in Target

\* "Raises on an SBA bus error (don't silently half-write a flash buffer)".  Not so
\* when the closing batch comes back busy.
WriteNeverSilent ==
  Returned("write") => \A i \in 1..call.n : call.addr + i - 1 < Size
                                            /\ dm.mem[call.addr + i - 1] = Word(i)
=============================================================================
