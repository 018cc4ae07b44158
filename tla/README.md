# Verification of espjtag

espjtag debugs and flashes Espressif chips through the USB-JTAG bridge on the
chip.  It is one host process: Python calls, two helper threads, and a device
that works at its own pace behind two bulk endpoints.  What is hard in it is not
concurrency in the large but the layers between a call and the register or the
flash sector it is about, each with its own delay, its own way to fail and its
own recovery: USB buffers, the scan chain, the DTM, the system bus, the hart and
its triggers, functions that the target runs on the host's behalf, and on Xtensa
cores a copy of the register file that has to meet the core at the right moments.

    tlc -config MCDtm_port.cfg MCDtm.tla        # any run: its cfg, its module
    tlapm DtmProofs.tla                         # the proofs: any module named ..Proofs

## 1. The system

| component | code | state | operations | talks to |
|---|---|---|---|---|
| USB endpoints | `transport.py` `_send`, `_recv`, `_drain_in`, `_dmi_batch_async` | drain mode, the reader thread's buffer and `fail` list; device: OUT and IN buffers | exchange a chunk, stream a batch with a reader thread, drain | everything above goes through it |
| Write streams | `transport.py` `_dmi_stream_writes` | a `queue.Queue(4)`, the writer thread, its `fail` list | encode and ship OUT only, join, read the sticky status, reset it | OUT endpoint, DTM |
| Scan chain and TAP | `transport.py` `_clock_tms` .. `_detect_chain`, `read_idcode` | tracked TAP state, `taps_before/after`, `idcode_index` | walk, IR and DR scan, detect, read IDCODE | `chips.py` for the layout |
| DMI access | `transport.py` `_dmi`, `dmi_write`, `dmi_read`, `dmi_batch_cached` | idle hint, two caches of packed streams | write, read, batch, DMIRESET and retry | DTM |
| System bus memory access | `debug.py` 244-373 | none on the host; device: `sbcs`, address, data, error bits | `read_mem32`, `write_mem32`, `read_mem`, `write_mem`, slow fallbacks | DMI access and write streams |
| Run control, abstract commands | `debug.py` 76-243, 375-497 | none on the host beyond locals; device: `haltreq`, `resumeack`, `cmderr`, DATA0, the hart's registers | `examine`, `halt`, `resume`, register access single and batched, `call_function` | DMI access |
| Triggers | `debug.py` 499-1418 | handle of each trigger, `_pending_step_over`, negative cache | enumerate, add, remove, hit scan of `halt`, step over of `resume`, `step` | abstract commands, hart |
| Flash over the ROM | `debug.py` 1420-1763 | none between calls; target: the ROM's view of the chip, two scratch buffers | gate, erase, write, verify, incremental | `call_function`, memory access |
| RAM stub | `debug.py` 1765-2034, `stub/stub.c` | mailbox words, double buffer; target: the loop's locals | load, post, poll, QUIT | memory access beside a running hart |
| Reset | `debug.py` 2035-2288, `reset.py`, `usbreset.py` | the USB handle | `reset_run`, `reset_run_from_rom` with re-enumeration | all of them |
| MCP server, `--info` | `mcp_server.py`, `__main__.py` | one session for the length of a tool | tools that halt, read, write, resume, reset | all of them |
| Xtensa cores | `xtensa.py`, `xtensa_flasher.py` | register cache with dirty flags, breakpoint and watchpoint slots, `regs_fetched`; core: register file and window, ICOUNT, IBREAK, DBREAK | fetch, write back, halt, resume, step, breakpoints, watchpoints, algorithms, function calls, load a stub, `flash_write` | transport |
| Tables, mocks, command line, scripts | `chips.py`, `constants.py`, `mock.py`, `scripts/` | | | |

How they interact: everything is a call downward, except at three places where two
parties run side by side.  A reader or writer thread runs beside the caller on the
USB endpoints.  The hart runs beside the host whenever it is not halted, and stops
by itself.  The flash stub runs on the hart while the host writes the memory it
works on, with a mailbox word as the only lock.

What makes each correct, and where it is hard:

- *USB endpoints*: an operation gets its own captures and leaves nothing; the
  device refuses OUT while nobody reads IN, a transfer may fail part of the way,
  a reader thread may outlive its operation.
- *Write streams*: the bursts go out once and in order; the status is read when
  the writer is over; the call ends.
- *Scan chain*: the field that comes back is the target's, whatever else is on
  the chain and wherever a broken stream left the TAPs.
- *DMI access*: a write is started once, a read returns its own register, through
  every busy, retry and cached stream; retries converge.
- *System bus*: the words are the ones at the address, no other word changes, an
  error is reported, although the prefetch runs ahead of the request and a retry
  of a read has a side effect.
- *Run control*: what a register read returns is the register, not what an earlier
  command left; `call_function` puts back what it saved and runs its callee with
  interrupts masked; a tool that halts in order to read gives the hart back as it
  was.  Commands overrun, requests are obeyed late, any access may raise.
- *Triggers*: what the hart watches is what the handles say; a resume leaves a
  hit behind and loses none.
- *Flash and stub*: nothing outside the range changes, and nothing at all before
  the ROM knows the chip; a buffer is not refilled before it is programmed; a
  time-out is not a success; every operation ends and leaves nothing running.
- *Xtensa*: the program goes on with its own registers although every access goes
  through one of them and every fetch changes two; what is armed is armed at each
  resume; a step moves on; called code is undone.

`PROJECT.json` lists the hazards line by line, with the properties that cover each.

## 2. Modules

Modules with an `MC` module beside them are the ones that are model-checked; the
`MC` module gives the constants values.  Definitions keep the source's names where
that is possible.  A definition called a mutant in its comment is a plausible
mistake in the one below it, which the run of that module notices.

| module | models | one action is |
|---|---|---|
| `DtmDevice` | the DTM: latency, op-status, sticky busy and failed, DMIRESET (external) | part of the actions of `Dtm` |
| `Dtm` | `dmi_write`, `dmi_read` with fast path, `dmi_batch_cached` | one DR scan of a call, one DMIRESET, one completion in the device |
| `DmiPort` | what the calls promise: registers with one posted write | abstract specification, refined by `Dtm` |
| `DtmProofs` | theorems about `Dtm` | |
| `Tap` | the TAP graph, the breadth-first walk of `_goto`, the reset walk | operators |
| `ScanChain` | chain detection, IR/DR scans around bypassed TAPs, IDCODE, DMI accesses, a stream that breaks off; the TAPs bit by bit | one TCK of the device; one session of the host |
| `ScanChainProofs` | theorems about `ScanChain` and the walks of `Tap` | |
| `StreamWrites` | caller and writer thread around the queue | one `put`, `get`, USB write, join |
| `UsbPipe` | the endpoints, the caller, the reader threads, the device | one scan's worth of OUT or IN |
| `TransportProofs` | theorems about `StreamWrites` and `UsbPipe` | |
| `SystemBus` | the four memory calls and their fallbacks, the bus manager and the memory | one DMI scan of a batch or stream, one single access, one bus access |
| `SystemBusProofs` | theorems about `SystemBus` | |
| `RunControl` | run control, register access, `call_function`, both resets, the tools and `--info` on top; the hart | one access to the debug module, one move of the hart |
| `RunControlProofs` | theorems about `RunControl` | |
| `Triggers` | enumerate, add, remove, halt, resume, step; the hart and its triggers | one call on a halted hart, one instruction |
| `TriggersProofs` | theorems about `Triggers` | |
| `FlashArray` | what programming promises: an array of which some sectors change | abstract specification, refined by `Flash` |
| `Spiflash` | the array, the ROM functions, the gate `_rom_flash_ready` | one ROM call |
| `FlashRom` | `flash_write`, `flash_incremental` by ROM calls, `flash_write` of Xtensa | one ROM call with its staging and its decision |
| `FlashStub` | `_flash_incremental_stub` and the loop of `stub.c` | one bus access of the host, one ROM call or mailbox word of the stub |
| `Flash` | the three together, the properties | |
| `FlashProofs` | theorems about `Flash` | |
| `XtensaCache` | fetch and write-back of the register cache through a3 | operators |
| `XtensaImage` | the placement of a stub in reversed RAM | operators |
| `Xtensa` | run control of an Xtensa core over both | one call up to the core's release, one stop, one instruction |
| `XtensaProofs` | theorems about `Xtensa` and the operators of `XtensaCache` | |

How they fit together: `Dtm` takes a DR scan as one step, which `ScanChain` shows
bit by bit; `SystemBus` and `RunControl` take `dmi_write` and `dmi_read` as one step,
which is what `Dtm` refines to (`DmiPort`), and keep of `Dtm` what survives outside:
a retried read has been performed twice, a batch may have lost its tail, an access
may raise.  `StreamWrites` is the transport of the stream `SystemBus` sends; a scan
of it that is dropped is dropped there.  `Triggers` stands on register accesses,
which are atomic in it; `Flash` stands on `call_function`, which is one step there
that works, fails or times out, as `RunControl` shows it does, and its memory
accesses beside a running hart are single steps.

### DTM access

The device captures in a scan the status and data of the operation *before*; it
accepts an operation only with status 0.  An operation completes at any moment up
to `MaxLatency` idle cycles.  `DtmDevice` is what the code relies on; everything
else in `Dtm` is line by line: which status the write retries on, that the read
looks only at the collecting scan, that the fast path replays the stream with the
idle cycles it was packed with, that the busy path of a read drops both caches
and that of a write drops none.  `accepted` and `executed` are history.
`ImplementsPort` maps a write in flight to `posted`, takes a write for accepted when
one of its scans has been, and lets `sample` be the output register while a read runs
and its own READ has been executed.  Where operations can fail (`CanFault`), the port
may lose the write it has posted: nobody asks the module about it later.

### Scan chain

The host's bits go down a wire one at a time into `NTaps` TAPs with their own
instruction registers.  `Break` cuts the wire anywhere.  In the run words are two bits
long; codes are abstract but different, so every position mistake shows.  `Detected`
takes the position of the table first and the caller's `tap` over it; a `tap` beyond the
IDCODEs that were counted raises a ValueError, and leaves the table's position behind for
the next call, which detects again.  Assumed: at most three TAPs on a chain, as many
IDCODEs as `_detect_chain` shifts out, none of them all zeros.

### System bus

The bus manager of the debug module is modelled from how `debug.py` drives it:
autoincrement, read on address, read on data, `sberror` for an unmapped address,
`sbbusyerror` for an access while one is in progress; with an error pending no
access starts.  A scan directly behind another operation may be busy, and then
all scans are ignored until DMIRESET.  Assumed: the round trip of a single access
outlasts a bus access, and op-status 2 does not occur here (`Dtm` has it).

### Run control

A tool is a list of calls, a call a list of accesses (`code`), and the actions of
the host take one access off its head; between any two the hart moves: it obeys a
halt request whenever it gets to it, or never, traps at the end of the callee,
stops by itself, comes out of reset.  A register holds *who* put a value there, which
is all the properties ask.  `BatchRun` is the pipelined batch: commands complete up
to some point, the next may still run when DATA0 is touched, which sets `cmderr`
and drops the rest, and the DTM may be busy from some scan on; `BatchCheck` decides as
`write_registers` and `read_registers` do, with `_abstract_wait` skipped when a scan
was busy, so that an error stays for the command after.  `Raise` is an exception at
any access; the tools then just end, `--info` resumes in its `finally`.

Assumed: a halted hart obeys a resume request, and an abstract command ends, within
the round trip to the next write of DMCONTROL.  `call_function` requires a halted
hart; of a call that finds it running nothing is claimed (`before` is None).  The USB
reset and the reopening are one transfer each, which may fail.  A hart in reset counts as
unavailable, which `_resume_go` takes for a failure at once.

### Triggers

A watch is a set of addresses, an instruction the set it touches.  The hardware
accepts styles per trigger, so that every fallback (range, pair, first address)
and every reason for it (occupied, refused, not adjacent) occurs.  A probe
that is refused switches a free trigger off.  The first add enumerates, which
switches off what an earlier session left armed.  A register access that fails there
does one of two things.  Most make the add raise, and the next one begins again
(`EnumerationFails`).  A trigger that cannot be selected or has no type to read, and an
unreadable TSELECT, end the enumeration as done with a short or an empty table
(`Counts`, of which the accesses that work are the case of a full one); adds use the
`count` triggers of the table, and those beyond it stay as they were, armed ones
included (`LeftOversGone` is not true of the code).  A trigger the program
set for itself (`dmode` clear) survives the enumeration; an add may take it, since
`_find_next_free_trigger` looks only at its own handles.  Which triggers are refused is
constant, so the negative cache changes nothing a property sees and is left out,
and so is trigger type 1 (`_maybe_add_trigger_t1`).  Assumed: the hart implements
the hit bits.  `timing` is the hart's and fixed.  `MarksChain` says whether the
first half of a firing chain is marked as hit too; the run says it is not.  On a hart
that marks both, `ResumeLeavesHit` does not hold: `halt` takes the hit of the first
half and keeps the mark of the second, `resume` puts that mark back, and at the next
stop, for another handle, it is taken for the hit, so that the wrong triggers are
stepped over (set `MarksChain = TRUE` in `MCTriggers.cfg`).

### Flash

A word is the set of its bits that are 1, so programming is an intersection and
erasing the full set, and an operation that forgets to erase shows.  A ROM call works,
returns an error, or does not come back: the array may then have changed or not, for
a program call up to any word.  What the code does with the result is line by line,
and it is not the same everywhere: `flash_write` raises on any result but 0; in
`flash_incremental` `if r:` takes None, a call that timed out, for success, so that an
operation without verify may return "ok" with a sector missing; `spiflash_read` and
`flash_init` have a result nobody looks at, which the variable `silent` allows to
fail.  With `silent` the promise is weaker (`Start`): the sectors may be any of the
range, and a verified operation has verified nothing, since the buffer it compares
still holds what was staged (`VerifiedIsWritten`).  A digest stands for the contents
it was computed from, so that two sectors never collide.

The stub and the host share the memory: the host stages sector n+1 in one buffer while
the stub programs sector n from the other, posts when the status word says done, and
posts QUIT in its `finally` whatever the stub is doing.  Commands and reports are two
words each, written one after the other, and the steps of the stub interleave with the
host's at every one.  Assumed: the stub, which polls every few cycles, has fetched a
posted command before the host's next access over USB (`PostArgs`).  Were it not so, the
zero arguments of QUIT would become the arguments of a program command not yet
taken.  An exception inside `stub_begin` or `stub_end` leaves the stub running
("abandoned"); everything else halts it.

The Xtensa `flash_write` (kind "xtensa") has the gate with two readings, one sector a
call, and one read of the whole image to verify, which is longer than its buffer; an
unlock that times out leaves the core running, and its late result is taken for
that of the first erase, which then has not run ("skipped").  Switching the
instruction cache off and on around ROM calls is left out; `flash_read_rom` leaves it
off when its read raises.

### Xtensa

`XtensaCache` has a core of `ARegs` registers of which a program sees `Window`, the
host's copy, and the two ways they meet.  Every special register is reached through a3
of the live window.  A fetch switches all coprocessors on and clobbers a3, and marks
both dirty, so that a write-back repairs them; nothing else does.  `ctx` is history:
where the program's registers can be found ("live" in the core, "cached", "both", or
"lost" to a caller that went around the cache).  `Xtensa` runs on it: the core
executes, writes registers, rotates its window, overwrites IBREAKENABLE as an
operating system does, and stops for a breakpoint, a watchpoint, a BREAK, a count or a
request.  A step is a stack of frames, because a step that stops in a window handler
goes on with a step.

What the model leaves to the reader: one debug cause at a time; a halt request is
consumed by the stop and has no effect on a halted core; DBREAKA and DBREAKC of a slot
are one register; PS is EPS6; values are told apart by where they come from
(parameters 70.., call arguments 80.., left by called code from 60 on); writes injected
into a running core have no effect.  `wait_algorithm` is called without an exit point,
as the flasher calls it.

## 3. Runs

| run | question | bounds |
|---|---|---|
| `dtm_port` | do single accesses implement the port, end, and never give up? | 2 registers, 2 values, latency 3, 3 retries, 4 calls |
| `dtm_batch` | write once, fresh reads and exact batches with failing operations and cached batches | 3 calls, two batches in the shape of `read_mem` and `write_registers` |
| `scan_chain` | is it the target that is read and written? | chains of 1, 2, 3 TAPs and a `tap` out of range, all start states, 3 sessions, 1 break |
| `stream` | is a stream delivered in order, and does the call end or block where it is known to? | 6 bursts, queue 4, any transfer may fail |
| `stream_hang` | violation: `CallEnds` | as above |
| `usb_pipe` | own captures, empty endpoints, everything ends | chunk 3, IN 3, OUT 2; operations of 3, 3, 6, 1 scans; 1 failure; every drain mode |
| `system_bus` | right words, no other word, through all fallbacks | 3 words of memory, calls of 1 or 2 words, 2 calls, 2 busy scans |
| `triggers` | bookkeeping, no hit lost, resume makes progress | 3 triggers, 3 instructions, 4 watches, 3 handles, both timings, one left-over and one trigger of the program's own, tables of 0 to 3 triggers |
| `run_control` | reads that restore, registers that are the register's, calls that put back and isolate, a boot that is fresh | 2 polls, 10 tools, 2 of them called, 2 troubles, masked and unmasked program |
| `run_left` | violation: `LeftIdentical` | `--info` alone, no trouble |
| `flash` | does programming implement the array, behind the gate, and end? | 5 sectors of 2 one-bit words, blocks of 2 sectors, 3 readings, 2 faults, digest commands of 2 sectors; 16 operations, 4 contents |
| `xtensa` | program intact, slots armed, steps that move, what is put back behind called code, image in order | 8 registers, window of 4, 3 addresses with a BREAK, a handler and two accesses, 3 instructions, 4 calls |

Why these bounds are enough for what they ask:

- `dtm_*`: a call interacts with the one operation left in flight by the call
  before it and with the idle hint; three calls are a writer, a reader on the
  fast path and a reader after its caches were dropped, the fourth follows them.
  Latency 3 with hint 1 makes one and two retries happen.  `NeverGivesUp` needs
  latency below `IdleInit + Retries`; the code's 8 retries have more room.
- `scan_chain`: one session detects, the next is broken, the third has to be
  right.  Three TAPs have one on either side of the target.
- `stream`: six bursts fill a queue of four with one in the writer's hand and one
  blocked.
- `usb_pipe`: 6 exceeds the five scans the device holds, so that a write without
  a reader is stuck; 3 is a full chunk, which just fits, and which no longer fits
  behind the leftovers of another.
- `system_bus`: with two words at address 1 or 2 of three the prefetch ends
  inside, at and beyond the end of memory; the second call meets what the first
  left behind.
- `triggers`: the third handle meets a full hart, a pair finds one free neighbour
  or two, and one instruction touches the watches of several handles.
- `run_control`: the second tool meets what the first left asserted or pending; one
  trouble makes a batch fall back, the second hits the fallback or the way out.
  A wait that is polled twice can succeed late and can run out.
- `flash`: ranges that begin and end within a sector, cover a block, a block and a
  half or less than one; three sectors to change make both buffers be used twice, and
  the digests take two commands.  One fault ends an operation or is taken for success,
  the second falls in the way out.
- `xtensa`: a window of four in a file of eight rotates over the end of
  the file; four calls are a fetch, a change of a slot or an algorithm, a step and a resume;
  three instructions take a step through a handler to the instruction behind it.  An
  algorithm uses one register or all, is sent new values or, in a8 and PS, those the
  cache has, and leaves PS alone or not, so that each branch of the comparison of
  `wait_algorithm` is taken for a register that the algorithm changed.  The
  code sizes fill their last word, and do not; both have more than one chunk.

Deadlock is not checked: every behaviour has a bounded number of calls and then
stops.  That calls end is stated as liveness where anything can block.

Each module that is run states a type invariant, which no run names.  Those of `Dtm`,
`ScanChain`, `StreamWrites`, `UsbPipe`, `SystemBus`, `Triggers`, `Flash` and `RunControl`
are theorems; all hold under the configurations of the runs (add `TypeOK` to the
`INVARIANTS` line).

### Fairness

`Dtm`: the host thread goes on with its call (it never waits for anything but
its own USB exchange), and the module completes what it started.  `StreamWrites`:
both threads are scheduled, and a USB write ends, by its own timeout at the
latest.  `UsbPipe`: the caller, each reader and the device are scheduled; the
reader gives up only when the device is silent, which is what 25 empty reads in a
row mean.  `Flash`: the host goes on, its polls being bounded, and so does the stub,
except inside a ROM function that does not return ("stuck"), where no action of it
is enabled.  Nothing is assumed of the debugger's callers, nor of the hart in
`RunControl` and `Xtensa`, which claim safety alone.

## 4. What is proved

Each module named `..Proofs` proves theorems of its component for every value of the
constants that meets the assumptions the component states; what a theorem assumes
beyond them is named below.  Every run evaluates the assumptions of its module.
All invariants are proved in one pattern: `Init => Inv`, `Inv /\ [Next]_vars => Inv'`
with one step per action, `Inv => ` the property.

**`DtmProofs`**, for every set of registers and values, latency, number of retries, idle
hint and list of requests:

| theorem | statement | inductive invariant |
|---|---|---|
| `TypeCorrect` | `Spec => []TypeOK` | `TypeInv`: the types, and which kind of call is at which stage (`StageInv`); a call between scan and reset has tries left |
| `WriteOnce` | `Spec => []WriteStartedOnce` | `WriteInv`: a write that is still trying has no result yet; with `StageInv` that pins `accepted` to 0 until the scan that succeeds |
| `ReadFresh` | `Spec => []ReadIsFresh` | `FreshInv`: between the READ scan and its collection, as long as nothing is sticky, this call's READ is in flight or its data is in the output register and current (`Collected`) |
| `BatchExact` | `Spec => []CleanBatchIsExact` | `BatchInv`: as long as nothing is sticky, every request so far was started, the last is in flight, and each capture is what the request before it got |
| `PortImplemented` | `Spec => ImplementsPort`, where there are no batches | the four above, and that the output register is the sample of the read that runs |
| `PatientCalls` | `Patient` ⟹ `Spec => []NeverGivesUp` | `PatienceInv`: the hint has grown with the tries, and the idle cycles the module still needs and the tries made are together less than `Retries`; with it `TypeInv` |

`Patient` is the code's condition: no operation fails for good, and `MaxLatency` is no
longer than the settle time of the hint the last try has.  Without it the retries do run
out; within it each busy answer either shortens what is in flight by a whole scan or
grows the hint beyond it.

`FreshInv` is where the content is: `ReadIsFresh` speaks of the moment of return,
and what makes it true is that a busy or failed *first* scan stays visible, as a
sticky status, in the status of the *second*.  That is why `dmi_read` may ignore
the status of its READ scan, and the fast path the idle hint of today.  `DmiPort` has
single accesses only; a batch is several operations of the port in one call, and
`BatchExact` says of it what is to be said.

**`ScanChainProofs`**, for instruction, IDCODE and DMI registers of every length, every
table of positions 0 to 2 and every board the assumption allows:

| theorem | statement | inductive invariant |
|---|---|---|
| `TypesHold` | `Spec => []TypeOK` | `ShapeInv`: between Capture and Update the chain is as long as the registers on it, so that no clock shifts nothing out and no update finds too few bits |
| `StateTracked` | `Spec => []TracksDevice` | `WireInv`: what is on the wire is the rest of this session's stream; `TapInv`: the TAP state by the number of clocks sent |
| `LayoutFound` | `Spec => []LayoutMatchesChain` | `LayoutInv`, and `IdInv`: what was captured is the first bits of the IDCODEs, TDO side first, then zeros |
| `FieldDelivered` | `Spec => []FieldIsTargets` | `IrInv`: the target has DMI and the others BYPASS from Update-IR on; `DmiInv`: after k shifts the chain is what it captured, moved by k, with the word behind it; `IdInv` |
| `WholeWords` | `Spec => OnlyWholeWords` | the same, with the walk from Run-Test/Idle (`Clean`), which does not pass through Update-DR |

They are proved together, as `IInv`; none of its parts is inductive alone.  A clock moves
the bits by one place only because the TAP is in Shift, the TAP is in Shift because of the
nibbles sent so far, the nibbles are those of a stream that depends on `after` and
`before`, and these are right because an earlier session captured what `IdInv` says.  The
walks are computed in the proof: `Search` is unfolded round by round (`SearchRounds`), and
the five walks the sessions use come out as their TMS bits (`FromReset` to `FromIr`).  The
streams follow nibble by nibble (`IdNibbles`, `DmiNibbles`), and `IrDelivered`,
`DrSelected` and `IdAt` say what word stands where in a chain whose registers have
different lengths.  `IInv` is an invariant of the run's configuration too.

**`TransportProofs`**, of `StreamWrites`, for every number of bursts and every size of the queue:

| theorem | statement | inductive invariant |
|---|---|---|
| `StreamTypeCorrect` | `StreamSpec => []StreamTypeOK` | `StreamTypeInv`: the types; which thread is where (`StreamStage`); the None is the last item (`NoneLast`) |
| `StreamInOrder` | `StreamSpec => []InOrder` | `OrderInv`: shipped, in hand and queued are consecutive bursts up to the last one encoded |
| `StatusLast` | `StreamSpec => []StatusAfterStream` | the same: a writer that is over has shipped everything |
| `RaisesRightly` | `QueueSize < JoinTicks` ⟹ `StreamSpec => []RaisesOnlyOnUsbError` | `WaitInv`: in the join, the ticks waited and the bursts left are together no more than the queue holds |

The hypothesis of `RaisesRightly` is the code's: the join waits 10 s, the queue has four
places and a transfer ends within its time-out of 1 s.

and of `UsbPipe`, for operations and buffers of every size and every drain mode:

| theorem | statement | inductive invariant |
|---|---|---|
| `PipeTypeCorrect` | `Spec => []TypeOK` | `TypeInv`: the types, and which operation the caller and the readers are at |
| `CleanSession` | `Chunk <= InSize + OutSize` ⟹ `Spec => []CleanCaptures` | `CleanInv`: as long as nothing has failed, what was returned, what is buffered, what is in IN, in the device and in OUT are, in this order, the captures of this operation, and nothing else |
| `NothingRaisesClean` | under the same hypothesis `Spec => []NothingRaises` | the same |

The hypothesis says that a chunk that is written before anything is read fits in the
device: `_dmi_batch` limits it to 480 bits, and the two FIFOs hold 536
(`transport.py` 655-663, 778-779).

**`SystemBusProofs`**, for every size of memory, length of call and number of calls:

| theorem | statement | inductive invariant |
|---|---|---|
| `BusTypeCorrect` | `Spec => []TypeOK` | `VarsInv` |
| `OnlyTargets` | `Spec => []OnlyTargetWritten` | `TargetInv`: a write in progress on the bus goes to a word of the call that runs; that the next one will, `StreamInv` and `SingleInv` say |
| `WritesExactly` | `Spec => []WriteExact` | `StreamInv`, `ClosingInv`, `SingleInv`: after k accesses of the stream, of the closing batch or of the slow path, and with no error pending, the first words are written or being written (`WriteProgress`) |
| `ReadsExactly` | `Spec => []ReadExact` | `BatchInv`, `SingleInv`, `GotInv`: after k accesses the next word is in SBDATA0 or on its way, and the captures are the words before it |

They are proved together, as `BusInv`.  Progress is stated over the number of accesses
performed, since a stream of which some scan was dropped has performed fewer than it
sent, and what remains true of it is only that the sticky status says so.

**`TriggersProofs`**, for every number of triggers and handles, program and set of
watches, whatever styles the hardware accepts and whatever is left armed:

| theorem | statement | inductive invariant |
|---|---|---|
| `TriggersTypeCorrect` | `Spec => []TypeOK` | `VarsInv`, `HandlesInv` |
| `HandlesMatch` | `Spec => []HandlesMatchHart` | `HartInv`: the triggers of a handle are as it needs them, or all off after a step over that failed; `UnownedInv`: those of the table that are no handle's are off or the program's; `PendingInv`: what a step over is going to arm again is what is armed now |
| `NoMissed` | `Spec => NoMissedHit` | the same |
| `ResumeLeaves` | `MarksChain = FALSE`, two instructions or more ⟹ `Spec => ResumeLeavesHit` | `HitsInv`: the hit bits of a handle, and the hit that is pending, are those of the instruction the hart is at |

`HitsInv` is what fails on a hart that marks both halves of a chain (above).

**`FlashProofs`**, for every size of flash, sector, word, block, buffer and digest
command, every operation that lies within the flash, and every fault:

| theorem | statement | inductive invariant |
|---|---|---|
| `NothingLeft` | `Spec => []NothingLeftRunning` | `ControlInv`: which kind of operation is at which step; the stub runs only in the stub's steps or once abandoned |
| `GateIsFirst` | `Spec => GateFirst` | `ControlInv`: every step behind the gate, and a running stub, have the ROM's view set up |
| `ArrayImplemented` | `Spec => ImplementsArray` | `FlashInv`, below, and that there is no job before the first operation |
| `CleanRuns` | `Spec => CleanRunExact` | `Clean`, below, and `FlashInv` |
| `FlashTypeCorrect` | `Attempts >= 2` ⟹ `Spec => []TypeOK` | `FlashInv` and the bounds of the counters (the gate reads the id three times) |

`ArrayImplemented` rests on `FlashInv`, whose parts are: `JobInv` and `ListInv` (outside
the list of changed sectors the image is there already); `StepInv` (what the ROM's way
has in its buffer and has written so far); `MailInv` and `FlightInv` (the mailbox
between host and stub: which command is posted, half posted, taken or reported, that the
buffer of a command in flight holds the sector it is for, and that a QUIT posted over
a command takes nothing back); `DigestInv` (digests read back are those of the flash,
because nothing programs between their computation and their use); `EndInv` (a try that
has not failed posts its QUIT with the image in place and nothing under way).  It is the pipeline that
needs them: the host stages sector n+1 while the stub programs sector n, and what the
array does in the next step is decided by a buffer and a mailbox that were written some
steps before.

`CleanRuns` says more of less: without a verify nothing but the order of the steps puts
the image there.  Its invariant `Clean` holds as long as no call has gone wrong, and
faults are only counted up.  Its parts are: `CalmInv` (the stub has reported nothing, and
what is worked on is unlocked); `WholeInv` (`flash_write`: erased up to here, written up to
there, blank behind); `DoneInv` (each sector is on the list once; those that are not, and
those before the one that is worked on, hold the image); `ReadInv` (what the ROM's way
has read is what the flash holds); `AheadInv` (the command that was posted last, wherever
it is by now, is for the sector before the one the host stages, and is written when the
stub reports); `ExactInv` (a try that has not failed quits with the image in place).  The
first part of `DoneInv` is what the whole rests on: a sector that came twice would be erased after it had
been counted as written.

**`RunControlProofs`**, for every number of polls,
set of tools, number of calls of them, program and number of faults:

| theorem | statement | inductive invariant |
|---|---|---|
| `SavedAreKept` | `Spec => []CallKeepsSaved` | `CallAt`: how far the call is, by the accesses it has left, and what was read, saved, written and put back by then |
| `CalleeStaysIsolated` | `Spec => []CalleeIsolated` | `IsolatedInv`: registers that run the function are isolated, and still are when the command in progress has completed |
| `ReadIsThere` | `Spec => RegistersRead` | `Working`: what a batch, its check or a single access goes by, below |
| `ReadingLeavesRunning` | `Spec => ReadingRestores` | `BetweenInv`: what one call of a tool leaves to the next |
| `FreshProgramRuns` | `Spec => FromRomRuns` | the same: behind the reset of the chip the program is a fresh one, behind `_set_dcsr_ebreak` its ebreaks are on |
| `RunTypeCorrect` | `Spec => []TypeOK` | `TypeInv`: the types, and that a tool is at one of its calls |

They are proved together, as `RunInv` = `TypeInv`, `IsolatedInv`, `CodeInv`, `BetweenInv`
and `RaisedInv`.  None of the five is inductive by itself:

- `Working(P)` says of an access to the registers `P` that is next what has been done: a
  batch nothing; a check without an error has captured each read and written each
  register but for the last, which may be in progress; one command after the other has
  done those before it, and a wait without an error has its own in progress, or done
  with DATA0 to show for it.  A command that comes late finds either an error pending or
  itself still in progress, so what DATA0 held from before is never handed out.
- `CodeInv` says of each of the 19 calls which accesses it may have left and what holds
  then (`CallInv`): for `call_function`, `CallAt`; for `halt`, that once its poll has
  succeeded the hart is halted; for the resets, that the program is a fresh one.
- isolation needs the order of the writes: the setup writes the program counter last,
  the restore writes it first, so that whatever part of either has been done, there is
  no function to run or it runs isolated (`SetupSafe`, `SavedSafe`).  That is how an
  exception in the middle, after which `--info` resumes, does no harm.
- a call may rely on no command being in progress only if the one before it left none,
  which is what `BetweenInv` carries over, with the results `ok` and `wasRunning` that
  decide what is called next; after an exception nothing of it holds, and `RaisedInv`
  says that nothing is called then but the `resume` of `--info`.

**`XtensaProofs`**, for every register file, window, scratch register, program, set of
handlers and number of calls, with the two slots of the code:

| theorem | statement | inductive invariant |
|---|---|---|
| `SessionsAreSound` | `Spec => []SessionInv` | `SessionInv`, below |
| `ProgramStaysIntact` | `Spec => ProgramIntact` | `RestInv`: a core that rests outside a call has the program either in the registers, in the cache, or in both, as `ctx` says |
| `ResumesAreArmed` | `Spec => ArmedAtResume` | `SteadyInv`, `StepInv` |
| `StepsMoveOn` | `Spec => StepMovesOn` | `StepInv`, `CountInv` |
| `FunctionsRestore` | `Spec => FunctionRestored` | `SavedInv`: while a function is called, a register that nothing puts back is as it was when it was saved, or holds what the code left there |
| `LoadsAreSeen` | `Spec => LoadedImage` | none: every load writes the whole image |

The operators come first: what a fetch, a write-back, a change of the window and a single
access by way of the scratch register do to core and cache (`CacheFetch` to `Flush`), each
with what it leaves alone.  The difficulty is that none of them is what its name says: a
fetch changes the core, a write-back may find nothing dirty, and a3 of the live window is a
different register after the window has moved.  `Sound` states what such a sequence keeps:
wherever `ctx` claims the program to be, its registers, PC, PS, window and coprocessors are
there, dirty entries taken for the truth.  `SessionInv` has seven parts:

- `DataInv`: types; no register file stays dirty from one call to the next; DBREAKC is the
  same in core and cache unless it is dirty;
- `RestInv`: a halted core outside a call is `Sound`; called code runs only while the
  program counts as lost, so that nothing it leaves can be taken for the program's;
- `SteadyInv`: outside a step the cache has the watchpoints and no count;
- `StepInv`: the frames of a step in progress.  A frame that hides the watchpoints
  remembers those of the slots.  At most one frame does: a step begins to hide them only
  when the core has stopped on a watchpoint, for which one has to be armed, and behind a
  frame that hides them none is.  Otherwise an inner frame would put zeros back;
- `WaitInv`, `CallInv`: the backup that a wait or a call goes back to has the watchpoints
  and the program, and a function has changed no special register but those the call sets;
- `CountInv`: outside a step the instruction count is the same in core and cache.  Of the
  steps in progress only the one on top may have a count of its own, and the core either
  has that count loaded, one short of where it has to end, or has stopped on it.

`SessionInv` is an invariant of the run's configuration too.  The proof found one
statement wrong: `StepMovesOn` did not hold behind a step that had timed out, whose count
may still be running when the next step reads it; the run's bounds are too small to reach
that, larger ones show it.  It now says nothing of a session in which a step has timed out
(`blind`).  `CountInv` showed that the model's note of whom a count belongs to (`due`) was
wrong for a BREAK met in a window handler: it nests a step just as a watchpoint does.

`FunctionsRestore` follows a call from the registers that are saved to the stop on the
BREAK.  The special registers are put back by way of the scratch register, so what is put
back last matters: the window first, PC and PS after it, and the registers at the end.  A
windowed function saves all of them.  Behind a CALL0 function those above a7 are as the code
left them, the ones it did not use as they were, whatever scratch writes the call made.

`LoadsAreSeen` is about the layout alone, for every size of word, write and section.  Code
goes over the data bus, the core fetches it over the instruction bus, whose words run the
other way: `Backwards` says that what is written word by word downwards from a distance
that is a multiple of a word is fetched in order, `CodeWrite`, `TrampWrite` and `DataWrite`
that each write of the plan keeps to its part, and `WritesApart` that no two writes meet,
the padding of a last write included, so that their order does not matter.

Only model-checked: all liveness (outside the prover's reach, as is `ENABLED`), and of
`Xtensa` the type invariant and `AlgorithmRestored`, of which `SessionInv` has the part that
follows from the cache being `Sound`.  What a recursively
defined function computes for all inputs (`Tap!Search`) would need induction over data,
which the installed provers cannot instantiate; `Tap` is finite and evaluated completely
by TLC.  No module declares a RECURSIVE operator.

## 5. Findings and departures

Two runs end in a violation, each of a sentence of the repository (quoted in
`PROJECT.json`):

- a write stream longer than the queue blocks for ever in `q.put` when its writer
  thread dies (`stream_hang`);
- `call_function` does not leave the interrupted program byte-identical: the callee's
  t-registers and the a-registers it was given no argument in are not saved
  (`run_left`).

Further statements that the models show not to hold of the code are written down with
the properties of their module and are in no run; a cfg with the definition as its only
property shows each of them:

- `UsbPipe!OwnCaptures`: with the drain off, captures of an operation whose OUT
  transfer failed are returned by the next;
- `SystemBus!WriteNeverSilent`: `write_mem` looks only at the data of its closing
  batch; if that batch is busy, a bus error passes unreported;
- `Triggers!LeftOversGone`: a failed access that ends the enumeration leaves triggers of
  an earlier session armed, beyond a table that counts as complete;
- `Triggers!RemovedStaysRemoved`: a watchpoint removed while its hit is pending is
  armed again by `resume`;
- `Triggers!ResumeAlwaysLeaves`: with two handles on one instruction `resume` re-fires
  for ever;
- `RunControl!ReadNeverHalts`: a read tool that raises leaves the core halted;
- `Flash!VerifiedIsWritten`: a verification by a ROM read that fails compares the
  image with itself;
- `Flash!RewritesWhatItErases`: `flash_write` loses the words of its first and last
  sector that lie outside the range;
- `Xtensa!AlgorithmUndone`: `wait_algorithm` does not restore "the whole core_cache"
  (`xtensa.py` 1056).  It writes back what differs in the cache (1114), which does not know
  what the algorithm did to a register that was sent nothing, or the value it had.

The passing properties exclude exactly these, and the following departures; to see
one, strike its exclusion:

- `ReadExact` excludes `pending`: the busy branch of `read_mem` (`debug.py` 330)
  falls back to a path that checks no error, with one pending; all its words are
  stale.  It excludes `repeated`: a `dmi_read` of SBDATA0 that is retried skips a
  word, because its first READ has been performed.
- nothing is claimed of `write_mem32` after an error was left behind: the word is
  dropped without notice.
- the docstring of `read_mem` puts the words in slots 2+i; the code, rightly, takes
  3+i (`SlotsOfDocstring` is the mutant of `ReadExact`).
- the busy path of `dmi_write` leaves the caches of the old idle hint, where the
  docstring of `dmi_batch_cached` says they are dropped; `ReadFresh` shows that no
  read is wrong for it.
- `step` on an instruction that an armed trigger stops before returns True with
  nothing executed.  `HandlesMatchHart` excludes a failed step, which leaves its
  trigger off.
- `OnlyWholeWords` excludes sessions after a break: the reset walk passes through
  Update-DR and executes a half-shifted word.
- a batch whose scan was busy leaves `cmderr` set, and the first access of the slow
  path then raises for an error that is not its own (`BatchCheck`, `AbstractWait`).
- a program that stops by itself between `examine` and `halt` of a read tool is resumed
  away; `ReadingRestores` asks only that the tool's own halt is undone.
- `flash_incremental` with `erase="auto"`: if the sector reads back as the image after
  all, `next()` raises StopIteration (`SectorRead`).
- Xtensa: `xtensa_reg_set` does nothing when the cached value is the same, so with a
  stale cache a resume address never reaches the core, and IBREAKENABLE is not rewritten
  on every resume although the comment says so (`ctx = "lost"`).  The raw `resume()`
  after a fetch leaves a3 and CPENABLE as the fetch left them; a second fetch before a
  write-back takes that for the program's; a fetch drops a DBREAKC not yet flushed
  (`blind`); so does a step that times out, which leaves the count armed.
- Xtensa: in the handler loop of `do_step` a caller of `current=False` skips an
  instruction; a watchpoint or BREAK met in a handler nests a step that takes the count
  (`due = None`); a BREAK resumed without `handle_breakpoints` and an instruction
  breakpoint re-fire; an address of 0 is taken for none; two slots may hold one
  breakpoint.
- Xtensa: `wait_algorithm` reports a forced halt as success, and restores what differs in
  the cache, so an algorithm started without a fetch gets the stale cache back
  (`known`).  `AlgorithmRestored` says which registers come back and which do not; with
  the window at 0 for the algorithm, a program in another window loses the registers of
  window 0 that carried parameters, and a3 of it to the scratch writes.  It says nothing
  of a program that stood at the exit of the algorithm when it was started.  A CALL0
  function leaves a8 and up changed.

## 6. Not modelled

- *Partly modelled.*  Of the system bus, op-status 2 within a burst.  Of the triggers,
  trigger type 1 and register accesses that fail within an add (the hazard at `debug.py`
  1085).  Of the flash, `flash_info`, `flash_sfdp` (user commands over SPI1, which change
  no flash) and `flash_read_xip`.  Of the reset, the straps, waiting for the device and
  the ioctl of Linux.  Of the MCP server, `list_probes`, `idcode`, `diag` and the lookup
  of a probe, which change nothing.  Of the Xtensa core, `powerup`, the scans behind
  `nar_read` and `nar_write` and `xtensa_watchpoint_hit`.
- *Not modelled.*  `xtensa_stubs.py` (binary images), `xtensa_cache.py` (a port of the
  register cache that only its test uses), `chips.py` and `constants.py` (data; what
  matters enters as constants), the mocks, the command line but for `--info`, `scripts/`
  and `debris/` (tools around the library), logging and formatting.
