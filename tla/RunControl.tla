------------------------------ MODULE RunControl ------------------------------
(***************************************************************************)
(* Run control and abstract commands of espjtag/debug.py, the call of a    *)
(* function on the target and the two reset sequences, under the tools of  *)
(* espjtag/mcp_server.py and the --info action of espjtag/__main__.py that *)
(* use them.  A tool is a sequence of calls, a call a sequence of accesses *)
(* to the debug module; one action is one access (a batch is one), and the *)
(* hart moves between any two.  A register value is <<register, kind>>,    *)
(* the kind saying who put it there.                                       *)
(***************************************************************************)
EXTENDS Naturals, Sequences

CONSTANTS
  Polls,       \* polls of a wait before it gives up: 200, 256 or 4000
  Tools,       \* bound: the tools the client calls
  Programs,    \* bound: the programs interrupted, as <<masked, machine>>
  MaxTools,    \* bound: tools called
  MaxTroubles, \* bound: batches that overrun a busy DTM or a busy command, accesses
               \* that raise (USB error, DTM retries exhausted) and times the program
               \* stops by itself (breakpoint, watchpoint)
  None

ASSUME RunControlAssumption ==
  /\ Polls \in Nat \ {0}
  /\ {MaxTools, MaxTroubles} \subseteq Nat
  /\ Programs \subseteq BOOLEAN \X BOOLEAN
  /\ Tools \subseteq {"read_memory", "read_register", "probe", "halt", "resume", "write_register",
                     "write_memory", "reset_run", "reset_from_rom", "info"}

Regs == {"dpc", "dcsr", "mstatus", "ra", "sp", "a0", "t0", "s0"}
Kinds == {"app",     \* the interrupted program
          "call",    \* call_function
          "callee",  \* the function called
          "tool",    \* the client, through write_register
          "ebreak"}  \* _set_dcsr_ebreak
Value == {<<r, k>> : r \in Regs, k \in Kinds}

ASSUME NoneAssumption ==
  /\ None \notin Value /\ None \notin Tools
  /\ None \notin [tool : Tools, how : {"ok", "failed", "raised"}]

VARIABLES
  tool, step,     \* the tool that runs, or None, and the call of it that is next
  code,           \* accesses left of the call that runs
  polls,          \* polls of the wait that runs
  ok,             \* whether the last call reported success
  wasRunning,     \* local was_running of the tool
  vals,           \* what was read of each register, or None
  saved,          \* local saved of call_function, by register
  masked, machine,\* the program's own mstatus has MIE clear, its dcsr prv = 3 and ebreaks
  hart,           \* hart: "running", "halted" or "reset"
  cause,          \* hart: why it has halted last: "haltreq", "itself" or "trap"
  regs,           \* hart: its registers
  dm,             \* debug module: haltreq, ndmreset, resumeack, havereset
  abs,            \* debug module: busy, cmderr, the command in progress, DATA0
  trap,           \* target memory: the word at `trap` is an ebreak
  before,         \* history: the registers when call_function was entered, or None
                  \* when the hart was not halted then, which it requires
  report,         \* history: how the last tool ended
  tools, troubles

host == <<tool, step, code, polls, ok, wasRunning, vals, saved, report>>
device == <<hart, cause, regs, dm, abs, trap>>
bounds == <<tools, troubles>>
vars == <<host, device, masked, machine, before, bounds>>

(***************************************************************************)
(* The accesses calls are made of                                          *)
(***************************************************************************)
Write(bits) == [op |-> "write", bits |-> bits]        \* dmi_write(DMCONTROL, ..)
\* Poll DMSTATUS; `missed` is what follows when the polls run out.
Poll(until, missed) == [op |-> "poll", until |-> until, missed |-> missed]
Return(success) == [op |-> "return", success |-> success]
Memory(effect) == [op |-> "memory", effect |-> effect]
\* Registers read or written one after the other, as pairs <<register, value>> with value
\* None for a read; `at` is how far the first of them is: "command", "wait" or "data0".
Access(pairs, at) == [op |-> "access", pairs |-> pairs, at |-> at]
\* The same in one stream; all of a batch is reads, or all writes.
Batch(pairs) == [op |-> "batch", pairs |-> pairs]
Check(pairs, got, dirty) == [op |-> "check", pairs |-> pairs, got |-> got, dirty |-> dirty]
Setup(nargs) == [op |-> "setup", nargs |-> nargs]
Restore == [op |-> "restore"]
Enter == [op |-> "enter"]
DmStatus == [op |-> "status"]
StillHalted == [op |-> "halted"]
Lost == [op |-> "lost"]

Slowly(pairs) == Access(pairs, "command")
ReadRegister(r) == Slowly(<<<<r, None>>>>)
WriteRegister(r, v) == Slowly(<<<<r, v>>>>)

HaltCode ==
  <<Write({"haltreq", "dmactive"}), Poll("halted", <<Return(FALSE)>>),
    Write({"dmactive"}), Memory("none")>>             \* .. _wdt_disable

ResumeCode ==
  <<Write({"resumereq", "dmactive"}), Poll("running", <<Return(FALSE)>>),
    Write({"dmactive"})>>

ExamineCode == <<Write({"dmactive"}), DmStatus>>

(***************************************************************************)
(* call_function and _call_finish                                          *)
(***************************************************************************)
\* The registers that are saved: the fixed ones and one per argument.
SaveRegs(nargs) ==
  <<"dpc", "dcsr", "mstatus", "ra", "sp">> \o IF nargs > 0 THEN <<"a0">> ELSE <<>>

RestoreCode == <<Restore, Return(TRUE)>>

\* The callee did not trap: halt it, and put the registers back if that works.
ReHaltCode ==
  LET drop == <<Write({"dmactive"}), StillHalted, Restore, Return(FALSE)>>
  IN  <<Write({"haltreq", "dmactive"}), Poll("halted", drop)>> \o drop

FinishCode == <<Poll("halted", ReHaltCode), ReadRegister("a0")>> \o RestoreCode

GoCode ==
  LET drop == <<Write({"dmactive"})>> \o FinishCode
  IN  <<Write({"resumereq", "dmactive"}), Poll("acked", drop)>> \o drop

CallCode(nargs) ==
  LET save == SaveRegs(nargs)
  IN  <<Enter, Batch([i \in DOMAIN save |-> <<save[i], None>>]),
        Memory("trap"), Setup(nargs)>>

Set(r) == <<r, <<r, "call">>>>

\* Mutant of SetupPairs: the jump target is written before the rest.
SetupJumpFirst(nargs) ==
  <<Set("dpc"), Set("ra"), Set("sp")>> \o (IF nargs > 0 THEN <<Set("a0")>> ELSE <<>>)
    \o (IF machine THEN <<>> ELSE <<Set("dcsr")>>)
    \o (IF masked THEN <<>> ELSE <<Set("mstatus")>>)
\* What is written before the resume, in this order: the jump target last.
SetupPairs(nargs) ==
  <<Set("ra"), Set("sp")>> \o (IF nargs > 0 THEN <<Set("a0")>> ELSE <<>>)
    \o (IF machine THEN <<>> ELSE <<Set("dcsr")>>)
    \o (IF masked THEN <<>> ELSE <<Set("mstatus")>>)
    \o <<Set("dpc")>>

(***************************************************************************)
(* reset_run and reset_run_from_rom                                        *)
(***************************************************************************)
\* The host's side alone: the hart goes on as it was, while a transfer may fail.
UsbReset == <<Memory("none")>>
Reopen == <<Memory("none")>>

ResetCode ==
  <<Write({"dmactive"}), Write({"resumereq", "dmactive"}),
    Write({"haltreq", "ndmreset", "dmactive"}), Write({"haltreq", "dmactive"}),
    Write({"ackhavereset", "dmactive"}), Write({"resumereq", "dmactive"}), Write({})>>

SocResetCode ==
  <<Write({"haltreq", "dmactive"}), Memory("reset"), Write({}), Memory("reset"), Write({}),
    Write({"resumereq", "dmactive"}), Write({"resumereq", "dmactive"}),
    Write({"haltreq", "ndmreset", "dmactive"})>>

DeassertCode ==
  LET ack == <<Write({"ackhavereset", "dmactive"})>>
  IN  <<Write({"dmactive"}), Poll("left", ack)>> \o ack

HaltGoCode ==
  LET drop == <<Write({"dmactive"})>>
  IN  <<Write({"haltreq", "dmactive"}), Poll("not_running", drop)>> \o drop

SetEbreakCode == <<ReadRegister("dcsr"), WriteRegister("dcsr", <<"dcsr", "ebreak">>)>>

ResumeGoCode ==
  LET release(success) == <<Write({"dmactive"}), Write({}), Return(success)>>
  IN  <<Write({"resumereq", "dmactive"}), Poll("resumeack", release(FALSE))>> \o release(TRUE)

(***************************************************************************)
(* The tools, as sequences of calls                                        *)
(***************************************************************************)
\* Mutant of FromRomCalls: the ebreaks are turned on before the reset that clears them.
FromRomEbreakFirst ==
  <<"usb_reset", "reopen", "examine", "halt_go", "set_ebreak", "soc_reset", "deassert",
    "halt_go", "resume_go">>
FromRomCalls ==
  <<"usb_reset", "reopen", "examine", "soc_reset", "deassert", "halt_go", "set_ebreak",
    "resume_go">>

Reading == {"read_memory", "read_register", "probe"}

ReadCalls ==
  [read_memory   |-> <<"examine", "halt_if_running", "memory", "resume_if_running">>,
   read_register |-> <<"examine", "halt_if_running", "read", "resume_if_running">>,
   probe         |-> <<"examine", "halt_if_running", "read", "memory", "resume_if_running">>]
ControlCalls ==
  [halt           |-> <<"examine", "halt">>,
   resume         |-> <<"examine", "resume">>,
   write_register |-> <<"examine", "halt", "write", "read">>,
   write_memory   |-> <<"examine", "memory">>]
ResetCalls == [reset_run |-> <<"reset">>, reset_from_rom |-> FromRomCalls]
InfoCalls == [info |-> <<"examine", "halt_or_exit", "call_0", "call_1", "resume">>]
Calls(t) ==
  IF t \in DOMAIN ReadCalls THEN ReadCalls[t]
  ELSE IF t \in DOMAIN ControlCalls THEN ControlCalls[t]
  ELSE IF t \in DOMAIN ResetCalls THEN ResetCalls[t]
  ELSE InfoCalls[t]

\* Mutant of Needed: only a hart that is halted by then is resumed.
NeededIfHalted(call) ==
  /\ call \in {"halt_if_running", "resume_if_running"} => wasRunning
  /\ call = "resume_if_running" => hart = "halted"
Needed(call) ==
  call \in {"halt_if_running", "resume_if_running"} => wasRunning

CodeOf(call) ==
  CASE call = "examine" -> ExamineCode
    [] call \in {"halt", "halt_if_running", "halt_or_exit"} -> HaltCode
    [] call \in {"resume", "resume_if_running"} -> ResumeCode
    [] call = "memory" -> <<Memory("none")>>
    [] call = "read" -> <<ReadRegister("a0")>>
    [] call = "write" -> <<WriteRegister("a0", <<"a0", "tool">>)>>
    [] call = "reset" -> ResetCode
    [] call = "usb_reset" -> UsbReset
    [] call = "reopen" -> Reopen
    [] call = "soc_reset" -> SocResetCode
    [] call = "deassert" -> DeassertCode
    [] call = "halt_go" -> HaltGoCode
    [] call = "set_ebreak" -> SetEbreakCode
    [] call = "resume_go" -> ResumeGoCode
    [] call = "call_0" -> CallCode(0)
    [] call = "call_1" -> CallCode(1)

Trouble == troubles < MaxTroubles /\ troubles' = troubles + 1

Idle == tool = None
NoValues == [r \in Regs |-> None]
This == Calls(tool)[step - 1]      \* the call that runs
Calling == ~Idle /\ step > 1 /\ This \in {"call_0", "call_1"}
Next1 == Head(code)
Doing(op) == code # <<>> /\ Next1.op = op

StartTool(t) ==
  /\ Idle /\ tools < MaxTools
  /\ tools' = tools + 1
  /\ tool' = t /\ step' = 1 /\ report' = None
  /\ UNCHANGED <<code, polls, ok, wasRunning, vals, saved, device, masked, machine, before,
                 troubles>>

StartCall ==
  /\ ~Idle /\ code = <<>> /\ step <= Len(Calls(tool))
  /\ IF step > 1 /\ This = "halt_or_exit" /\ ~ok         \* --info: cannot query, return 1
     THEN step' = Len(Calls(tool)) + 1 /\ UNCHANGED <<code, ok>>
     ELSE /\ step' = step + 1
          /\ IF Needed(Calls(tool)[step])
             THEN code' = CodeOf(Calls(tool)[step]) /\ ok' = TRUE
             ELSE UNCHANGED <<code, ok>>
  /\ polls' = 0
  /\ UNCHANGED <<tool, wasRunning, vals, saved, report, device, masked, machine, before, bounds>>

EndTool ==
  /\ ~Idle /\ code = <<>> /\ step > Len(Calls(tool))
  /\ report' = IF report = None THEN [tool |-> tool, how |-> IF ok THEN "ok" ELSE "failed"]
               ELSE report
  /\ tool' = None /\ step' = 0                          \* the locals are gone
  /\ saved' = <<>> /\ vals' = NoValues /\ wasRunning' = FALSE /\ ok' = TRUE /\ before' = None
  /\ UNCHANGED <<code, polls, device, masked, machine, bounds>>

\* An exception: the --info action resumes in its finally, the other tools just end.
Raised ==
  /\ code' = <<>> /\ polls' = 0
  /\ report' = [tool |-> tool, how |-> "raised"]
  /\ step' = IF tool = "info" /\ step \in 4..5 THEN 5 ELSE Len(Calls(tool)) + 1
  /\ UNCHANGED <<tool, wasRunning, vals, saved, ok>>

\* Any access may raise, before it has had an effect.
Raise ==
  /\ code # <<>> /\ Next1.op \notin {"return", "setup", "enter", "restore", "lost"}
  /\ Trouble
  /\ Raised
  /\ UNCHANGED <<device, masked, machine, before, tools>>

(***************************************************************************)
(* The accesses                                                            *)
(***************************************************************************)
Proceed == code' = Tail(code) /\ polls' = 0
Beside == <<tool, step, report>>   \* what no access changes
Fixed == <<masked, machine, bounds>>

\* What a write of DMCONTROL does.  A halted hart obeys a resume request within the
\* round trip, and has completed a command by then; a halt request is obeyed when the
\* hart gets to it.
DmWrite ==
  /\ Doing("write") /\ ~abs.busy
  /\ LET bits == Next1.bits
         resumes == "resumereq" \in bits /\ "haltreq" \notin bits
     IN  /\ hart' = IF "ndmreset" \in bits THEN "reset"
                    ELSE IF resumes /\ hart = "halted" THEN "running" ELSE hart
         /\ dm' = [haltreq   |-> "haltreq" \in bits,
                   ndmreset  |-> "ndmreset" \in bits,
                   resumeack |-> IF resumes THEN hart = "halted" ELSE dm.resumeack,
                   havereset |-> dm.havereset /\ "ackhavereset" \notin bits]
         /\ abs' = IF "dmactive" \in bits THEN abs
                   ELSE [abs EXCEPT !.busy = FALSE, !.cmderr = 0]
  /\ Proceed
  /\ UNCHANGED <<Beside, ok, wasRunning, vals, saved, cause, regs, trap, before, Fixed>>

Seen(until) ==
  CASE until = "halted" -> hart = "halted"
    [] until = "running" -> hart = "running"
    [] until = "not_running" -> hart # "running"
    [] until = "acked" -> dm.resumeack \/ hart = "running"
    [] until = "resumeack" -> dm.resumeack
    [] until = "left" -> hart # "reset" \/ dm.havereset

\* _resume_go takes a hart that is unavailable for a failure, at once.
Failed(until) == until = "resumeack" /\ hart = "reset"

DmPoll ==
  /\ Doing("poll")
  /\ IF Failed(Next1.until) THEN polls' = 0 /\ code' = Next1.missed
     ELSE IF Seen(Next1.until) THEN Proceed
     ELSE IF polls + 1 < Polls THEN polls' = polls + 1 /\ UNCHANGED code
     ELSE polls' = 0 /\ code' = Next1.missed
  /\ UNCHANGED <<Beside, ok, wasRunning, vals, saved, device, before, Fixed>>

\* examine: acknowledge a reset, and remember whether the hart was halted.
Status ==
  /\ Doing("status")
  /\ wasRunning' = (hart # "halted")
  /\ code' = (IF dm.havereset THEN <<Write({"ackhavereset", "dmactive"})>> ELSE <<>>)
               \o Tail(code)
  /\ UNCHANGED <<Beside, polls, ok, vals, saved, device, before, Fixed>>

\* Memory accesses that matter here: the ebreak at the trap word, the reset registers.
MemoryAccess ==
  /\ Doing("memory")
  /\ trap' = (trap \/ Next1.effect = "trap")
  /\ hart' = IF Next1.effect = "reset" THEN "reset" ELSE hart
  /\ Proceed
  /\ UNCHANGED <<Beside, ok, wasRunning, vals, saved, cause, regs, dm, abs, before, Fixed>>

\* Local decisions of a call: its entry, its results, the branch on the hart's state.
Local ==
  /\ code # <<>>
  /\ \/ /\ Next1.op = "enter" /\ Proceed
        /\ before' = IF hart = "halted" THEN regs ELSE None
        /\ UNCHANGED <<ok, vals, saved, step>>
     \/ /\ Next1.op = "return" /\ Proceed /\ ok' = Next1.success
        /\ UNCHANGED <<vals, saved, before, step>>
     \/ /\ Next1.op = "setup"
        /\ saved' = LET save == SaveRegs(Next1.nargs)
                    IN  [i \in DOMAIN save |-> <<save[i], vals[save[i]]>>]
        /\ code' = <<Batch(SetupPairs(Next1.nargs))>> \o GoCode
        /\ UNCHANGED <<polls, ok, vals, before, step>>
     \/ /\ Next1.op = "restore" /\ code' = <<Batch(saved)>> \o Tail(code)
        /\ UNCHANGED <<polls, ok, vals, saved, before, step>>
     \/ /\ Next1.op = "halted"
        /\ code' = IF hart = "halted" THEN Tail(code) ELSE <<Lost>>
        /\ UNCHANGED <<polls, ok, vals, saved, before, step>>
     \/ /\ Next1.op = "lost" /\ Proceed /\ ok' = FALSE
        /\ UNCHANGED <<vals, saved, before, step>>
  /\ UNCHANGED <<tool, report, wasRunning, device, Fixed>>

\* The register access that runs, and what follows it.
At(stage) == Doing("access") /\ Next1.at = stage
Pair == Next1.pairs[1]
GoOn(stage) == code' = <<Access(Next1.pairs, stage)>> \o Tail(code)
NextPair ==
  code' = IF Len(Next1.pairs) = 1 THEN Tail(code)
          ELSE <<Slowly(Tail(Next1.pairs))>> \o Tail(code)

\* COMMAND: ignored with an error pending, refused while one runs or the hart does.
CommandWrite ==
  /\ At("command")
  /\ abs' = IF abs.cmderr # 0 THEN abs
            ELSE IF abs.busy THEN [abs EXCEPT !.cmderr = 1]
            ELSE IF hart # "halted" THEN [abs EXCEPT !.cmderr = 4]
            ELSE [abs EXCEPT !.busy = TRUE, !.pair = Pair]
  /\ vals' = IF Pair[2] = None THEN [vals EXCEPT ![Pair[1]] = None] ELSE vals
  /\ GoOn("wait") /\ polls' = 0
  /\ UNCHANGED <<Beside, ok, wasRunning, saved, hart, cause, regs, dm, trap, before, Fixed>>

\* _abstract_wait: an error is cleared, and raised; so is a command that stays busy.
AbstractWait ==
  /\ At("wait")
  /\ IF abs.busy /\ polls + 1 < Polls
     THEN polls' = polls + 1 /\ UNCHANGED <<Beside, code, ok, wasRunning, vals, saved, abs>>
     ELSE IF abs.busy \/ abs.cmderr # 0
     THEN /\ Raised
          /\ abs' = IF abs.busy THEN abs ELSE [abs EXCEPT !.cmderr = 0]
     ELSE /\ IF Pair[2] = None THEN GoOn("data0") ELSE NextPair
          /\ polls' = 0
          /\ UNCHANGED <<Beside, ok, wasRunning, vals, saved, abs>>
  /\ UNCHANGED <<hart, cause, regs, dm, trap, before, Fixed>>

DataRead ==
  /\ At("data0")
  /\ vals' = [vals EXCEPT ![Pair[1]] = abs.data0]
  /\ NextPair /\ polls' = 0
  /\ UNCHANGED <<Beside, ok, wasRunning, saved, device, before, Fixed>>

\* The registers after these writes, in order.
Written(pairs) ==
  [r \in Regs |->
     LET at == {i \in DOMAIN pairs : pairs[i][1] = r /\ pairs[i][2] # None}
     IN  IF at = {} THEN regs[r] ELSE pairs[CHOOSE i \in at : \A j \in at : j <= i][2]]

\* write_registers, read_registers: `done` commands complete; the next one may still
\* be in progress when DATA0 is touched (late), and the DTM may be busy from some scan
\* on (dirty), which drops the rest.
BatchRun ==
  /\ Doing("batch")
  /\ \E done \in 0..Len(Next1.pairs), late \in BOOLEAN, dirty \in BOOLEAN :
       LET pairs    == Next1.pairs
           accepts  == abs.cmderr = 0 /\ ~abs.busy /\ hart = "halted"
           trouble  == late \/ dirty
           touched  == done + 1 < Len(pairs) \/ pairs[1][2] = None
           after    == Written(SubSeq(pairs, 1, done))
           data     == IF done = 0 THEN abs.data0 ELSE after[pairs[done][1]]
           \* a read that has not completed captures what DATA0 holds from before
           got      == [i \in DOMAIN pairs |-> IF i <= done THEN regs[pairs[i][1]] ELSE data]
       IN  /\ ~accepts => done = 0 /\ ~late
           /\ accepts /\ ~trouble => done = Len(pairs)
           /\ late => done < Len(pairs)
           /\ IF trouble THEN Trouble ELSE UNCHANGED troubles
           /\ regs' = after
           /\ abs' = IF ~accepts
                     THEN [abs EXCEPT !.cmderr = IF @ # 0 THEN @ ELSE IF abs.busy THEN 1 ELSE 4]
                     ELSE IF late
                     THEN [abs EXCEPT !.busy = TRUE, !.pair = pairs[done + 1], !.data0 = data,
                                      !.cmderr = IF touched THEN 1 ELSE 0]
                     ELSE [abs EXCEPT !.data0 = data]
           /\ code' = <<Check(pairs, got, dirty)>> \o Tail(code)
  /\ polls' = 0
  /\ UNCHANGED <<Beside, ok, wasRunning, vals, saved, hart, cause, dm, trap, before,
                 masked, machine, tools>>

\* What the reads of the batch captured becomes the values read.
Captured(check) ==
  [r \in Regs |-> IF \E i \in DOMAIN check.pairs : check.pairs[i] = <<r, None>>
                  THEN check.got[CHOOSE i \in DOMAIN check.pairs : check.pairs[i] = <<r, None>>]
                  ELSE vals[r]]
Again == code' = <<Slowly(Next1.pairs)>> \o Tail(code) /\ polls' = 0 /\ UNCHANGED vals
Accept == Proceed /\ vals' = Captured(Next1)

\* Mutant of BatchCheck: a batch in which no scan was busy is taken.
BatchNotBusy ==
  /\ Doing("check")
  /\ IF Next1.dirty THEN Again ELSE Accept
  /\ UNCHANGED <<Beside, ok, wasRunning, saved, device, before, Fixed>>
\* Mutant of BatchCheck: a batch after which no command has failed is taken.
BatchNoError ==
  /\ Doing("check")
  /\ IF abs.busy \/ abs.cmderr # 0 THEN Again ELSE Accept
  /\ UNCHANGED <<Beside, ok, wasRunning, saved, device, before, Fixed>>
\* The batch counts when no scan was busy and no command failed; otherwise all of it is
\* done again one by one.  A busy scan settles it: the command status is not looked at.
BatchCheck ==
  /\ Doing("check")
  /\ IF Next1.dirty THEN Again /\ UNCHANGED abs
     ELSE IF abs.busy /\ polls + 1 < Polls
     THEN polls' = polls + 1 /\ UNCHANGED <<code, vals, abs>>
     ELSE IF abs.busy THEN Again /\ UNCHANGED abs
     ELSE IF abs.cmderr # 0 THEN Again /\ abs' = [abs EXCEPT !.cmderr = 0]
     ELSE Accept /\ UNCHANGED abs
  /\ UNCHANGED <<Beside, ok, wasRunning, saved, hart, cause, regs, dm, trap, before, Fixed>>

(***************************************************************************)
(* The hart                                                                *)
(***************************************************************************)
Program == regs["dpc"][2]
InCallee == Program \in {"call", "callee"}

\* An abstract command completes.
Exec ==
  /\ abs.busy
  /\ LET r == abs.pair[1]  v == abs.pair[2] IN
     /\ regs' = IF v = None THEN regs ELSE [regs EXCEPT ![r] = v]
     /\ abs' = [abs EXCEPT !.busy = FALSE, !.data0 = IF v = None THEN regs[r] ELSE v]
  /\ UNCHANGED <<host, hart, cause, dm, trap, before, Fixed>>

\* What the callee leaves in these registers.
Clobber(rs) == [r \in Regs |-> IF r \in rs \cup {"dpc"} THEN <<r, "callee">> ELSE regs[r]]

\* A halt request is obeyed: wherever the callee is, its own frame included.
HartHalts ==
  /\ hart = "running" /\ dm.haltreq
  /\ hart' = "halted" /\ cause' = "haltreq"
  /\ IF InCallee THEN \E rs \in {{"a0"}, {"ra", "sp", "a0", "t0", "s0"}} : regs' = Clobber(rs)
     ELSE UNCHANGED regs
  /\ UNCHANGED <<host, dm, abs, trap, before, Fixed>>

\* The callee returns into the ebreak, with its temporaries and its result changed.
CalleeTraps ==
  /\ hart = "running" /\ InCallee /\ trap
  /\ hart' = "halted" /\ cause' = "trap"
  /\ \E rs \in {{"a0"}, {"a0", "t0"}} : regs' = Clobber(rs)
  /\ UNCHANGED <<host, dm, abs, trap, before, Fixed>>

\* The program stops by itself.
ProgramStops ==
  /\ hart = "running" /\ ~InCallee
  /\ hart' = "halted" /\ cause' = "itself"
  /\ Trouble
  /\ UNCHANGED <<host, regs, dm, abs, trap, before, masked, machine, tools>>

\* Out of reset: a fresh program, halted if that was asked for.
LeaveReset ==
  /\ hart = "reset" /\ ~dm.ndmreset
  /\ hart' = IF dm.haltreq THEN "halted" ELSE "running"
  /\ cause' = IF dm.haltreq THEN "haltreq" ELSE cause
  /\ regs' = [r \in Regs |-> <<r, "app">>]
  /\ dm' = [dm EXCEPT !.havereset = TRUE]
  /\ trap' = FALSE
  /\ UNCHANGED <<host, abs, before, Fixed>>

Init ==
  /\ tool = None /\ step = 0 /\ code = <<>> /\ polls = 0 /\ ok = TRUE
  /\ wasRunning = FALSE /\ vals = NoValues /\ saved = <<>> /\ report = None
  /\ \E p \in Programs : masked = p[1] /\ machine = p[2]
  /\ hart \in {"running", "halted"} /\ cause = "itself"
  /\ regs = [r \in Regs |-> <<r, "app">>]
  /\ dm = [haltreq |-> FALSE, ndmreset |-> FALSE, resumeack |-> FALSE, havereset |-> FALSE]
  /\ abs = [busy |-> FALSE, cmderr |-> 0, pair |-> <<>>, data0 |-> <<"dpc", "tool">>]
  /\ trap = FALSE /\ before = None
  /\ tools = 0 /\ troubles = 0

Host ==
  \/ \E t \in Tools : StartTool(t)
  \/ StartCall \/ EndTool \/ Raise
  \/ DmWrite \/ DmPoll \/ Status \/ MemoryAccess \/ Local
  \/ CommandWrite \/ AbstractWait \/ DataRead \/ BatchRun \/ BatchCheck

Hart == Exec \/ HartHalts \/ CalleeTraps \/ ProgramStops \/ LeaveReset

Next == Host \/ Hart

Spec == Init /\ [][Next]_vars
-----------------------------------------------------------------------------
TypeOK ==
  /\ tool \in Tools \cup {None} /\ step \in 0..10 /\ polls \in 0..Polls
  /\ ok \in BOOLEAN /\ wasRunning \in BOOLEAN
  /\ hart \in {"running", "halted", "reset"} /\ cause \in {"haltreq", "itself", "trap"}
  /\ DOMAIN regs = Regs /\ \A r \in Regs : regs[r][1] = r /\ regs[r][2] \in Kinds
  /\ DOMAIN vals = Regs
  /\ abs.cmderr \in {0, 1, 4}

\* What read_register and read_registers hand out is in the register at that moment:
\* never what an earlier command left in DATA0, whatever ran late, was dropped or was
\* left over as an error.
RegistersRead ==
  [][\A r \in Regs : vals'[r] \notin {None, vals[r]} => vals'[r] = regs[r]]_vars

\* call_function returns with the hart halted and nothing asked of it, with the
\* registers it saves as they were at its entry, and, when it says so, with the result
\* of the function: also through a batch done twice, and after a time-out.
CallKeepsSaved ==
  Calling /\ Doing("return") /\ before # None =>
    /\ hart = "halted" /\ ~dm.haltreq
    /\ \A i \in DOMAIN saved : regs[saved[i][1]] = before[saved[i][1]]
    /\ Next1.success => vals["a0"] = <<"a0", "callee">>

\* While the hart runs the function, interrupts are masked, it is in machine mode with
\* the ebreaks on, and there is an ebreak to return to: also after an exception left the
\* call half set up and --info resumes the hart all the same.
CalleeIsolated ==
  hart = "running" /\ InCallee =>
    /\ trap
    /\ masked \/ regs["mstatus"] = <<"mstatus", "call">>
    /\ machine \/ regs["dcsr"] = <<"dcsr", "call">>

\* A tool that says it has only read leaves the hart as it was: running, unless the
\* program has stopped by itself, and with no halt request that would stop it later.
ReadingRestores ==
  [][\A t \in Reading : ~Idle /\ Idle' /\ report' = [tool |-> t, how |-> "ok"] /\ wasRunning
       => ~dm.haltreq /\ (hart = "halted" => cause # "haltreq")]_vars

\* reset_run_from_rom returns True only of a fresh program that runs with its ebreaks on.
FromRomRuns ==
  [][~Idle /\ Idle' /\ report' = [tool |-> "reset_from_rom", how |-> "ok"]
       => \/ hart = "halted" /\ cause # "haltreq"
          \/ hart = "running" /\ regs["dcsr"][2] = "ebreak"]_vars

\* call_function: "We SAVE and RESTORE every register we clobber (a0..aN, sp=x2, ra=x1,
\* dpc, dcsr) so the interrupted app is left byte-identical and can resume cleanly."
\* Not so: the callee's other temporaries are its own.
LeftIdentical ==
  Calling /\ Doing("return") /\ before # None => regs = before

\* mcp_server: "a *read* must not leave the core halted".  Not so after an exception.
ReadNeverHalts ==
  [][Idle' /\ tool \in Reading /\ wasRunning
       => ~dm.haltreq /\ (hart = "halted" => cause # "haltreq")]_vars
=============================================================================
