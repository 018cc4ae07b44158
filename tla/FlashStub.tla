------------------------------- MODULE FlashStub -------------------------------
(***************************************************************************)
(* _flash_incremental_stub of espjtag/debug.py and stub/stub.c: the hart   *)
(* runs a loop that takes commands from a mailbox, and the host, which     *)
(* reaches memory beside it, stages the next sector while it works on the  *)
(* last.  One action of the host is one access of the system bus (the      *)
(* staging of a sector is one), one of the stub a ROM call or a word.      *)
(***************************************************************************)
EXTENDS FlashRom

CONSTANT CrcMax   \* sectors one command digests: 64

ASSUME FlashStubAssumption == CrcMax \in Nat \ {0}

VARIABLES
  mail,     \* mailbox: cmd, status, args: m2 (digest start value, error), at, count, buf
  crcOut,   \* the digests
  stub,     \* the hart: pc, and the locals of the command that runs
  pend,     \* host: the command being posted, and where it goes then
  after,    \* host: where it goes when the command is done
  verifying, failed

stubVars == <<mail, crcOut, stub, pend, after, verifying, failed>>

CRC_INIT == 9
Nothing == "nothing"   \* a zero in the mailbox
Commands == {"crc", "program", "quit"}
NoArgs == [m2 |-> 0, at |-> 0, count |-> 0, buf |-> Nothing]
NoMail == [cmd |-> "idle", status |-> 0, args |-> NoArgs]
Off == [pc |-> "off", cmd |-> "idle", args |-> NoArgs, s |-> 0, err |-> 0]

Host == <<op, pc, locals, job, result, pend, after, verifying, failed>>

(***************************************************************************)
(* The host                                                                *)
(***************************************************************************)
\* stub_begin: code and mailbox are written and the hart is sent there.
StubBegin ==
  /\ At("begin")
  /\ mail' = NoMail
  /\ stub' = [Off EXCEPT !.pc = "poll"]
  /\ Goto("diff")
  /\ UNCHANGED <<target, locals, faults, crcOut, pend, after, verifying, failed>>

\* .. or raises: before the hart runs, or after.
StubBeginRaises ==
  /\ At("begin")
  /\ Fault
  /\ \/ Return("raised") /\ UNCHANGED stub
     \/ Return("abandoned") /\ stub' = [Off EXCEPT !.pc = "poll"]
  /\ mail' = NoMail
  /\ UNCHANGED <<target, crcOut, pend, after, verifying, failed>>

\* _stub_post: status and arguments, and then the command word.  Assumed: the stub, which
\* polls every few cycles, has taken one command before the host's next access: were it
\* not so, the zeros QUIT posts would become the arguments of a command not yet taken.
PostArgs ==
  /\ At("args") /\ mail.cmd = "idle"
  /\ mail' = [mail EXCEPT !.status = 0, !.args = pend.args]
  /\ Goto("cmd")
  /\ UNCHANGED <<target, locals, faults, crcOut, stub, pend, after, verifying, failed>>

PostCmd ==
  /\ At("cmd")
  /\ mail' = [mail EXCEPT !.cmd = pend.cmd]
  /\ Goto(pend.then)
  /\ UNCHANGED <<target, locals, faults, crcOut, stub, pend, after, verifying, failed>>

Post(cmd, args, then) ==
  /\ pend' = [cmd |-> cmd, args |-> args, then |-> then]
  /\ Goto("args")

\* The finally: QUIT is posted whatever the stub is doing.
Quit(bad) == failed' = bad /\ Post("quit", NoArgs, "trap")

Wait ==
  /\ At("wait")
  /\ mail.status # 0
  /\ IF mail.status = 1 THEN Goto(after) /\ UNCHANGED <<pend, failed>> ELSE Quit(TRUE)
  /\ UNCHANGED <<target, locals, faults, mail, crcOut, stub, after, verifying>>

\* Mutant of WaitExpires: the polls never run out.
WaitGoesOn ==
  /\ At("wait")
  /\ mail.status = 0
  /\ UNCHANGED <<base, stubVars>>
\* The polls run out: the ROM function does not come back, or is very slow.
WaitExpires ==
  /\ At("wait")
  /\ mail.status = 0
  /\ IF stub.pc = "stuck" THEN UNCHANGED faults ELSE Fault
  /\ Quit(TRUE)
  /\ UNCHANGED <<target, locals, mail, crcOut, stub, after, verifying>>

\* An access within the try raises.
TryRaises ==
  /\ op # None /\ pc \in {"diff", "digests", "stage next", "post", "wait", "verified"}
                         \cup (IF At("args") /\ pend.cmd # "quit" THEN {"args"} ELSE {})
                         \cup (IF At("cmd") /\ pend.cmd # "quit" THEN {"cmd"} ELSE {})
  /\ Fault
  /\ Quit(TRUE)
  /\ UNCHANGED <<target, locals, mail, crcOut, stub, after, verifying>>

\* One within stub_end: nobody stops the stub.
EndRaises ==
  /\ op # None
  /\ pc = "trap" \/ (pc \in {"args", "cmd"} /\ pend.cmd = "quit")
  /\ Fault
  /\ Return("abandoned")
  /\ UNCHANGED <<target, mail, crcOut, stub, pend, after, verifying, failed>>

\* Sectors of the range that is digested now, from sector k on.
Range1 == IF k + CrcMax <= LastSector(op) + 1 THEN CrcMax ELSE LastSector(op) + 1 - k

DiffRange ==
  /\ At("diff")
  /\ Post("crc", [m2 |-> CRC_INIT, at |-> k, count |-> Range1, buf |-> "A"], "wait")
  /\ after' = "digests"
  /\ UNCHANGED <<target, locals, faults, mail, crcOut, stub, verifying, failed>>

Matches(digest, s) == digest = <<CRC_INIT, ImageSector(op, s)>>

Digests ==
  /\ At("digests")
  /\ LET all  == crcs \o SubSeq(crcOut, 1, Range1)
         bad  == {s \in Covered(op) : ~Matches(all[s - FirstSector(op) + 1], s)}
     IN  IF k + Range1 <= LastSector(op)
         THEN /\ crcs' = all /\ k' = k + Range1 /\ Goto("diff")
              /\ UNCHANGED <<attempt, changed, pend, failed>>
         ELSE IF verifying
         THEN /\ Quit(\E i \in DOMAIN changed : changed[i] \in bad)
              /\ UNCHANGED locals
         ELSE IF bad = {} THEN Quit(FALSE) /\ UNCHANGED locals
         ELSE /\ changed' \in Ascending(bad) /\ crcs' = <<>> /\ k' = 1
              /\ Goto("stage next") /\ UNCHANGED <<attempt, pend, failed>>
  /\ UNCHANGED <<target, faults, mail, crcOut, stub, after, verifying>>

\* Mutant of Buffer: one buffer for all.
OneBuffer(i) == "A"
Buffer(i) == IF i % 2 = 1 THEN "A" ELSE "B"

\* Sector k is staged while the stub works on the one before, and posted when it is done.
StageNext ==
  /\ At("stage next")
  /\ buf' = [buf EXCEPT ![Buffer(k)] = Img]
  /\ IF k > 1 THEN Goto("wait") /\ after' = "post" ELSE Goto("post") /\ UNCHANGED after
  /\ UNCHANGED <<flash, protected, configured, silent, locals, faults, mail, crcOut, stub, pend,
                 verifying, failed>>

PostSector ==
  /\ At("post")
  /\ Post("program", [NoArgs EXCEPT !.at = This, !.buf = Buffer(k)],
          IF k < Len(changed) THEN "stage next" ELSE "wait")
  /\ k' = IF k < Len(changed) THEN k + 1 ELSE k
  /\ after' = "verified"
  /\ UNCHANGED <<target, attempt, crcs, changed, faults, mail, crcOut, stub, verifying, failed>>

AllPosted ==
  /\ At("verified")
  /\ IF op.verify
     THEN verifying' = TRUE /\ k' = FirstSector(op) /\ Goto("diff") /\ UNCHANGED <<pend, failed>>
     ELSE Quit(FALSE) /\ UNCHANGED <<verifying, k>>
  /\ UNCHANGED <<target, attempt, crcs, changed, faults, mail, crcOut, stub, after>>

\* _call_finish: the hart is back in debug mode, or is halted where it is.
Trapped ==
  /\ At("trap") /\ stub.pc = "off"
  /\ Return(IF failed THEN "raised" ELSE "ok")
  /\ UNCHANGED <<target, faults, mail, crcOut, stub, pend, after, verifying, failed>>

\* Mutant of TrapExpires: the hart is left running.
TrapExpiresRunning ==
  /\ At("trap") /\ stub.pc # "off"
  /\ IF stub.pc = "stuck" THEN UNCHANGED faults ELSE Fault
  /\ Return("raised")
  /\ UNCHANGED <<target, mail, crcOut, stub, pend, after, verifying, failed>>
TrapExpires ==
  /\ At("trap") /\ stub.pc # "off"
  /\ IF stub.pc = "stuck" THEN UNCHANGED faults ELSE Fault
  /\ stub' = Off
  /\ Return("raised")
  /\ UNCHANGED <<target, mail, crcOut, pend, after, verifying, failed>>

HostNext ==
  \/ StubBegin \/ StubBeginRaises \/ PostArgs \/ PostCmd \/ Wait \/ WaitExpires
  \/ TryRaises \/ EndRaises \/ DiffRange \/ Digests \/ StageNext \/ PostSector
  \/ AllPosted \/ Trapped \/ TrapExpires

(***************************************************************************)
(* The stub                                                                *)
(***************************************************************************)
Running(label) == stub.pc = label
Step(label) == stub' = [stub EXCEPT !.pc = label]
StubRest == <<Host, configured, silent>>

\* The command is taken out of the mailbox with its arguments; QUIT returns.
Fetch ==
  /\ Running("poll") /\ mail.cmd # "idle"
  /\ IF mail.cmd = "quit"
     THEN mail' = [mail EXCEPT !.cmd = "idle", !.status = 1] /\ stub' = Off
     ELSE /\ mail' = [mail EXCEPT !.cmd = "idle"]
          /\ stub' = [pc |-> IF mail.cmd = "crc" THEN "crc" ELSE "unlock", cmd |-> mail.cmd,
                      args |-> mail.args, s |-> 0, err |-> 0]
  /\ UNCHANGED <<flash, protected, buf, crcOut, faults, StubRest>>

\* A ROM call of the stub: it works, it returns an error, or it does not return.
RomCall(how) == IF how = "ok" THEN UNCHANGED faults ELSE Fault
Failed(how) ==
  stub' = [stub EXCEPT !.pc = IF how = "timeout" THEN "stuck" ELSE "report",
                       !.err = IF how = "timeout" THEN 0 ELSE 1]

\* One sector: read into the buffer, digest.
CrcSector ==
  /\ Running("crc")
  /\ IF stub.s = stub.args.count
     THEN Step("report") /\ UNCHANGED <<buf, crcOut, faults>>
     ELSE \E how \in Endings :
            /\ RomCall(how)
            /\ IF how = "ok"
               THEN /\ buf' = [buf EXCEPT ![stub.args.buf] = Sector(stub.args.at + stub.s)]
                    /\ crcOut' = [crcOut EXCEPT ![stub.s + 1] =
                                    <<stub.args.m2, Sector(stub.args.at + stub.s)>>]
                    /\ stub' = [stub EXCEPT !.s = @ + 1]
               ELSE Failed(how) /\ UNCHANGED <<buf, crcOut>>
  /\ UNCHANGED <<flash, protected, mail, StubRest>>

StubUnlock ==
  /\ Running("unlock")
  /\ \E how \in Endings :
       /\ RomCall(how)
       /\ IF how = "ok" THEN protected' = FALSE /\ Step("erase")
          ELSE Failed(how) /\ UNCHANGED protected
  /\ UNCHANGED <<flash, buf, crcOut, mail, StubRest>>

StubErase ==
  /\ Running("erase")
  /\ \E how \in Endings :
       /\ RomCall(how)
       /\ flash' \in AfterErase(how, {stub.args.at})
       /\ IF how = "ok" THEN Step("write") ELSE Failed(how)
  /\ UNCHANGED <<protected, buf, crcOut, mail, StubRest>>

StubWrite ==
  /\ Running("write")
  /\ \E how \in Endings :
       /\ RomCall(how)
       /\ flash' \in AfterProgram(how, stub.args.at * W, buf[stub.args.buf])
       /\ IF how = "ok" THEN Step("report") ELSE Failed(how)
  /\ UNCHANGED <<protected, buf, crcOut, mail, StubRest>>

\* Mutant of ReportOrder: the status is set before the error word is written.
StatusFirst == <<"status", "m2">>
\* m[2], which held the start value of the digest, takes the error.
ReportOrder == <<"m2", "status">>
Reported(word) ==
  CASE word = "m2" -> [mail EXCEPT !.args = [@ EXCEPT !.m2 = stub.err]]
    [] word = "status" -> [mail EXCEPT !.status = IF stub.err = 0 THEN 1 ELSE 2]

ReportErr ==
  /\ Running("report")
  /\ mail' = Reported(ReportOrder[1])
  /\ Step("reported")
  /\ UNCHANGED <<flash, protected, buf, crcOut, faults, StubRest>>

ReportStatus ==
  /\ Running("reported")
  /\ mail' = Reported(ReportOrder[2])
  /\ stub' = [Off EXCEPT !.pc = "poll"]
  /\ UNCHANGED <<flash, protected, buf, crcOut, faults, StubRest>>

StubNext ==
  \/ Fetch \/ CrcSector \/ StubUnlock \/ StubErase \/ StubWrite \/ ReportErr \/ ReportStatus

StubInit ==
  /\ mail = NoMail
  /\ crcOut = [i \in 1..CrcMax |-> <<>>]
  /\ stub = Off
  /\ pend = [cmd |-> "quit", args |-> NoArgs, then |-> "trap"]
  /\ after = "idle" /\ verifying = FALSE /\ failed = FALSE
===============================================================================
