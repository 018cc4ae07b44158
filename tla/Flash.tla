-------------------------------- MODULE Flash --------------------------------
(***************************************************************************)
(* flash_write and flash_incremental of espjtag/debug.py, the way with the *)
(* ROM and the way with the stub, as the implementation of FlashArray.     *)
(***************************************************************************)
EXTENDS FlashStub

vars == <<base, stubVars>>

Init == BaseInit /\ StubInit

ByRom == RomNext /\ UNCHANGED stubVars

Next == ByRom \/ HostNext \/ StubNext

\* The host runs on; so does the hart, unless it is in a function that does not return.
Spec == Init /\ [][Next]_vars /\ WF_vars(ByRom \/ HostNext) /\ WF_vars(StubNext)
-----------------------------------------------------------------------------
TypeOK ==
  /\ flash \in [Addr -> Word] /\ \A b \in {"A", "B"} : buf[b] \in Seq(Word) /\ Len(buf[b]) = W
  /\ op = None <=> pc = "idle"
  /\ result \in {None, "ok", "raised", "abandoned"} /\ (result # None => op = None)
  /\ k \in 0..(Sectors * W) /\ attempt \in 0..Attempts /\ faults \in 0..MaxFaults
  /\ ToSet(changed) \subseteq 0..(Sectors - 1)
  /\ mail.cmd \in Commands \cup {"idle"} /\ mail.status \in 0..2

\* The job is over with the operation, unless that left the stub running.
JobOver == result \in {"ok", "raised"}
JobsOf(ops) == {[sectors |-> s, image |-> Image(o), verify |-> v] :
                  s \in SUBSET (0..(Sectors - 1)), o \in ops, v \in BOOLEAN}

ASSUME FlashAssumption == None \notin JobsOf(Ops)

\* Whatever fails, erase and program touch nothing but the sectors of the range that
\* are to change, with the words that belong there, and an operation that has verified
\* returns with the image in the flash, unless a read failed unseen: with the pipeline
\* of the stub, its two buffers, the shared mailbox word and commands cut short by QUIT.
Array == INSTANCE FlashArray WITH Jobs <- JobsOf(Ops),
  job <- IF JobOver THEN None ELSE job, outcome <- IF JobOver THEN result ELSE None
ImplementsArray == Array!Spec

\* The array is only changed when the ROM's view of the chip is set up, whatever the
\* gate had to try ("brick risk").
GateFirst == [][flash' # flash => configured]_vars

\* Without a fault the image is there, verified or not, and a protected chip is unlocked.
CleanRunExact ==
  [][result' = "ok" /\ result = None /\ faults' = 0
       => Array!Holds(flash', job)]_vars

\* An operation that ends, well or with an exception, leaves nothing running on the
\* hart: only an exception of stub_end itself, or of stub_begin, can.
NothingLeftRunning == result \in {"ok", "raised"} => stub.pc = "off"

\* Every operation ends, also when the ROM function the stub is in does not return.
OperationEnds == op # None ~> op = None

\* What comes back as verified is in the flash, with a ROM read that may fail.
\* Not so: the buffer still holds what was staged.
VerifiedIsWritten ==
  [][result' = "ok" /\ result = None /\ op.verify
       => Array!Holds(flash', job)]_vars

\* flash_write: "never erase what we won't rewrite".  Violated for the words of the
\* first and the last sector that lie outside the range.
RewritesWhatItErases ==
  [][\A a \in Addr : op # None /\ op.kind = "write" /\ flash'[a] # flash[a]
       => a \in DOMAIN job.image]_vars
===============================================================================
