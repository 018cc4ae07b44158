------------------------------- MODULE FlashRom -------------------------------
(***************************************************************************)
(* Programming with calls of the ROM, one halt and resume each: flash_write*)
(* of espjtag/debug.py, flash_incremental where it does not use the stub,  *)
(* and flash_write of espjtag/xtensa.py.  One action is one call of the    *)
(* ROM, with the staging before it and the decision after it.  A digest is *)
(* the contents it stands for: two different sectors have different ones.  *)
(***************************************************************************)
EXTENDS Spiflash

(***************************************************************************)
(* flash_write                                                             *)
(***************************************************************************)
\* spiflash_unlock, whose result is not looked at.
Unlocks(how) == protected' = (protected /\ how # "ok")

Unlock ==
  /\ At("unlock")
  /\ \E how \in Endings : Call(how) /\ Unlocks(how)
  /\ k' = FirstSector(op)
  /\ Goto("erase")
  /\ UNCHANGED <<flash, configured, silent, buf, attempt, crcs, changed>>

\* A block is erased where all its sectors are covered.
Whole(s) == s % BlockSectors = 0 /\ s + BlockSectors - 1 <= LastSector(op)

EraseNext ==
  /\ At("erase") /\ op.kind = "write"
  /\ LET these == IF Whole(k) THEN k..(k + BlockSectors - 1) ELSE {k}
         next  == IF Whole(k) THEN k + BlockSectors ELSE k + 1
     IN  \E how \in Endings :
           /\ Call(how)
           /\ flash' \in AfterErase(how, these)
           /\ IF how # "ok" THEN Return("raised")
              ELSE IF next <= LastSector(op)
              THEN k' = next /\ Goto("erase") /\ UNCHANGED <<attempt, crcs, changed>>
              ELSE k' = 0 /\ Goto("program") /\ UNCHANGED <<attempt, crcs, changed>>
  /\ UNCHANGED <<protected, configured, silent, buf>>

\* The chunk of the image that starts k words into it; none is longer than the buffer.
Chunk == SubSeq(op.data, k + 1, IF k + W < Len(op.data) THEN k + W ELSE Len(op.data))
NextChunk(label, then) ==
  IF k + W < Len(op.data)
  THEN k' = k + W /\ Goto(label) /\ UNCHANGED <<attempt, crcs, changed>>
  ELSE then

ProgramNext ==
  /\ At("program")
  /\ buf' = [buf EXCEPT !["A"] = Over(Chunk, @)]
  /\ \E how \in Endings :
       /\ Call(how)
       /\ flash' \in AfterProgram(how, op.at + k, Chunk)
       /\ IF how # "ok" THEN Return("raised")
          ELSE NextChunk("program",
                 IF op.verify
                 THEN k' = 0 /\ Goto("verify") /\ UNCHANGED <<attempt, crcs, changed>>
                 ELSE Return("ok"))
  /\ UNCHANGED <<protected, configured, silent>>

\* flash_read_rom and the comparison.
VerifyNext ==
  /\ At("verify") /\ op.kind = "write"
  /\ RomRead(op.at + k, Len(Chunk))
  /\ IF SubSeq(buf'["A"], 1, Len(Chunk)) # Chunk THEN Return("raised")
     ELSE NextChunk("verify", Return("ok"))
  /\ UNCHANGED <<flash, protected, configured, silent>>

(***************************************************************************)
(* flash_write of espjtag/xtensa.py: sector by sector, one read to verify. *)
(***************************************************************************)
\* An unlock that has not come back is still running when the first erase is called:
\* nothing of that call reaches the core, and the unlock's result is taken for its own.
Skips(how) == how = "skipped" /\ k = FirstSector(op) /\ protected' \in {protected, FALSE}
                /\ UNCHANGED flash

XtensaErase ==
  /\ At("erase") /\ op.kind = "xtensa"
  /\ \E how \in Endings \cup {"skipped"} :
       /\ Call(how)
       /\ \/ Skips(how)
          \/ how \in Endings /\ flash' \in AfterErase(how, {k}) /\ UNCHANGED protected
       /\ IF how \in {"error", "timeout"} THEN Return("raised")
          ELSE IF k < LastSector(op)
          THEN k' = k + 1 /\ Goto("erase") /\ UNCHANGED <<attempt, crcs, changed>>
          ELSE k' = 0 /\ Goto("program") /\ UNCHANGED <<attempt, crcs, changed>>
  /\ UNCHANGED <<configured, silent, buf>>

\* A read that fails unseen leaves what the buffer held: the image, or not.
XtensaVerify ==
  /\ At("verify") /\ op.kind = "xtensa"
  /\ \/ /\ UNCHANGED faults
        /\ Return(IF Content(op.at, Len(op.data)) = op.data THEN "ok" ELSE "raised")
     \/ /\ silent /\ Fault
        /\ \E how \in {"ok", "raised"} : Return(how)
  /\ UNCHANGED target

(***************************************************************************)
(* flash_incremental                                                       *)
(***************************************************************************)
\* _crc_host: the host's digest is matched to the ROM's; the buffer is put back.
Calibrate ==
  /\ At("calibrate")
  /\ k' = FirstSector(op)
  /\ Goto(IF UsesStub THEN "begin" ELSE "crc")
  /\ UNCHANGED <<target, attempt, crcs, changed, faults>>

Differing(digests) ==
  {s \in Covered(op) : digests[s - FirstSector(op) + 1] # ImageSector(op, s)}

\* A set of sectors, in ascending order.
Ascending(sectors) ==
  {seq \in [1..Cardinality(sectors) -> sectors] :
     /\ \A s \in sectors : \E i \in DOMAIN seq : seq[i] = s
     /\ \A i, j \in DOMAIN seq : i < j => seq[i] < seq[j]}

\* _flash_crc_many, one region: read, then digest what the buffer holds.
CrcNext ==
  /\ At("crc")
  /\ RomRead(k * W, W)
  /\ LET digests == Append(crcs, buf'["A"]) IN
     IF k < LastSector(op)
     THEN crcs' = digests /\ k' = k + 1 /\ Goto("crc") /\ UNCHANGED <<attempt, changed>>
     ELSE IF Differing(digests) = {} THEN Return("ok")
     ELSE /\ changed' \in Ascending(Differing(digests)) /\ crcs' = <<>> /\ k' = 1
          /\ Goto("sector") /\ UNCHANGED attempt
  /\ UNCHANGED <<flash, protected, configured, silent>>

This == changed[k]
Img == ImageSector(op, This)

\* erase = "auto" reads the sector back: in place if no bit has to be set.  A sector
\* that reads as the image has no differing word, and next() raises StopIteration.
SectorRead ==
  /\ At("sector")
  /\ IF op.auto
     THEN /\ RomRead(This * W, W)
          /\ LET cur == buf'["A"] IN
             IF \A i \in 1..W : Img[i] \subseteq cur[i]
             THEN IF cur = Img THEN Return("raised")
                  ELSE crcs' = cur /\ Goto("unlock run") /\ UNCHANGED <<k, attempt, changed>>
             ELSE Goto("stage") /\ UNCHANGED locals
     ELSE Goto("stage") /\ UNCHANGED <<locals, buf, faults>>
  /\ UNCHANGED <<flash, protected, configured, silent>>

UnlockRun ==
  /\ At("unlock run")
  /\ \E how \in Endings : Call(how) /\ Unlocks(how)
  /\ Goto("overwrite")
  /\ UNCHANGED <<flash, configured, silent, buf, locals>>

NextSector ==
  IF k < Len(changed)
  THEN k' = k + 1 /\ crcs' = <<>> /\ Goto("sector") /\ UNCHANGED <<attempt, changed>>
  ELSE IF op.verify
  THEN k' = 1 /\ crcs' = <<>> /\ Goto("crc verify") /\ UNCHANGED <<attempt, changed>>
  ELSE Return("ok")

\* The run of words from the first to the last that differ, programmed in place; a
\* result of None, of a call that did not come back, passes for success.
Overwrite ==
  /\ At("overwrite")
  /\ LET differ == {i \in 1..W : crcs[i] # Img[i]} IN
     \E w0, w1 \in differ :
       /\ \A i \in differ : w0 <= i /\ i <= w1
       /\ LET run == SubSeq(Img, w0, w1) IN
          /\ buf' = [buf EXCEPT !["A"] = Over(run, @)]
          /\ \E how \in Endings :
               /\ Call(how)
               /\ flash' \in AfterProgram(how, This * W + w0 - 1, run)
               /\ IF how = "error" THEN Return("raised") ELSE NextSector
  /\ UNCHANGED <<protected, configured, silent>>

\* Unlock, begin the erase, stage the sector while it runs.
StageSector ==
  /\ At("stage")
  /\ \E how \in Endings : Call(how) /\ Unlocks(how)
  /\ buf' = [buf EXCEPT !["A"] = Img]
  /\ Goto("erase ends")
  /\ UNCHANGED <<flash, configured, silent, locals>>

EraseEnds ==
  /\ At("erase ends")
  /\ \E how \in Endings :
       /\ Call(how)
       /\ flash' \in AfterErase(how, {This})
       /\ IF how = "error" THEN Return("raised") ELSE Goto("write") /\ UNCHANGED locals
  /\ UNCHANGED <<protected, configured, silent, buf>>

WriteSector ==
  /\ At("write")
  /\ \E how \in Endings :
       /\ Call(how)
       /\ flash' \in AfterProgram(how, This * W, buf["A"])
       /\ IF how = "error" THEN Return("raised") ELSE NextSector
  /\ UNCHANGED <<protected, configured, silent, buf>>

CrcVerify ==
  /\ At("crc verify")
  /\ RomRead(This * W, W)
  /\ IF buf'["A"] # Img THEN Return("raised")
     ELSE IF k < Len(changed)
     THEN k' = k + 1 /\ Goto("crc verify") /\ UNCHANGED <<attempt, crcs, changed>>
     ELSE Return("ok")
  /\ UNCHANGED <<flash, protected, configured, silent>>

RomNext ==
  \/ \E o \in Ops : Start(o)
  \/ GateRead \/ FlashInit \/ Raise
  \/ Unlock \/ EraseNext \/ ProgramNext \/ VerifyNext
  \/ XtensaErase \/ XtensaVerify
  \/ Calibrate \/ CrcNext \/ SectorRead \/ UnlockRun \/ Overwrite
  \/ StageSector \/ EraseEnds \/ WriteSector \/ CrcVerify
===============================================================================
