------------------------------- MODULE Spiflash -------------------------------
(***************************************************************************)
(* The target of a flash operation of espjtag/debug.py or espjtag/xtensa.py*)
(* and what the ways of programming share: the array, the scratch buffers, *)
(* the gate every operation passes (_rom_flash_ready) and how one ends.    *)
(* The esp_rom_spiflash_* functions are those of the chip's ROM: they      *)
(* return 0, an error, or never ("timeout": the hart is halted midway).    *)
(***************************************************************************)
EXTENDS Naturals, Sequences, SequencesExt

CONSTANTS
  Sectors, W, Bits,   \* sectors of the flash, words of a sector, bits of a word
  BlockSectors,       \* sectors of an erase block: 16
  Attempts,           \* readings of the gate: 3
  FlashInits,         \* bound: contents the flash starts with
  Ops,                \* bound: operations, records kind, at, data, verify, auto, stub
  MaxFaults,          \* bound: ROM calls and accesses that do not go well
  None

Addr == 0..(Sectors * W - 1)
Word == SUBSET Bits
SectorOf(a) == a \div W

\* flash_incremental fills the last sector up with 0xFF.
Padded(o) ==
  IF o.kind # "incremental" \/ (Len(o.data) % W) = 0 THEN o.data
  ELSE o.data \o [i \in 1..(W - (Len(o.data) % W)) |-> Bits]

\* Operations with something to write, within the flash; flash_incremental begins at a
\* sector, or raises at once.
ASSUME SpiflashAssumption ==
  /\ {Sectors, W, BlockSectors, Attempts} \subseteq Nat \ {0} /\ MaxFaults \in Nat
  /\ FlashInits \subseteq [Addr -> Word]
  /\ \A o \in Ops :
       /\ o.kind \in {"write", "incremental", "xtensa"} /\ {o.verify, o.auto, o.stub} \subseteq BOOLEAN
       /\ o.at \in Addr /\ o.data \in Seq(Word) \ {<<>>} /\ o.at + Len(Padded(o)) <= Sectors * W
       /\ o.kind = "incremental" => o.at % W = 0
  /\ None \notin Ops /\ None \notin {"ok", "raised", "abandoned"}

VARIABLES
  flash,      \* the array, a word an address
  protected,  \* whether it is write-protected: erase and program then do nothing
  configured, \* whether the ROM's view of the chip is set up
  silent,     \* whether a ROM read may fail where nobody looks at its result
  buf,        \* scratch memory: the staging buffers "A" and "B"
  op, pc,     \* the operation that runs, or None, and where it is
  k, attempt, crcs, changed,  \* its locals
  job,        \* history: what the operation is to do, or None
  result,     \* history: "ok", "raised" or "abandoned" (with the stub running)
  faults

target == <<flash, protected, configured, silent, buf>>
locals == <<k, attempt, crcs, changed>>
base == <<target, op, pc, locals, job, result, faults>>

Fault == faults < MaxFaults /\ faults' = faults + 1
\* How a ROM call ends; anything but "ok" is a fault.
Call(how) == IF how = "ok" THEN UNCHANGED faults ELSE Fault
Endings == {"ok", "error", "timeout"}

Content(at, n) == [i \in 1..n |-> flash[at + i - 1]]
Sector(s) == Content(s * W, W)
Over(words, old) == [i \in 1..W |-> IF i <= Len(words) THEN words[i] ELSE old[i]]

Erased(sectors) ==
  IF protected THEN flash
  ELSE [a \in Addr |-> IF SectorOf(a) \in sectors THEN Bits ELSE flash[a]]
Programmed(at, words) ==
  IF protected THEN flash
  ELSE [a \in Addr |-> IF a - at + 1 \in DOMAIN words /\ a >= at
                       THEN flash[a] \cap words[a - at + 1] ELSE flash[a]]

\* What the array may be after such a call of the ROM.
AfterErase(how, sectors) ==
  CASE how = "ok" -> {Erased(sectors)}
    [] how = "error" -> {flash}
    [] how = "timeout" -> {flash, Erased(sectors)}
AfterProgram(how, at, words) ==
  CASE how = "ok" -> {Programmed(at, words)}
    [] how = "error" -> {flash}
    [] how = "timeout" -> {Programmed(at, SubSeq(words, 1, n)) : n \in 0..Len(words)}

\* spiflash_read into the buffer: one that fails leaves it as it was.
RomRead(at, n) ==
  \/ UNCHANGED faults /\ buf' = [buf EXCEPT !["A"] = Over(Content(at, n), @)]
  \/ silent /\ Fault /\ UNCHANGED buf

(***************************************************************************)
(* An operation: its image, and the sectors it is to change                *)
(***************************************************************************)
Image(o) ==
  LET words == Padded(o) IN [a \in o.at..(o.at + Len(words) - 1) |-> words[a - o.at + 1]]
FirstSector(o) == SectorOf(o.at)
LastSector(o) == SectorOf(o.at + Len(Padded(o)) - 1)
ImageSector(o, s) == [i \in 1..W |-> Image(o)[s * W + i - 1]]
Covered(o) == FirstSector(o)..LastSector(o)
ToChange(o) == IF o.kind # "incremental" THEN Covered(o)
               ELSE {s \in Covered(o) : Sector(s) # ImageSector(o, s)}

UsesStub == op.kind = "incremental" /\ ~op.auto /\ op.stub
At(label) == op # None /\ pc = label
NoLocals == k' = 0 /\ attempt' = 0 /\ crcs' = <<>> /\ changed' = <<>>

Return(how) == op' = None /\ pc' = "idle" /\ result' = how /\ NoLocals /\ UNCHANGED job
Goto(label) == pc' = label /\ UNCHANGED <<op, job, result>>

Start(o) ==
  /\ op = None /\ result = None
  /\ op' = o
  /\ job' = [sectors |-> IF silent THEN Covered(o) ELSE ToChange(o), image |-> Image(o),
             verify |-> o.verify /\ ~silent]
  /\ pc' = "gate" /\ attempt' = 1
  /\ UNCHANGED <<target, k, crcs, changed, result, faults>>

\* The Xtensa way reads once more after one flash_init.
Readings == IF op.kind = "xtensa" THEN 2 ELSE Attempts

\* Mutant of GateRead: the last reading is not looked at.
GateReadTries ==
  /\ At("gate")
  /\ \E how \in Endings :
       /\ Call(how)
       /\ IF (how = "ok" /\ configured) \/ attempt = Readings
          THEN Goto(IF op.kind = "incremental" THEN "calibrate" ELSE "unlock")
          ELSE Goto("init")
  /\ UNCHANGED <<target, locals>>
\* _rom_flash_ready: the bootloader's magic, read through the ROM; the scratch words
\* are put back.
GateRead ==
  /\ At("gate")
  /\ \E how \in Endings :
       /\ Call(how)
       /\ IF how = "ok" /\ configured
          THEN Goto(IF op.kind = "incremental" THEN "calibrate" ELSE "unlock") /\ UNCHANGED locals
          ELSE IF attempt < Readings THEN Goto("init") /\ UNCHANGED locals
          ELSE Return("raised")
  /\ UNCHANGED target

\* flash_init, whose result is not looked at: it may have to be done again.
FlashInit ==
  /\ At("init")
  /\ configured' \in {configured, TRUE}
  /\ attempt' = attempt + 1
  /\ Goto("gate")
  /\ UNCHANGED <<flash, protected, silent, buf, k, crcs, changed, faults>>

\* An access that raises, outside the stub's try: the operation just ends.
Raise ==
  /\ op # None /\ pc \in {"gate", "init", "unlock", "erase", "program", "verify", "calibrate",
                          "crc", "sector", "unlock run", "overwrite", "stage", "erase ends", "write",
                          "crc verify"}
  /\ Fault
  /\ Return("raised")
  /\ UNCHANGED target

BaseInit ==
  /\ flash \in FlashInits /\ protected \in BOOLEAN /\ configured \in BOOLEAN /\ silent \in BOOLEAN
  /\ buf = [b \in {"A", "B"} |-> [i \in 1..W |-> {}]]
  /\ op = None /\ pc = "idle" /\ job = None /\ result = None /\ faults = 0
  /\ k = 0 /\ attempt = 0 /\ crcs = <<>> /\ changed = <<>>
===============================================================================
