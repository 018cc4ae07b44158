------------------------------ MODULE FlashProofs ------------------------------
(***************************************************************************)
(* Proofs about Flash, for every size of the flash, of its sectors, words  *)
(* and blocks, every operation that fits in it, and every fault.           *)
(***************************************************************************)
EXTENDS Flash, SequenceTheorems, FiniteSetTheorems, TLAPS

Contents == [1..W -> Word]

(***************************************************************************)
(* The inductive invariant, in parts                                       *)
(***************************************************************************)
WritePcs == {"unlock", "program", "erase", "verify"}
RomPcs == {"calibrate", "begin", "crc", "sector", "unlock run", "overwrite", "stage", "erase ends",
           "write", "crc verify"}
StubPcs == {"diff", "digests", "stage next", "post", "args", "cmd", "wait", "verified", "trap"}
Pcs == {"idle", "gate", "init"} \cup WritePcs \cup RomPcs \cup StubPcs

\* The operation, and the stub, which only the stub's way, or one left behind, has running.
ControlInv ==
  /\ op \in Ops \cup {None} /\ pc \in Pcs
  /\ op = None <=> pc = "idle"
  /\ result \in {None, "ok", "raised", "abandoned"}
  /\ result # None => op = None
  /\ pc \in WritePcs => op.kind # "incremental"
  /\ pc \in RomPcs \cup StubPcs => op.kind = "incremental"
  /\ stub.pc # "off" => pc \in StubPcs \/ result = "abandoned"
  /\ pc \in WritePcs \cup RomPcs \cup StubPcs \/ stub.pc # "off" => configured

DataInv ==
  /\ flash \in [Addr -> Word]
  /\ {protected, configured, silent} \subseteq BOOLEAN
  /\ buf \in [{"A", "B"} -> Contents]
  /\ k \in Nat

\* What there is to do; outside its sectors the image is there already.
JobInv ==
  /\ op # None =>
       /\ job \in JobsOf(Ops) /\ job.image = Image(op) /\ job.verify = (op.verify /\ ~silent)
       /\ job.sectors \subseteq Covered(op)
       /\ silent \/ op.kind # "incremental" => job.sectors = Covered(op)
       /\ \A s \in Covered(op) \ job.sectors : Sector(s) = ImageSector(op, s)
  /\ result = "abandoned" => job \in JobsOf(Ops)

\* The sectors that differ, in a list: the others hold the image.
ChangedPcs == {"sector", "unlock run", "overwrite", "stage", "erase ends", "write", "crc verify",
               "stage next", "post"}
Listed == pc \in ChangedPcs \/ (pc \in StubPcs /\ (after \in {"post", "verified"} \/ verifying))
ListInv ==
  /\ pc \in ChangedPcs => k \in 1..Len(changed)
  /\ pc = "wait" /\ after = "post" => k \in 1..Len(changed)
  /\ Listed =>
       /\ changed \in Seq(job.sectors)
       /\ job.verify => \A s \in Covered(op) : (\A i \in DOMAIN changed : changed[i] # s)
                          => Sector(s) = ImageSector(op, s)

\* The steps with the ROM.
StepInv ==
  /\ pc \in {"idle", "gate", "init", "calibrate", "begin"} => crcs = <<>>
  /\ pc = "begin" => k = FirstSector(op)
  /\ pc = "erase" => k \in Covered(op)
  /\ pc = "program" => k < Len(op.data)
  /\ pc = "verify" =>
       /\ k < Len(op.data)
       /\ job.verify /\ op.kind = "write" => \A i \in 1..k : flash[op.at + i - 1] = op.data[i]
  /\ pc = "crc" =>
       /\ k \in Covered(op) /\ crcs \in Seq(Contents) /\ Len(crcs) = k - FirstSector(op)
       /\ ~silent => \A i \in DOMAIN crcs : crcs[i] = Sector(FirstSector(op) + i - 1)
  /\ pc \in {"erase ends", "write"} => buf["A"] = ImageSector(op, changed[k])
  /\ pc = "crc verify" /\ job.verify =>
       \A i \in 1..(k - 1) : Sector(changed[i]) = ImageSector(op, changed[i])

\* The mailbox and the commands.
Args == [m2 : {0, 1, CRC_INIT}, at : Nat, count : Nat, buf : {"A", "B", Nothing}]
StubStates == {"off", "poll", "crc", "unlock", "erase", "write", "report", "reported", "stuck"}
Programming == stub.pc \in {"unlock", "erase", "write"}
Idle == stub.pc = "poll" /\ mail.cmd = "idle"
Posting == pc \in {"args", "cmd"}
Quitting == (Posting \/ pc = "trap") /\ pend.cmd = "quit"

Mails == [cmd : Commands \cup {"idle"}, status : 0..2, args : Args]
Stubs == [pc : StubStates, cmd : Commands \cup {"idle"}, args : Args, s : Nat, err : {0, 1}]
Pends == [cmd : Commands, args : Args, then : {"wait", "stage next", "trap"}]
MailTypes ==
  /\ mail \in Mails /\ stub \in Stubs /\ pend \in Pends
  /\ after \in {"idle", "digests", "post", "verified"}
  /\ {verifying, failed} \subseteq BOOLEAN

MailInv ==
  /\ MailTypes
  /\ pend.cmd = "quit" => pend.then = "trap"
  /\ pc = "trap" => pend.cmd = "quit" /\ mail.cmd \in {"idle", "quit"}
  /\ Posting /\ pend.cmd = "crc" => pend.then = "wait" /\ after = "digests"
  /\ Posting /\ pend.cmd = "program" => pend.then \in {"wait", "stage next"} /\ after = "verified"
  /\ Posting /\ pend.cmd # "quit" => Idle
  /\ pc = "cmd" => mail.cmd = "idle"
  /\ pc = "cmd" /\ pend.cmd # "quit" => mail.status = 0 /\ mail.args = pend.args
  /\ pc \in {"diff", "digests", "post", "verified"} \/ (pc = "stage next" /\ k = 1) => Idle
  /\ pc \in {"wait", "stage next"} => mail.cmd # "quit" /\ (mail.status # 0 => Idle)
  /\ pc = "wait" => after # "idle"
  /\ pc = "verified" => after = "verified"
  /\ result = None /\ pc \notin StubPcs => after = "idle" /\ ~verifying
  /\ mail.cmd \in {"crc", "program"} => stub.pc = "poll"

\* A command to program is for a sector of the job, with its image in the buffer, which is
\* not the one that is being staged.
Carries(words, s) ==
  \A i \in 1..W : s * W + i - 1 \in DOMAIN job.image /\ words[i] = job.image[s * W + i - 1]
Carried(args) ==
  /\ args.at \in job.sectors /\ args.buf \in {"A", "B"} /\ Carries(buf[args.buf], args.at)
  /\ op # None => \E i \in DOMAIN changed : changed[i] = args.at
Staging ==
  pc = "stage next" =>
    /\ mail.cmd = "program" => mail.args.buf # Buffer(k)
    /\ Programming => stub.args.buf # Buffer(k)
Posted ==
  Posting /\ pend.cmd = "program" /\ pend.then = "stage next" =>
    pend.args.buf # Buffer(k) /\ k # 1 /\ k \in 1..Len(changed)
Digesting == mail.cmd = "crc" \/ stub.pc = "crc"
FlightInv ==
  /\ mail.cmd = "program" => Carried(mail.args)
  /\ Programming => Carried(stub.args)
  /\ Posting /\ pend.cmd = "program" => Carried(pend.args)
  /\ Staging /\ Posted
  /\ pc = "post" \/ (pc = "wait" /\ after = "post") => Carries(buf[Buffer(k)], changed[k])
  /\ op # None /\ Digesting => (pc = "wait" /\ after = "digests") \/ Quitting

\* The digests of a range, as far as they are.
CrcPost == Posting /\ pend.cmd = "crc"
CrcWait == pc = "wait" /\ after = "digests"
CrcArgs == [m2 |-> CRC_INIT, at |-> k, count |-> Range1, buf |-> "A"]
Digested(n) == \A i \in 1..n : crcOut[i] = <<CRC_INIT, Sector(k + i - 1)>>
CrcRange(args) ==
  args.m2 = CRC_INIT /\ args.at + args.count <= Sectors /\ args.count <= CrcMax /\ args.buf = "A"
RangeInv ==
  /\ mail.cmd = "crc" => CrcRange(mail.args)
  /\ stub.pc = "crc" => CrcRange(stub.args) /\ stub.s <= stub.args.count
  /\ CrcPost => CrcRange(pend.args)
\* What has been digested so far, in the sectors that have not changed since.
Diffing == pc \in {"diff", "digests"} \/ CrcPost \/ CrcWait
SoFar ==
  /\ k \in Covered(op)
  /\ crcs \in Seq({CRC_INIT} \X Contents) /\ Len(crcs) = k - FirstSector(op)
  /\ \A i \in DOMAIN crcs : crcs[i] = <<CRC_INIT, Sector(FirstSector(op) + i - 1)>>
Sending == pc \in {"stage next", "post", "verified"} \/ (Posting /\ pend.cmd = "program")
           \/ (pc = "wait" /\ after # "digests")
Awaited ==
  /\ mail.cmd \in {"crc", "idle"} /\ (mail.cmd = "crc" => mail.args = CrcArgs)
  /\ stub.pc \in {"poll", "crc", "report", "reported", "stuck"}
  /\ stub.pc = "crc" => stub.args = CrcArgs /\ stub.err = 0 /\ stub.s <= Range1 /\ Digested(stub.s)
  /\ stub.pc \in {"report", "reported"} /\ stub.err = 0 => Digested(Range1)
  /\ mail.status = 1 => Digested(Range1)
Digest == {<<>>} \cup ({CRC_INIT} \X Contents)
DigestInv ==
  /\ RangeInv
  /\ crcOut \in [1..CrcMax -> Digest]
  /\ Diffing => SoFar
  /\ Sending => crcs = <<>> /\ ~verifying
  /\ CrcPost => pend.args = CrcArgs
  /\ CrcWait => Awaited
  /\ pc = "digests" => Digested(Range1)

\* A try that has not failed ends with the image in the flash, and nothing under way.
EndInv ==
  Quitting /\ ~failed /\ job.verify =>
    /\ Array!Holds(flash, job)
    /\ stub.pc \in {"poll", "off"} /\ mail.cmd \in {"idle", "quit"}

FlashInv ==
  /\ ControlInv /\ DataInv /\ JobInv /\ ListInv /\ StepInv
  /\ MailInv /\ FlightInv /\ DigestInv /\ EndInv

(***************************************************************************)
(* Sectors and images                                                      *)
(***************************************************************************)
LEMMA Sizes ==
  /\ W \in Nat /\ W > 0 /\ Sectors \in Nat /\ Sectors > 0
  /\ BlockSectors \in Nat /\ BlockSectors > 0 /\ CrcMax \in Nat /\ CrcMax > 0
BY SpiflashAssumption, FlashStubAssumption

\* A word address is a sector and a place in it.
LEMMA Division ==
  ASSUME NEW a \in Nat
  PROVE  a = W * (a \div W) + (a % W) /\ a \div W \in Nat /\ a % W \in Nat /\ a % W < W
BY Sizes

\* The addresses of a sector.
LEMMA SectorIs ==
  ASSUME NEW a \in Nat, NEW s \in Nat
  PROVE  /\ SectorOf(a) \in Nat
         /\ SectorOf(a) = s <=> s * W <= a /\ a <= s * W + W - 1
<1>1. a = W * (a \div W) + (a % W) /\ a \div W \in Nat /\ a % W \in 0..W - 1
  BY Division, Sizes
<1>2. ASSUME NEW q \in Nat, NEW r \in 0..W - 1, NEW w \in Nat, w = W, a = w * q + r
      PROVE  q = s <=> s * w <= a /\ a <= s * w + w - 1
  <2>1. CASE q = s
    BY <1>2, <2>1
  <2>2. CASE q > s
    <3>1. PICK d \in Nat : q = s + 1 + d
      <4>1. q - s - 1 \in Nat /\ q = s + 1 + (q - s - 1)
        BY <2>2
      <4> QED BY <4>1
    <3>2. w * q = w * s + w + w * d /\ w * d \in Nat /\ w * s \in Nat /\ w * s = s * w
      BY <1>2, <3>1
    <3> QED BY <1>2, <2>2, <3>2
  <2>3. CASE q < s
    <3>1. PICK d \in Nat : s = q + 1 + d
      <4>1. s - q - 1 \in Nat /\ s = q + 1 + (s - q - 1)
        BY <2>3
      <4> QED BY <4>1
    <3>2. s * w = w * q + w + w * d /\ w * d \in Nat /\ w * q \in Nat
      BY <1>2, <3>1
    <3> QED BY <1>2, <2>3, <3>2
  <2> QED BY <2>1, <2>2, <2>3
<1>3. a \div W = s <=> s * W <= a /\ a <= s * W + W - 1
  BY <1>1, <1>2, Sizes
<1> QED BY <1>1, <1>3 DEF SectorOf

\* What is written for an operation: the data, or whole sectors of it.
LEMMA PaddedIs ==
  ASSUME NEW o \in Ops
  PROVE  /\ Padded(o) \in Seq(Word) /\ Len(Padded(o)) \in Nat /\ Len(Padded(o)) > 0
         /\ o.at \in Nat /\ o.at + Len(Padded(o)) <= Sectors * W
         /\ o.kind # "incremental" => Padded(o) = o.data
         /\ o.kind = "incremental" => o.at % W = 0 /\ Len(Padded(o)) % W = 0
<1>1. /\ o.at \in Addr /\ o.data \in Seq(Word) /\ o.data # <<>>
      /\ o.at + Len(Padded(o)) <= Sectors * W
      /\ o.kind = "incremental" => o.at % W = 0
  BY SpiflashAssumption
<1>2. Len(o.data) \in Nat /\ Len(o.data) > 0 /\ o.at \in Nat
  BY <1>1, EmptySeq DEF Addr
<1> DEFINE n == Len(o.data)
           Fill == [i \in 1..(W - (n % W)) |-> Bits]
<1>3. CASE o.kind # "incremental" \/ n % W = 0
  BY <1>1, <1>2, <1>3 DEF Padded
<1>4. CASE o.kind = "incremental" /\ n % W # 0
  <2>1. n % W \in Nat /\ n % W < W /\ n = W * (n \div W) + (n % W) /\ n \div W \in Nat
    BY <1>2, Division
  <2>2. Fill \in Seq(Word) /\ Len(Fill) = W - (n % W)
    <3>1. ASSUME NEW r \in Nat, r < W
          PROVE  /\ [i \in 1..(W - r) |-> Bits] \in Seq(Word)
                 /\ Len([i \in 1..(W - r) |-> Bits]) = W - r
      <4>1. W - r \in Nat
        BY <3>1, Sizes
      <4> QED BY <4>1 DEF Word
    <3> QED BY <2>1, <3>1
  <2>3. Padded(o) = o.data \o Fill
    BY <1>4 DEF Padded
  <2> HIDE DEF Fill
  <2>4. Padded(o) \in Seq(Word) /\ Len(Padded(o)) = n + Len(Fill)
    BY <1>1, <2>2, <2>3, ConcatProperties
  <2>5. ASSUME NEW w \in Nat, w > 0, NEW q \in Nat
        PROVE  (w * q + w) % w = 0
    <3>1. w * q + w = w * (q + 1)
      BY <2>5
    <3> QED BY <2>5, <3>1
  <2> DEFINE q == n \div W
             r == n % W
  <2>6. Len(Padded(o)) = W * q + W /\ q \in Nat
    <3>1. Len(Padded(o)) = n + (W - r) /\ n = W * q + r /\ q \in Nat /\ r \in Nat
      BY <2>1, <2>2, <2>4
    <3> HIDE DEF q, r
    <3> QED BY <3>1, Sizes
  <2> HIDE DEF q, r
  <2>7. Len(Padded(o)) % W = 0
    BY <2>5, <2>6, Sizes
  <2>8. Len(Padded(o)) \in Nat /\ Len(Padded(o)) > 0
    <3>1. W * q \in Nat
      BY <2>6, Sizes
    <3> QED BY <3>1, <2>6, Sizes
  <2> QED BY <1>1, <1>2, <1>4, <2>4, <2>7, <2>8
<1> QED BY <1>3, <1>4

\* An image lies within the sectors it covers, and these within the flash.
LEMMA ImageIs ==
  ASSUME NEW o \in Ops
  PROVE  /\ FirstSector(o) \in Nat /\ LastSector(o) \in Nat /\ FirstSector(o) <= LastSector(o)
         /\ Covered(o) \subseteq 0..(Sectors - 1)
         /\ DOMAIN Image(o) = o.at..(o.at + Len(Padded(o)) - 1)
         /\ DOMAIN Image(o) \subseteq Addr
         /\ \A a \in DOMAIN Image(o) : Image(o)[a] = Padded(o)[a - o.at + 1] /\ Image(o)[a] \in Word
         /\ \A a \in DOMAIN Image(o) : SectorOf(a) \in Covered(o)
<1> DEFINE n == Len(Padded(o))
           at == o.at
<1>1. /\ Padded(o) \in Seq(Word) /\ n \in Nat /\ n > 0 /\ at \in Nat
      /\ at + n <= Sectors * W
  BY PaddedIs
<1>2. DOMAIN Image(o) = at..(at + n - 1)
  BY DEF Image
<1>3. \A a \in DOMAIN Image(o) : Image(o)[a] = Padded(o)[a - at + 1] /\ Image(o)[a] \in Word
  BY <1>1 DEF Image
<1>4. ASSUME NEW a \in Nat, NEW b \in Nat, a <= b
      PROVE  SectorOf(a) \in Nat /\ SectorOf(b) \in Nat /\ SectorOf(a) <= SectorOf(b)
  <2> DEFINE s == SectorOf(a)
             t == SectorOf(b)
  <2>1. s \in Nat /\ t \in Nat
    BY SectorIs
  <2>2. s * W <= a /\ t * W <= b /\ b <= t * W + W - 1
    BY SectorIs, <2>1
  <2>3. ASSUME NEW x \in Nat, NEW y \in Nat, NEW w \in Nat, w > 0, x * w < y * w + w
        PROVE  x <= y
    <3>1. SUFFICES ASSUME x >= y + 1 PROVE FALSE
      BY <2>3
    <3>2. PICK d \in Nat : x = y + 1 + d
      <4>1. x - y - 1 \in Nat /\ x = y + 1 + (x - y - 1)
        BY <3>1
      <4> QED BY <4>1
    <3>3. x * w = y * w + w + d * w /\ d * w \in Nat /\ y * w \in Nat
      BY <2>3, <3>2
    <3> QED BY <2>3, <3>3
  <2>4. s * W < t * W + W
    <3> HIDE DEF s, t
    <3>1. s * W \in Nat /\ t * W \in Nat
      BY <2>1, Sizes
    <3> QED BY <1>4, <2>2, <3>1, Sizes
  <2> HIDE DEF s, t
  <2>5. s <= t
    BY <2>1, <2>3, <2>4, Sizes
  <2> QED BY <2>1, <2>5 DEF s, t
<1>5. FirstSector(o) \in Nat /\ LastSector(o) \in Nat /\ FirstSector(o) <= LastSector(o)
  BY <1>1, <1>4 DEF FirstSector, LastSector
<1>6. \A a \in DOMAIN Image(o) : SectorOf(a) \in Covered(o)
  <2> SUFFICES ASSUME NEW a \in at..(at + n - 1) PROVE SectorOf(a) \in Covered(o)
    BY <1>2
  <2>1. a \in Nat /\ at <= a /\ a <= at + n - 1 /\ at + n - 1 \in Nat
    BY <1>1
  <2>2. SectorOf(at) <= SectorOf(a) /\ SectorOf(a) <= SectorOf(at + n - 1) /\ SectorOf(a) \in Nat
    BY <1>1, <1>4, <2>1
  <2> QED BY <1>5, <2>2 DEF Covered, FirstSector, LastSector
<1>7. Covered(o) \subseteq 0..(Sectors - 1)
  <2>1. Sectors * W \in Nat /\ Sectors * W > 0 /\ at + n - 1 \in Nat
    BY <1>1, Sizes
  <2>2. LastSector(o) <= SectorOf(Sectors * W - 1)
    <3>1. Sectors * W - 1 \in Nat /\ at + n - 1 <= Sectors * W - 1
      BY <1>1, <2>1
    <3>2. SectorOf(at + n - 1) <= SectorOf(Sectors * W - 1)
      BY <1>4, <2>1, <3>1
    <3> QED BY <3>2 DEF LastSector
  <2>3. SectorOf(Sectors * W - 1) = Sectors - 1
    <3>1. Sectors - 1 \in Nat /\ (Sectors - 1) * W = Sectors * W - W
      BY Sizes
    <3>2. /\ (Sectors - 1) * W <= Sectors * W - 1
          /\ Sectors * W - 1 <= (Sectors - 1) * W + W - 1
      BY <2>1, <3>1, Sizes
    <3> QED BY <2>1, <3>1, <3>2, SectorIs
  <2> QED BY <1>5, <2>2, <2>3, Sizes DEF Covered
<1>8. DOMAIN Image(o) \subseteq Addr
  BY <1>1, <1>2, Sizes DEF Addr
<1> QED BY <1>2, <1>3, <1>5, <1>6, <1>7, <1>8

\* flash_incremental writes whole sectors.
LEMMA WholeSectors ==
  ASSUME NEW o \in Ops, o.kind = "incremental", NEW s \in Covered(o)
  PROVE  /\ \A i \in 1..W : s * W + i - 1 \in DOMAIN Image(o)
         /\ ImageSector(o, s) \in Contents
<1> DEFINE n == Len(Padded(o))
           at == o.at
<1>1. n \in Nat /\ n > 0 /\ at \in Nat /\ at % W = 0 /\ n % W = 0
  BY PaddedIs
<1>2. s \in Nat /\ FirstSector(o) <= s /\ s <= LastSector(o)
  BY ImageIs DEF Covered
<1>0. ASSUME NEW a \in Nat, a % W = 0 PROVE a = (a \div W) * W /\ a \div W \in Nat
  <2>1. ASSUME NEW d \in Nat, a = W * d + 0 PROVE a = d * W
    BY <2>1, Sizes
  <2> QED BY <1>0, <2>1, Division
<1>3. PICK p \in Nat : at = p * W /\ FirstSector(o) = p
  BY <1>0, <1>1 DEF FirstSector, SectorOf
<1>4. PICK q \in Nat : n = q * W
  BY <1>0, <1>1
<1>5. q > 0 /\ LastSector(o) = p + q - 1
  <2>1. q > 0
    <3> SUFFICES ASSUME q = 0 PROVE FALSE
      OBVIOUS
    <3> QED BY <1>1, <1>4, Sizes
  <2>2. p + q - 1 \in Nat /\ (p + q - 1) * W = p * W + q * W - W /\ p * W \in Nat /\ q * W \in Nat
    BY <2>1, Sizes
  <2>3. SectorOf(at + n - 1) = p + q - 1
    <3>1. at + n - 1 \in Nat
      BY <1>1
    <3>2. (p + q - 1) * W <= at + n - 1 /\ at + n - 1 <= (p + q - 1) * W + W - 1
      BY <1>3, <1>4, <2>2, Sizes
    <3> QED BY <2>2, <3>1, <3>2, SectorIs
  <2> QED BY <2>1, <2>3 DEF LastSector
<1>6. ASSUME NEW i \in 1..W PROVE s * W + i - 1 \in DOMAIN Image(o)
  <2>1. PICK d \in Nat, e \in Nat : s = p + d /\ p + q - 1 = s + e
    <3>1. s - p \in Nat /\ p + q - 1 - s \in Nat
      BY <1>2, <1>3, <1>5
    <3>2. s = p + (s - p) /\ p + q - 1 = s + (p + q - 1 - s)
      BY <1>2
    <3> QED BY <3>1, <3>2
  <2>2. /\ s * W = p * W + d * W /\ d * W \in Nat /\ e * W \in Nat /\ p * W \in Nat
        /\ p * W + q * W = s * W + W + e * W
    <3>1. q = d + e + 1
      BY <2>1
    <3> QED BY <2>1, <3>1, Sizes
  <2>3. at <= s * W + i - 1 /\ s * W + i - 1 <= at + n - 1 /\ s * W + i - 1 \in Nat
    BY <1>3, <1>4, <2>2, Sizes
  <2> QED BY <2>3, <1>1, ImageIs
<1>7. ImageSector(o, s) \in Contents
  BY <1>6, ImageIs DEF ImageSector, Contents
<1> QED BY <1>6, <1>7

\* An image is in the flash when every sector it covers is.
LEMMA HoldsBySector ==
  ASSUME NEW o \in Ops, o.kind = "incremental",
         \A s \in Covered(o) : Sector(s) = ImageSector(o, s)
  PROVE  \A a \in DOMAIN Image(o) : flash[a] = Image(o)[a]
<1> SUFFICES ASSUME NEW a \in DOMAIN Image(o) PROVE flash[a] = Image(o)[a]
  OBVIOUS
<1>1. a \in Nat /\ SectorOf(a) \in Covered(o)
  BY ImageIs DEF Addr
<1> DEFINE s == SectorOf(a)
           i == a - s * W + 1
<1>2. s \in Nat /\ s * W <= a /\ a <= s * W + W - 1
  BY <1>1, SectorIs
<1>3. i \in 1..W /\ s * W + i - 1 = a
  <2> HIDE DEF s
  <2>1. s * W \in Nat
    BY <1>2, Sizes
  <2> QED BY <1>1, <1>2, <2>1, Sizes
<1>4. Sector(s)[i] = ImageSector(o, s)[i]
  BY <1>1
<1>5. Sector(s)[i] = flash[s * W + i - 1] /\ ImageSector(o, s)[i] = Image(o)[s * W + i - 1]
  BY <1>3 DEF Sector, Content, ImageSector
<1> HIDE DEF s, i
<1> QED BY <1>3, <1>4, <1>5

(***************************************************************************)
(* What a call of the ROM does to the array                                *)
(***************************************************************************)
\* The words of sector s stay as they are.
Kept(s) == \A i \in 1..W : flash'[s * W + i - 1] = flash[s * W + i - 1]
FlashSectors == 0..(Sectors - 1)

\* The words of a sector are words of the flash.
LEMMA SectorWords ==
  ASSUME NEW s \in FlashSectors, NEW i \in 1..W
  PROVE  s * W + i - 1 \in Addr /\ SectorOf(s * W + i - 1) = s
<1>1. s \in Nat /\ s * W \in Nat /\ s * W + i - 1 \in Nat
  BY Sizes DEF FlashSectors
<1>2. SectorOf(s * W + i - 1) = s
  BY <1>1, Sizes, SectorIs
<1>3. s * W + W <= Sectors * W
  <2>1. PICK d \in Nat : Sectors = s + 1 + d
    <3>1. Sectors - s - 1 \in Nat /\ Sectors = s + 1 + (Sectors - s - 1)
      BY Sizes DEF FlashSectors
    <3> QED BY <3>1
  <2>2. Sectors * W = s * W + W + d * W /\ d * W \in Nat
    BY <1>1, <2>1, Sizes
  <2> QED BY <1>1, <2>2, Sizes
<1>4. Sectors * W \in Nat
  BY Sizes
<1> QED BY <1>1, <1>2, <1>3, <1>4, Sizes DEF Addr

\* An address the change does not reach keeps its word; so does a sector without one.
LEMMA KeptIs ==
  ASSUME NEW S, \A a \in Addr : SectorOf(a) \notin S => flash'[a] = flash[a]
  PROVE  \A s \in FlashSectors \ S : Kept(s)
BY SectorWords DEF Kept

\* Erasing sectors of the job.
LEMMA EraseIs ==
  ASSUME DataInv, ~JobOver, NEW how \in Endings, NEW S, S \subseteq job.sectors,
         flash' \in AfterErase(how, S)
  PROVE  /\ flash' \in [Addr -> Word]
         /\ UNCHANGED flash \/ Array!Erase
         /\ \A s \in FlashSectors \ S : Kept(s)
<1>1. CASE UNCHANGED flash
  BY <1>1, KeptIs DEF DataInv, Kept
<1>2. CASE flash' = Erased(S) /\ ~protected
  <2>1. flash' = [a \in Addr |-> IF SectorOf(a) \in S THEN Bits ELSE flash[a]]
    BY <1>2 DEF Erased
  <2>2. flash' \in [Addr -> Word]
    BY <2>1 DEF DataInv, Word
  <2>3. \A a \in Addr : SectorOf(a) \notin S => flash'[a] = flash[a]
    BY <2>1
  <2>4. ASSUME NEW s \in 0..(Sectors - 1)
        PROVE  LET words == (s * W)..(s * W + W - 1)
               IN  \/ \A a \in words : flash'[a] = flash[a]
                   \/ s \in job.sectors /\ \A a \in words : flash'[a] = Bits
    <3>1. ASSUME NEW a \in (s * W)..(s * W + W - 1) PROVE a \in Addr /\ SectorOf(a) = s
      <4>1. s * W \in Nat
        BY Sizes
      <4>2. a - s * W + 1 \in 1..W /\ s * W + (a - s * W + 1) - 1 = a
        BY <4>1, Sizes
      <4> QED BY <4>2, SectorWords DEF FlashSectors
    <3>2. CASE s \in S
      BY <2>1, <3>1, <3>2
    <3>3. CASE s \notin S
      BY <2>1, <3>1, <3>3
    <3> QED BY <3>2, <3>3
  <2>5. Array!Erase
    BY <2>4 DEF Array!Erase, Array!Unchanged
  <2> QED BY <2>2, <2>3, <2>5, KeptIs
<1>3. UNCHANGED flash \/ (flash' = Erased(S) /\ ~protected)
  BY DEF AfterErase, Erased, Endings
<1> QED BY <1>1, <1>2, <1>3

\* Programming words of the image in sectors of the job.
LEMMA ProgramIs ==
  ASSUME DataInv, ~JobOver, NEW how \in Endings, NEW at \in Nat, NEW words \in Seq(Word),
         NEW S, S \subseteq job.sectors,
         \A i \in 1..Len(words) : /\ at + i - 1 \in DOMAIN job.image
                                  /\ words[i] = job.image[at + i - 1]
                                  /\ SectorOf(at + i - 1) \in S,
         flash' \in AfterProgram(how, at, words)
  PROVE  /\ flash' \in [Addr -> Word]
         /\ UNCHANGED flash \/ Array!Program
         /\ \A s \in FlashSectors \ S : Kept(s)
<1>1. CASE UNCHANGED flash
  BY <1>1, KeptIs DEF DataInv, Kept
<1>2. ASSUME NEW part \in Seq(Word), Len(part) <= Len(words), \A i \in 1..Len(part) : part[i] = words[i],
             flash' = Programmed(at, part), ~protected
      PROVE  /\ flash' \in [Addr -> Word] /\ Array!Program
             /\ \A a \in Addr : SectorOf(a) \notin S => flash'[a] = flash[a]
  <2>1. flash' = [a \in Addr |-> IF a - at + 1 \in DOMAIN part /\ a >= at
                                 THEN flash[a] \cap part[a - at + 1] ELSE flash[a]]
    BY <1>2 DEF Programmed
  <2>2. ASSUME NEW a \in Addr
        PROVE  \/ flash'[a] = flash[a]
               \/ /\ a \in DOMAIN job.image /\ SectorOf(a) \in S
                  /\ flash'[a] = flash[a] \cap job.image[a]
    <3>1. CASE a - at + 1 \in DOMAIN part /\ a >= at
      <4> DEFINE i == a - at + 1
      <4>1. a \in Nat /\ DOMAIN part = 1..Len(part) /\ Len(part) \in Nat /\ Len(words) \in Nat
        BY DEF Addr
      <4>2. i \in 1..Len(part) /\ i \in 1..Len(words) /\ at + i - 1 = a
        BY <1>2, <3>1, <4>1
      <4>3. part[i] = words[i] /\ a \in DOMAIN job.image /\ words[i] = job.image[a] /\ SectorOf(a) \in S
        <5> HIDE DEF i
        <5> QED BY <1>2, <4>2
      <4>4. flash'[a] = flash[a] \cap part[i]
        BY <2>1, <3>1
      <4> QED BY <4>3, <4>4
    <3>2. CASE ~(a - at + 1 \in DOMAIN part /\ a >= at)
      BY <2>1, <3>2
    <3> QED BY <3>1, <3>2
  <2>3. flash' \in [Addr -> Word]
    BY <2>1 DEF DataInv, Word
  <2>4. Array!Program
    BY <2>2 DEF Array!Program, Array!Unchanged, Array!Addr, Array!SectorOf, Addr, SectorOf
  <2>5. \A a \in Addr : SectorOf(a) \notin S => flash'[a] = flash[a]
    BY <2>2
  <2> QED BY <2>3, <2>4, <2>5
<1>3. \/ UNCHANGED flash
      \/ flash' = Programmed(at, words) /\ ~protected
      \/ \E n \in 0..Len(words) : flash' = Programmed(at, SubSeq(words, 1, n)) /\ ~protected
  BY DEF AfterProgram, Programmed, Endings
<1>4. CASE flash' = Programmed(at, words) /\ ~protected
  <2>1. Len(words) \in Nat
    OBVIOUS
  <2> QED BY <1>2, <1>4, <2>1, KeptIs
<1>5. CASE \E n \in 0..Len(words) : flash' = Programmed(at, SubSeq(words, 1, n)) /\ ~protected
  <2>1. PICK n \in 0..Len(words) : flash' = Programmed(at, SubSeq(words, 1, n)) /\ ~protected
    BY <1>5
  <2>2. /\ SubSeq(words, 1, n) \in Seq(Word) /\ Len(SubSeq(words, 1, n)) = n /\ n <= Len(words)
        /\ \A i \in 1..n : SubSeq(words, 1, n)[i] = words[i]
    <3>1. Len(words) \in Nat /\ n \in Nat
      OBVIOUS
    <3> QED BY <3>1, SubSeqProperties
  <2> QED BY <1>2, <2>1, <2>2, KeptIs
<1> QED BY <1>1, <1>3, <1>4, <1>5

(***************************************************************************)
(* The invariant: control                                                  *)
(***************************************************************************)
LEMMA ControlStep ==
  ASSUME ControlInv, MailInv, Next
  PROVE  ControlInv'
<1> USE DEF ControlInv, WritePcs, RomPcs, StubPcs, Pcs, At, Goto, Return
<1> USE SpiflashAssumption
<1>1. ASSUME NEW o \in Ops, Start(o), UNCHANGED stubVars PROVE ControlInv'
  BY <1>1 DEF Start, target, stubVars
<1>2. CASE GateRead /\ UNCHANGED stubVars
  BY <1>2 DEF GateRead, target, locals, stubVars
<1>3. CASE FlashInit /\ UNCHANGED stubVars
  BY <1>3 DEF FlashInit, target, locals, stubVars
<1>4. CASE Raise /\ UNCHANGED stubVars
  BY <1>4 DEF Raise, target, locals, stubVars
<1>5. CASE Unlock /\ UNCHANGED stubVars
  BY <1>5 DEF Unlock, target, locals, stubVars
<1>6. CASE EraseNext /\ UNCHANGED stubVars
  BY <1>6 DEF EraseNext, target, locals, stubVars
<1>7. CASE ProgramNext /\ UNCHANGED stubVars
  BY <1>7 DEF ProgramNext, NextChunk, target, stubVars
<1>8. CASE VerifyNext /\ UNCHANGED stubVars
  BY <1>8 DEF VerifyNext, NextChunk, target, stubVars
<1>9. CASE XtensaErase /\ UNCHANGED stubVars
  BY <1>9 DEF XtensaErase, target, locals, stubVars
<1>10. CASE XtensaVerify /\ UNCHANGED stubVars
  BY <1>10 DEF XtensaVerify, target, locals, stubVars
<1>11. CASE Calibrate /\ UNCHANGED stubVars
  BY <1>11 DEF Calibrate, target, locals, stubVars
<1>12. CASE CrcNext /\ UNCHANGED stubVars
  BY <1>12 DEF CrcNext, target, locals, stubVars
<1>13. CASE SectorRead /\ UNCHANGED stubVars
  BY <1>13 DEF SectorRead, target, locals, stubVars
<1>14. CASE UnlockRun /\ UNCHANGED stubVars
  BY <1>14 DEF UnlockRun, target, locals, stubVars
<1>15. CASE Overwrite /\ UNCHANGED stubVars
  BY <1>15 DEF Overwrite, NextSector, target, stubVars
<1>16. CASE StageSector /\ UNCHANGED stubVars
  BY <1>16 DEF StageSector, target, locals, stubVars
<1>17. CASE EraseEnds /\ UNCHANGED stubVars
  BY <1>17 DEF EraseEnds, target, locals, stubVars
<1>18. CASE WriteSector /\ UNCHANGED stubVars
  BY <1>18 DEF WriteSector, NextSector, target, stubVars
<1>19. CASE CrcVerify /\ UNCHANGED stubVars
  BY <1>19 DEF CrcVerify, target, locals, stubVars
<1>20. CASE StubBegin
  BY <1>20 DEF StubBegin, target, locals, Post, Quit, Off, MailInv, MailTypes
<1>21. CASE StubBeginRaises
  BY <1>21 DEF StubBeginRaises, target, locals, Post, Quit, Off, MailInv, MailTypes
<1>22. CASE PostArgs
  BY <1>22 DEF PostArgs, target, locals, Post, Quit, Off, MailInv, MailTypes
<1>23. CASE PostCmd
  BY <1>23 DEF PostCmd, target, locals, Post, Quit, Off, MailInv, MailTypes, Pends
<1>24. CASE Wait
  BY <1>24 DEF Wait, target, locals, Post, Quit, Off, MailInv, MailTypes
<1>25. CASE WaitExpires
  BY <1>25 DEF WaitExpires, target, locals, Post, Quit, Off, MailInv, MailTypes
<1>26. CASE TryRaises
  BY <1>26 DEF TryRaises, target, locals, Post, Quit, Off, MailInv, MailTypes
<1>27. CASE EndRaises
  BY <1>27 DEF EndRaises, target, locals, Post, Quit, Off, MailInv, MailTypes
<1>28. CASE DiffRange
  BY <1>28 DEF DiffRange, target, locals, Post, Quit, Off, MailInv, MailTypes
<1>29. CASE Digests
  BY <1>29 DEF Digests, target, locals, Post, Quit, Off, MailInv, MailTypes
<1>30. CASE StageNext
  BY <1>30 DEF StageNext, target, locals, Post, Quit, Off, MailInv, MailTypes
<1>31. CASE PostSector
  BY <1>31 DEF PostSector, target, locals, Post, Quit, Off, MailInv, MailTypes
<1>32. CASE AllPosted
  BY <1>32 DEF AllPosted, target, locals, Post, Quit, Off, MailInv, MailTypes
<1>33. CASE Trapped
  BY <1>33 DEF Trapped, target, locals, Post, Quit, Off, MailInv, MailTypes
<1>34. CASE TrapExpires
  BY <1>34 DEF TrapExpires, target, locals, Post, Quit, Off, MailInv, MailTypes
<1>35. CASE Fetch
  BY <1>35 DEF Fetch, StubRest, Host, target, locals, Running, Step, Failed, Off, MailInv, MailTypes
<1>36. CASE CrcSector
  BY <1>36 DEF CrcSector, StubRest, Host, target, locals, Running, Step, Failed, Off, MailInv, MailTypes
<1>37. CASE StubUnlock
  BY <1>37 DEF StubUnlock, StubRest, Host, target, locals, Running, Step, Failed, Off, MailInv, MailTypes
<1>38. CASE StubErase
  BY <1>38 DEF StubErase, StubRest, Host, target, locals, Running, Step, Failed, Off, MailInv, MailTypes
<1>39. CASE StubWrite
  BY <1>39 DEF StubWrite, StubRest, Host, target, locals, Running, Step, Failed, Off, MailInv, MailTypes
<1>40. CASE ReportErr
  BY <1>40 DEF ReportErr, StubRest, Host, target, locals, Running, Step, Failed, Off, MailInv, MailTypes
<1>41. CASE ReportStatus
  BY <1>41 DEF ReportStatus, StubRest, Host, target, locals, Running, Step, Failed, Off, MailInv, MailTypes
<1> QED BY <1>1, <1>2, <1>3, <1>4, <1>5, <1>6, <1>7, <1>8, <1>9, <1>10, <1>11, <1>12, <1>13, <1>14, <1>15, <1>16, <1>17, <1>18, <1>19, <1>20, <1>21, <1>22, <1>23, <1>24, <1>25, <1>26, <1>27, <1>28, <1>29, <1>30, <1>31, <1>32, <1>33, <1>34, <1>35, <1>36, <1>37, <1>38, <1>39, <1>40, <1>41 DEF Next, ByRom, RomNext, HostNext, StubNext

(***************************************************************************)
(* Every change of the array is an erase or a program of the job           *)
(***************************************************************************)
Changes(S) ==
  /\ flash' \in [Addr -> Word]
  /\ UNCHANGED flash \/ Array!Erase \/ Array!Program
  /\ \A s \in FlashSectors \ S : Kept(s)

\* While a host or a stub works there is a job, one of an operation.
LEMMA Working ==
  ASSUME ControlInv, JobInv, op # None \/ stub.pc # "off"
  PROVE  /\ ~JobOver /\ job \in JobsOf(Ops)
         /\ job.sectors \subseteq FlashSectors /\ job.verify \in BOOLEAN
         /\ \E o \in Ops : job.image = Image(o)
<1>1. op # None => result = None
  BY DEF ControlInv
<1>2. op = None => result = "abandoned"
  BY SpiflashAssumption DEF ControlInv, Pcs, StubPcs
<1>3. ~JobOver
  BY <1>1, <1>2, SpiflashAssumption DEF JobOver
<1>4. job \in JobsOf(Ops)
  BY <1>2 DEF JobInv
<1>5. PICK s \in SUBSET (0..(Sectors - 1)), o \in Ops, v \in BOOLEAN :
        job = [sectors |-> s, image |-> Image(o), verify |-> v]
  BY <1>4 DEF JobsOf
<1>6. job.sectors = s /\ job.image = Image(o) /\ job.verify = v
  BY <1>5
<1> QED BY <1>3, <1>4, <1>6 DEF FlashSectors

\* What flash_write sends at a time.
LEMMA ChunkIs ==
  ASSUME op \in Ops, op.kind # "incremental", k \in Nat, k < Len(op.data)
  PROVE  /\ Chunk \in Seq(Word) /\ Len(Chunk) \in 1..W /\ k + Len(Chunk) <= Len(op.data)
         /\ Len(Chunk) = W \/ k + Len(Chunk) = Len(op.data)
         /\ k + W < Len(op.data) => Len(Chunk) = W
         /\ ~(k + W < Len(op.data)) => k + Len(Chunk) = Len(op.data)
         /\ \A i \in 1..Len(Chunk) :
              /\ Chunk[i] = op.data[k + i]
              /\ op.at + k + i - 1 \in DOMAIN Image(op)
              /\ Chunk[i] = Image(op)[op.at + k + i - 1]
              /\ SectorOf(op.at + k + i - 1) \in Covered(op)
<1> DEFINE data == op.data
           last == IF k + W < Len(data) THEN k + W ELSE Len(data)
<1>1. data \in Seq(Word) /\ Len(data) \in Nat /\ Padded(op) = data /\ op.at \in Nat
  BY PaddedIs
<1>2. last \in Nat /\ k < last /\ last <= Len(data) /\ last - k <= W
      /\ (last = k + W \/ last = Len(data))
  BY <1>1, Sizes
<1>3. Chunk = SubSeq(data, k + 1, last)
  BY DEF Chunk
<1>4. /\ Chunk \in Seq(Word) /\ Len(Chunk) = last - k
      /\ \A i \in 1..(last - k) : Chunk[i] = data[k + i]
  <2> HIDE DEF last
  <2>1. \A i \in (k + 1)..last : i \in 1..Len(data)
    BY <1>1, <1>2
  <2>2. /\ Len(Chunk) = IF k + 1 <= last THEN last - (k + 1) + 1 ELSE 0
        /\ \A i \in 1..Len(Chunk) : Chunk[i] = data[k + 1 + i - 1]
        /\ Chunk \in Seq(Word)
    BY <1>1, <1>2, <1>3, <2>1, SubSeqProperties
  <2> QED BY <1>1, <1>2, <2>2
<1>5. ASSUME NEW i \in 1..Len(Chunk)
      PROVE  /\ Chunk[i] = data[k + i] /\ op.at + k + i - 1 \in DOMAIN Image(op)
             /\ Chunk[i] = Image(op)[op.at + k + i - 1]
  <2> HIDE DEF last
  <2>1. k + i \in 1..Len(data) /\ i \in 1..(last - k)
    BY <1>1, <1>2, <1>4
  <2>2. op.at + k + i - 1 \in op.at..(op.at + Len(data) - 1) /\ (op.at + k + i - 1) - op.at + 1 = k + i
    BY <1>1, <2>1
  <2>3. Chunk[i] = data[k + i]
    BY <1>4, <2>1
  <2>4. op.at + k + i - 1 \in DOMAIN Image(op)
    BY <1>1, <2>2, ImageIs
  <2>5. Image(op)[op.at + k + i - 1] = data[k + i]
    BY <1>1, <2>2, <2>4, ImageIs
  <2> QED BY <2>3, <2>4, <2>5
<1>6. \A a \in DOMAIN Image(op) : SectorOf(a) \in Covered(op)
  BY ImageIs
<1>7. Len(Chunk) \in 1..W /\ k + Len(Chunk) <= Len(data)
      /\ (Len(Chunk) = W \/ k + Len(Chunk) = Len(data))
      /\ (k + W < Len(data) => Len(Chunk) = W)
      /\ (~(k + W < Len(data)) => k + Len(Chunk) = Len(data))
  BY <1>1, <1>2, <1>4, Sizes
<1> QED BY <1>4, <1>5, <1>6, <1>7

\* The words of a sector of the job, or some of them in a row.
LEMMA ProgramSector ==
  ASSUME DataInv, ~JobOver, job.sectors \subseteq FlashSectors, NEW s \in job.sectors,
         NEW words \in Contents, Carries(words, s), NEW w0 \in 1..W, NEW w1 \in 1..W, w0 <= w1,
         NEW how \in Endings, flash' \in AfterProgram(how, s * W + w0 - 1, SubSeq(words, w0, w1))
  PROVE  Changes({s})
<1> DEFINE run == SubSeq(words, w0, w1)
           at == s * W + w0 - 1
<1>1. words \in Seq(Word) /\ Len(words) = W
  BY Sizes DEF Contents
<1>2. run \in Seq(Word) /\ Len(run) = w1 - w0 + 1 /\ \A i \in 1..Len(run) : run[i] = words[w0 + i - 1]
  BY <1>1, Sizes, SubSeqProperties
<1>3. at \in Nat /\ s * W \in Nat
  BY Sizes DEF FlashSectors
<1>4. ASSUME NEW i \in 1..Len(run)
      PROVE  /\ at + i - 1 \in DOMAIN job.image /\ run[i] = job.image[at + i - 1]
             /\ SectorOf(at + i - 1) \in {s}
  <2> DEFINE j == w0 + i - 1
  <2>1. j \in 1..W
    BY <1>2, Sizes
  <2>2. at + i - 1 = s * W + j - 1
    BY <1>3, <1>2
  <2>3. run[i] = words[j]
    BY <1>2
  <2> HIDE DEF j, at, run
  <2>4. s * W + j - 1 \in DOMAIN job.image /\ words[j] = job.image[s * W + j - 1]
    BY <2>1 DEF Carries
  <2>5. SectorOf(s * W + j - 1) = s
    BY <2>1, SectorWords
  <2> QED BY <2>2, <2>3, <2>4, <2>5
<1> HIDE DEF run, at
<1>5. flash' \in AfterProgram(how, at, run)
  BY DEF run, at
<1> QED BY <1>2, <1>3, <1>4, <1>5, ProgramIs DEF Changes

\* Programming a sector of the job with words that carry it changes that sector only.
LEMMA ProgramWhole ==
  ASSUME DataInv, ~JobOver, job.sectors \subseteq FlashSectors, NEW s \in job.sectors,
         NEW words \in Contents, Carries(words, s),
         NEW how \in Endings, flash' \in AfterProgram(how, s * W, words)
  PROVE  Changes({s})
<1>1. words \in Seq(Word) /\ Len(words) = W
  BY Sizes DEF Contents
<1>2. s * W \in Nat
  BY Sizes DEF FlashSectors
<1>3. \A i \in 1..Len(words) : /\ s * W + i - 1 \in DOMAIN job.image
                               /\ words[i] = job.image[s * W + i - 1]
                               /\ SectorOf(s * W + i - 1) \in {s}
  BY <1>1, SectorWords DEF Carries
<1> QED BY <1>1, <1>2, <1>3, ProgramIs, ZenonT(60) DEF Changes

\* The image of a sector that is to change.
LEMMA ImgIs ==
  ASSUME ControlInv, JobInv, ListInv, pc \in ChangedPcs
  PROVE  /\ k \in 1..Len(changed) /\ This \in job.sectors /\ This \in Covered(op) /\ op \in Ops
         /\ This \in FlashSectors /\ op.kind = "incremental"
         /\ Img \in Contents /\ Carries(Img, This)
<1>1. op \in Ops /\ op # None /\ op.kind = "incremental"
  BY DEF ControlInv, ChangedPcs, RomPcs, StubPcs
<1>2. changed \in Seq(job.sectors) /\ k \in 1..Len(changed)
  BY DEF ListInv, Listed
<1>3. This \in job.sectors /\ This \in Covered(op)
  BY <1>1, <1>2 DEF This, JobInv
<1>4. Img \in Contents /\ \A i \in 1..W : This * W + i - 1 \in DOMAIN Image(op)
  BY <1>1, <1>3, WholeSectors DEF Img
<1>5. Carries(Img, This)
  BY <1>1, <1>4 DEF Carries, Img, ImageSector, JobInv
<1> QED BY <1>1, <1>2, <1>3, <1>4, <1>5, Working

List == {changed[i] : i \in DOMAIN changed}

\* What a step may do to the flash: nothing, or a change in the sectors of the job.
LEMMA FlashStep ==
  ASSUME ControlInv, DataInv, JobInv, ListInv, StepInv, MailInv, FlightInv, Next
  PROVE  \/ UNCHANGED flash
         \/ /\ op # None \/ stub.pc # "off"
            /\ configured
            /\ Changes(job.sectors)
            /\ op # None /\ Listed => Changes(List)
<1>1. ASSUME op # None \/ stub.pc # "off", configured, NEW s \in job.sectors, Changes({s}),
             op # None /\ Listed => s \in List
      PROVE  Changes(job.sectors) /\ (op # None /\ Listed => Changes(List))
  BY <1>1 DEF Changes
<1>2. pc \in WritePcs \cup RomPcs \cup StubPcs => op # None /\ op \in Ops /\ configured
  BY DEF ControlInv, WritePcs, RomPcs, StubPcs
<1>3. ASSUME pc \in ChangedPcs, NEW s, s = This, Changes({s})
      PROVE  /\ op # None /\ configured
             /\ Changes(job.sectors)
             /\ op # None /\ Listed => Changes(List)
  <2>1. s \in job.sectors /\ k \in DOMAIN changed
    BY <1>3, ImgIs DEF ListInv, Listed
  <2>2. s \in List
    BY <1>3, <2>1 DEF List, This
  <2>3. op # None /\ configured
    BY <1>2, <1>3 DEF ChangedPcs, RomPcs, StubPcs
  <2> QED BY <1>1, <1>3, <2>1, <2>2, <2>3
<1>4. CASE EraseNext
  <2>1. pc = "erase" /\ op.kind = "write" /\ op \in Ops /\ op # None /\ configured
    BY <1>2, <1>4 DEF EraseNext, At, WritePcs
  <2>2. k \in Covered(op) /\ job.sectors = Covered(op) /\ ~Listed
    BY <2>1 DEF StepInv, JobInv, Listed, ChangedPcs, StubPcs
  <2> DEFINE these == IF Whole(k) THEN k..(k + BlockSectors - 1) ELSE {k}
  <2>3. these \subseteq Covered(op)
    BY <2>1, <2>2, ImageIs, Sizes DEF Whole, Covered
  <2>4. PICK how \in Endings : flash' \in AfterErase(how, these)
    BY <1>4 DEF EraseNext
  <2> HIDE DEF these
  <2>5. Changes(these)
    BY <2>1, <2>2, <2>3, <2>4, Working, EraseIs DEF Changes
  <2>6. Changes(job.sectors)
    BY <2>2, <2>3, <2>5 DEF Changes
  <2> QED BY <2>1, <2>2, <2>6
<1>5. CASE ProgramNext
  <2>1. pc = "program" /\ op.kind # "incremental" /\ op \in Ops /\ op # None /\ configured
    BY <1>2, <1>5 DEF ProgramNext, At, ControlInv, WritePcs
  <2>2. /\ k \in Nat /\ k < Len(op.data) /\ job.sectors = Covered(op) /\ job.image = Image(op)
        /\ ~Listed
    BY <2>1 DEF StepInv, DataInv, JobInv, Listed, ChangedPcs, StubPcs
  <2>3. PICK how \in Endings : flash' \in AfterProgram(how, op.at + k, Chunk)
    BY <1>5 DEF ProgramNext
  <2>4. op.at + k \in Nat
    BY <2>1, <2>2, PaddedIs
  <2>5. /\ Chunk \in Seq(Word)
        /\ \A i \in 1..Len(Chunk) : /\ (op.at + k) + i - 1 \in DOMAIN job.image
                                    /\ Chunk[i] = job.image[(op.at + k) + i - 1]
                                    /\ SectorOf((op.at + k) + i - 1) \in job.sectors
    BY <2>1, <2>2, ChunkIs
  <2>6. Changes(job.sectors)
    BY <2>1, <2>3, <2>4, <2>5, Working, ProgramIs DEF Changes
  <2> QED BY <2>1, <2>2, <2>6
<1>6. CASE XtensaErase
  <2>1. pc = "erase" /\ op.kind = "xtensa" /\ op \in Ops /\ op # None /\ configured
    BY <1>2, <1>6 DEF XtensaErase, At, WritePcs
  <2>2. k \in Covered(op) /\ job.sectors = Covered(op) /\ ~Listed
    BY <2>1 DEF StepInv, JobInv, Listed, ChangedPcs, StubPcs
  <2>3. UNCHANGED flash \/ \E how \in Endings : flash' \in AfterErase(how, {k})
    BY <1>6 DEF XtensaErase, Skips
  <2>4. ASSUME NEW how \in Endings, flash' \in AfterErase(how, {k})
        PROVE  Changes(job.sectors)
    <3>1. {k} \subseteq job.sectors
      BY <2>2
    <3>2. Changes({k})
      BY <2>1, <2>4, <3>1, Working, EraseIs DEF Changes
    <3> QED BY <3>1, <3>2 DEF Changes
  <2> QED BY <2>1, <2>2, <2>3, <2>4
<1>7. CASE Overwrite
  <2>1. pc \in ChangedPcs
    BY <1>7 DEF Overwrite, At, ChangedPcs
  <2>2. PICK w0 \in 1..W, w1 \in 1..W, how \in Endings :
          w0 <= w1 /\ flash' \in AfterProgram(how, This * W + w0 - 1, SubSeq(Img, w0, w1))
    BY <1>7 DEF Overwrite
  <2>3. Changes({This})
    BY <2>1, <2>2, ImgIs, Working, ProgramSector DEF ControlInv, ChangedPcs, RomPcs, StubPcs
  <2> QED BY <1>3, <2>1, <2>3
<1>8. CASE EraseEnds
  <2>1. pc \in ChangedPcs
    BY <1>8 DEF EraseEnds, At, ChangedPcs
  <2>2. PICK how \in Endings : flash' \in AfterErase(how, {This})
    BY <1>8 DEF EraseEnds
  <2>3. {This} \subseteq job.sectors /\ ~JobOver
    BY <1>8, <2>1, ImgIs, Working DEF EraseEnds, At
  <2>4. Changes({This})
    BY <2>2, <2>3, EraseIs DEF Changes
  <2> QED BY <1>3, <2>1, <2>4
<1>9. CASE WriteSector
  <2>1. pc \in ChangedPcs /\ pc = "write" /\ op # None
    BY <1>9 DEF WriteSector, At, ChangedPcs
  <2>2. PICK how \in Endings : flash' \in AfterProgram(how, This * W, buf["A"])
    BY <1>9 DEF WriteSector
  <2>3. buf["A"] = Img
    BY <2>1 DEF StepInv, Img, This
  <2>4. Changes({This})
    BY <2>1, <2>2, <2>3, ImgIs, Working, ProgramWhole
  <2> QED BY <1>3, <2>1, <2>4
<1>10. ASSUME Programming, NEW s, s = stub.args.at, Changes({s})
       PROVE  /\ configured
              /\ Changes(job.sectors)
              /\ op # None /\ Listed => Changes(List)
  <2>1. stub.pc # "off"
    BY <1>10 DEF Programming
  <2>2. s \in job.sectors /\ (op # None => s \in List)
    BY <1>10 DEF FlightInv, Staging, Posted, Carried, List
  <2>3. configured
    BY <2>1 DEF ControlInv
  <2> QED BY <1>1, <1>10, <2>1, <2>2, <2>3
<1>11. CASE StubErase
  <2>1. Programming /\ stub.pc # "off"
    BY <1>11 DEF StubErase, Running, Programming
  <2>2. PICK how \in Endings : flash' \in AfterErase(how, {stub.args.at})
    BY <1>11 DEF StubErase
  <2>3. {stub.args.at} \subseteq job.sectors /\ ~JobOver
    BY <2>1, Working DEF FlightInv, Staging, Posted, Carried
  <2>4. Changes({stub.args.at})
    BY <2>2, <2>3, EraseIs DEF Changes
  <2> QED BY <1>10, <2>1, <2>4
<1>12. CASE StubWrite
  <2>1. Programming /\ stub.pc # "off"
    BY <1>12 DEF StubWrite, Running, Programming
  <2>2. PICK how \in Endings : flash' \in AfterProgram(how, stub.args.at * W, buf[stub.args.buf])
    BY <1>12 DEF StubWrite
  <2>3. /\ stub.args.at \in job.sectors /\ stub.args.buf \in {"A", "B"}
        /\ Carries(buf[stub.args.buf], stub.args.at)
    BY <2>1 DEF FlightInv, Staging, Posted, Carried
  <2>4. buf[stub.args.buf] \in Contents
    BY <2>3 DEF DataInv
  <2>5. Changes({stub.args.at})
    BY <2>1, <2>2, <2>3, <2>4, Working, ProgramWhole
  <2> QED BY <1>10, <2>1, <2>5
<1>13. CASE ByRom /\ ~(EraseNext \/ ProgramNext \/ XtensaErase \/ Overwrite \/ EraseEnds \/ WriteSector)
  BY <1>13 DEF ByRom, RomNext, Start, GateRead, FlashInit, Raise, Unlock, VerifyNext, XtensaVerify,
    Calibrate, CrcNext, SectorRead, UnlockRun, StageSector, CrcVerify, target
<1>14. CASE HostNext
  BY <1>14 DEF HostNext, StubBegin, StubBeginRaises, PostArgs, PostCmd, Wait, WaitExpires, TryRaises,
    EndRaises, DiffRange, Digests, StageNext, PostSector, AllPosted, Trapped, TrapExpires, target
<1>15. CASE Fetch \/ CrcSector \/ StubUnlock \/ ReportErr \/ ReportStatus
  BY <1>15 DEF Fetch, CrcSector, StubUnlock, ReportErr, ReportStatus
<1> QED BY <1>4, <1>5, <1>6, <1>7, <1>8, <1>9, <1>11, <1>12, <1>13, <1>14, <1>15
       DEF Next, StubNext

(***************************************************************************)
(* The invariant: the array and the buffers                                *)
(***************************************************************************)
LEMMA OverIs ==
  ASSUME NEW words \in Seq(Word), NEW old \in Contents
  PROVE  Over(words, old) \in Contents
<1>1. Len(words) \in Nat /\ \A i \in 1..Len(words) : words[i] \in Word
  OBVIOUS
<1>2. ASSUME NEW i \in 1..W PROVE (IF i <= Len(words) THEN words[i] ELSE old[i]) \in Word
  BY <1>1, <1>2, Sizes DEF Contents
<1> QED BY <1>2 DEF Over, Contents

\* What a read of a stretch of the flash gives.
LEMMA ContentIs ==
  ASSUME flash \in [Addr -> Word], NEW at \in Nat, NEW n \in Nat, at + n <= Sectors * W
  PROVE  /\ Content(at, n) \in Seq(Word) /\ Len(Content(at, n)) = n
         /\ \A i \in 1..n : Content(at, n)[i] = flash[at + i - 1]
<1>1. Sectors * W \in Nat
  BY Sizes
<1>2. \A i \in 1..n : at + i - 1 \in Addr
  BY <1>1 DEF Addr
<1>3. \A i \in 1..n : flash[at + i - 1] \in Word
  BY <1>2
<1> QED BY <1>3 DEF Content

\* A sector is a stretch of its own length.
LEMMA SectorContents ==
  ASSUME flash \in [Addr -> Word], NEW s \in FlashSectors
  PROVE  s * W \in Nat /\ s * W + W <= Sectors * W /\ Sector(s) \in Contents
<1>1. s \in Nat /\ s * W \in Nat /\ Sectors * W \in Nat
  BY Sizes DEF FlashSectors
<1>2. s * W + W - 1 \in Addr
  BY SectorWords, Sizes, <1>1
<1>3. \A i \in 1..W : flash[s * W + i - 1] \in Word
  BY SectorWords
<1>4. Sector(s) \in Contents
  BY <1>3 DEF Sector, Content, Contents
<1> QED BY <1>1, <1>2, <1>4, Sizes DEF Addr

\* A read of the ROM that does not fail unseen.
LEMMA ReadIs ==
  ASSUME DataInv, NEW at \in Nat, NEW n \in Nat, n <= W, at + n <= Sectors * W, RomRead(at, n)
  PROVE  /\ buf' \in [{"A", "B"} -> Contents]
         /\ ~silent => \A i \in 1..n : buf'["A"][i] = flash[at + i - 1]
         /\ ~silent /\ n = W => buf'["A"] = Content(at, W)
<1>1. CASE UNCHANGED buf /\ silent
  BY <1>1 DEF DataInv
<1>2. CASE buf' = [buf EXCEPT !["A"] = Over(Content(at, n), buf["A"])]
  <2>1. flash \in [Addr -> Word] /\ buf["A"] \in Contents /\ buf \in [{"A", "B"} -> Contents]
    BY DEF DataInv
  <2>2. /\ Content(at, n) \in Seq(Word) /\ Len(Content(at, n)) = n
        /\ \A i \in 1..n : Content(at, n)[i] = flash[at + i - 1]
    BY <2>1, ContentIs
  <2>3. Over(Content(at, n), buf["A"]) \in Contents
    BY <2>1, <2>2, OverIs
  <2>4. buf' \in [{"A", "B"} -> Contents] /\ buf'["A"] = Over(Content(at, n), buf["A"])
    BY <1>2, <2>1, <2>3
  <2>5. ASSUME NEW i \in 1..n PROVE buf'["A"][i] = flash[at + i - 1]
    <3>1. Over(Content(at, n), buf["A"])[i] = Content(at, n)[i]
      BY <2>2, <2>5, Sizes DEF Over
    <3> QED BY <2>2, <2>4, <3>1
  <2>6. ASSUME n = W PROVE buf'["A"] = Content(at, W)
    <3>1. \A i \in 1..W : buf'["A"][i] = flash[at + i - 1]
      BY <2>5, <2>6
    <3>2. buf'["A"] = [i \in 1..W |-> buf'["A"][i]]
      BY <2>4 DEF Contents
    <3> QED BY <3>1, <3>2 DEF Content
  <2> QED BY <2>4, <2>5, <2>6
<1> QED BY <1>1, <1>2 DEF RomRead

\* A read of a whole sector that is not silent leaves it in the first buffer.
LEMMA ReadSector ==
  ASSUME DataInv, ~silent, NEW s \in FlashSectors, RomRead(s * W, W)
  PROVE  buf'["A"] = Sector(s)
<1>1. s * W \in Nat /\ s * W + W <= Sectors * W
  BY SectorContents DEF DataInv
<1>2. buf'["A"] = Content(s * W, W)
  BY <1>1, ReadIs, Sizes
<1> QED BY <1>2 DEF Sector

\* Every step leaves whole sectors in the buffers.
LEMMA BufStep ==
  ASSUME ControlInv, DataInv, JobInv, ListInv, StepInv, MailInv, DigestInv, Next
  PROVE  buf' \in [{"A", "B"} -> Contents]
<1>1. buf \in [{"A", "B"} -> Contents] /\ buf["A"] \in Contents /\ flash \in [Addr -> Word]
  BY DEF DataInv
<1>2. ASSUME NEW b \in {"A", "B"}, NEW words \in Contents, buf' = [buf EXCEPT ![b] = words]
      PROVE  buf' \in [{"A", "B"} -> Contents]
  BY <1>1, <1>2
<1>3. CASE ProgramNext
  <2>1. op \in Ops /\ op.kind # "incremental" /\ k \in Nat /\ k < Len(op.data)
    BY <1>3 DEF ProgramNext, At, ControlInv, StepInv, DataInv, WritePcs
  <2>2. Over(Chunk, buf["A"]) \in Contents
    BY <1>1, <2>1, ChunkIs, OverIs
  <2>3. buf' = [buf EXCEPT !["A"] = Over(Chunk, buf["A"])]
    BY <1>3 DEF ProgramNext
  <2> QED BY <1>2, <2>2, <2>3
<1>4. CASE VerifyNext
  <2>1. op \in Ops /\ op.kind # "incremental" /\ k \in Nat /\ k < Len(op.data)
    BY <1>4 DEF VerifyNext, At, ControlInv, StepInv, DataInv, WritePcs
  <2>2. /\ op.at + k \in Nat /\ Len(Chunk) \in Nat /\ Len(Chunk) <= W
        /\ op.at + k + Len(Chunk) <= Sectors * W
    <3>1. /\ op.at \in Nat /\ Len(Chunk) \in 1..W /\ k + Len(Chunk) <= Len(op.data)
          /\ op.at + Len(op.data) <= Sectors * W /\ Len(op.data) \in Nat
      BY <2>1, ChunkIs, PaddedIs
    <3>2. Sectors * W \in Nat
      BY Sizes
    <3> QED BY <2>1, <3>1, <3>2, Sizes
  <2>3. RomRead(op.at + k, Len(Chunk))
    BY <1>4 DEF VerifyNext
  <2> QED BY <2>2, <2>3, ReadIs
<1>5. ASSUME NEW s \in FlashSectors, RomRead(s * W, W) PROVE buf' \in [{"A", "B"} -> Contents]
  BY <1>1, <1>5, SectorContents, ReadIs, Sizes
<1>6. CASE CrcNext
  <2>1. op \in Ops /\ k \in Covered(op)
    BY <1>6 DEF CrcNext, At, ControlInv, StepInv
  <2>2. k \in FlashSectors
    BY <2>1, ImageIs DEF FlashSectors
  <2>3. RomRead(k * W, W)
    BY <1>6 DEF CrcNext
  <2> QED BY <1>5, <2>2, <2>3
<1>7. CASE SectorRead \/ CrcVerify
  <2>1. This \in FlashSectors
    BY <1>7, ImgIs DEF SectorRead, CrcVerify, At, ChangedPcs
  <2>2. RomRead(This * W, W) \/ UNCHANGED buf
    BY <1>7 DEF SectorRead, CrcVerify
  <2> QED BY <1>1, <1>5, <2>1, <2>2
<1>8. CASE Overwrite
  <2>1. Img \in Contents
    BY <1>8, ImgIs DEF Overwrite, At, ChangedPcs
  <2>2. PICK w0 \in 1..W, w1 \in 1..W :
          w0 <= w1 /\ buf' = [buf EXCEPT !["A"] = Over(SubSeq(Img, w0, w1), buf["A"])]
    BY <1>8 DEF Overwrite
  <2>3. Img \in Seq(Word) /\ Len(Img) = W
    BY <2>1, Sizes DEF Contents
  <2>4. SubSeq(Img, w0, w1) \in Seq(Word)
    BY <2>2, <2>3, Sizes, SubSeqProperties
  <2>5. Over(SubSeq(Img, w0, w1), buf["A"]) \in Contents
    BY <1>1, <2>4, OverIs
  <2> QED BY <1>2, <2>2, <2>5
<1>9. CASE StageSector
  <2>1. Img \in Contents
    BY <1>9, ImgIs DEF StageSector, At, ChangedPcs
  <2> QED BY <1>1, <1>9, <2>1 DEF StageSector
<1>10. CASE StageNext
  <2>1. Img \in Contents
    BY <1>10, ImgIs DEF StageNext, At, ChangedPcs
  <2> QED BY <1>1, <1>10, <2>1 DEF StageNext, Buffer
<1>11. CASE CrcSector
  <2>1. CrcRange(stub.args) /\ stub.s <= stub.args.count
    BY <1>11 DEF CrcSector, Running, DigestInv, SoFar, Diffing, RangeInv
  <2>2. stub.args.at \in Nat /\ stub.args.count \in Nat /\ stub.s \in Nat
    BY DEF MailInv, MailTypes, Stubs, Args
  <2>3. UNCHANGED buf \/ /\ stub.s # stub.args.count
                         /\ buf' = [buf EXCEPT ![stub.args.buf] = Sector(stub.args.at + stub.s)]
    BY <1>11 DEF CrcSector
  <2>4. ASSUME stub.s # stub.args.count PROVE Sector(stub.args.at + stub.s) \in Contents
    <3>1. stub.args.at + stub.s \in FlashSectors
      BY <2>1, <2>2, <2>4, Sizes DEF CrcRange, FlashSectors
    <3> QED BY <1>1, <3>1, SectorContents
  <2>5. stub.args.buf = "A"
    BY <2>1 DEF CrcRange
  <2> QED BY <1>1, <1>2, <2>3, <2>4, <2>5
<1>12. CASE ByRom /\ ~(ProgramNext \/ VerifyNext \/ CrcNext \/ SectorRead \/ CrcVerify \/ Overwrite \/ StageSector)
  BY <1>1, <1>12 DEF ByRom, RomNext, Start, GateRead, FlashInit, Raise, Unlock, EraseNext, XtensaErase,
    XtensaVerify, Calibrate, UnlockRun, EraseEnds, WriteSector, target
<1>13. CASE HostNext /\ ~StageNext
  BY <1>1, <1>13 DEF HostNext, StubBegin, StubBeginRaises, PostArgs, PostCmd, Wait, WaitExpires,
    TryRaises, EndRaises, DiffRange, Digests, PostSector, AllPosted, Trapped, TrapExpires, target
<1>14. CASE Fetch \/ StubUnlock \/ StubErase \/ StubWrite \/ ReportErr \/ ReportStatus
  BY <1>1, <1>14 DEF Fetch, StubUnlock, StubErase, StubWrite, ReportErr, ReportStatus
<1> QED BY <1>3, <1>4, <1>6, <1>7, <1>8, <1>9, <1>10, <1>11, <1>12, <1>13, <1>14
       DEF Next, StubNext

\* Every step keeps what flash and buffers hold.
LEMMA DataStep ==
  ASSUME ControlInv, DataInv, JobInv, ListInv, StepInv, MailInv, FlightInv, DigestInv, Next
  PROVE  DataInv'
<1>1. flash' \in [Addr -> Word]
  BY FlashStep DEF DataInv, Changes
<1>2. {protected', configured', silent'} \subseteq BOOLEAN
  <2>1. {protected, configured, silent} \subseteq BOOLEAN
    BY DEF DataInv
  <2>2. CASE ByRom
    BY <2>1, <2>2 DEF ByRom, RomNext, Start, GateRead, FlashInit, Raise, Unlock, EraseNext, ProgramNext,
      VerifyNext, XtensaErase, Skips, XtensaVerify, Calibrate, CrcNext, SectorRead, UnlockRun,
      Overwrite, StageSector, EraseEnds, WriteSector, CrcVerify, Unlocks, target
  <2>3. CASE HostNext
    BY <2>1, <2>3 DEF HostNext, StubBegin, StubBeginRaises, PostArgs, PostCmd, Wait, WaitExpires,
      TryRaises, EndRaises, DiffRange, Digests, StageNext, PostSector, AllPosted, Trapped, TrapExpires,
      target
  <2>4. CASE StubNext
    BY <2>1, <2>4 DEF StubNext, Fetch, CrcSector, StubUnlock, StubErase, StubWrite, ReportErr,
      ReportStatus, StubRest
  <2> QED BY <2>2, <2>3, <2>4 DEF Next
<1>3. k' \in Nat
  <2>1. k \in Nat
    BY DEF DataInv
  <2>2. op # None => op \in Ops /\ FirstSector(op) \in Nat /\ LastSector(op) \in Nat
    BY ImageIs DEF ControlInv
  <2>3. CASE ByRom
    <3>1. CASE Unlock \/ Calibrate
      BY <2>2, <3>1 DEF Unlock, Calibrate, At
    <3>2. CASE EraseNext \/ XtensaErase
      BY <2>1, <3>2, Sizes DEF EraseNext, XtensaErase, Return, NoLocals
    <3>3. CASE ProgramNext \/ VerifyNext
      <4>1. k' \in {k + W, 0}
        BY <3>3, Zenon DEF ProgramNext, VerifyNext, NextChunk, Return, NoLocals
      <4> QED BY <2>1, <4>1, Sizes
    <3>4. CASE CrcNext \/ CrcVerify \/ Overwrite \/ WriteSector
      <4>1. k' \in {k + 1, 1, 0}
        BY <3>4, Zenon DEF CrcNext, CrcVerify, Overwrite, WriteSector, NextSector, Return, NoLocals
      <4> QED BY <2>1, <4>1
    <3>5. CASE SectorRead
      <4>1. k' \in {k, 0}
        BY <3>5, Zenon DEF SectorRead, Return, NoLocals, locals
      <4> QED BY <2>1, <4>1
    <3>6. CASE GateRead \/ FlashInit \/ Raise \/ XtensaVerify \/ UnlockRun \/ StageSector \/ EraseEnds
               \/ \E o \in Ops : Start(o)
      <4>1. k' \in {k, 0}
        BY <3>6, Zenon DEF GateRead, FlashInit, Raise, XtensaVerify, UnlockRun, StageSector, EraseEnds,
          Start, Return, NoLocals, locals
      <4> QED BY <2>1, <4>1
    <3> QED BY <2>3, <3>1, <3>2, <3>3, <3>4, <3>5, <3>6 DEF ByRom, RomNext
  <2>4. CASE HostNext
    <3>1. CASE Digests
      <4>1. k' \in {k, 1} \/ (k' = k + Range1 /\ k + Range1 <= LastSector(op))
        BY <3>1, Zenon DEF Digests, locals
      <4>2. k + Range1 <= LastSector(op) => k + Range1 \in Nat
        BY <2>1, <2>2, <3>1, Sizes DEF Range1, Digests, At
      <4> QED BY <2>1, <4>1, <4>2
    <3>2. CASE AllPosted \/ PostSector
      <4>1. k' \in {k, k + 1} \/ (k' = FirstSector(op) /\ op # None)
        BY <3>2, Zenon DEF AllPosted, PostSector, At
      <4> QED BY <2>1, <2>2, <4>1
    <3>3. CASE ~(Digests \/ AllPosted \/ PostSector)
      <4>1. k' \in {k, 0}
        BY <2>4, <3>3, Zenon DEF HostNext, StubBegin, StubBeginRaises, PostArgs, PostCmd, Wait, WaitExpires,
          TryRaises, EndRaises, DiffRange, StageNext, Trapped, TrapExpires, locals, Return, NoLocals
      <4> QED BY <2>1, <4>1
    <3> QED BY <3>1, <3>2, <3>3
  <2>5. CASE StubNext
    BY <2>1, <2>5, Zenon DEF StubNext, Fetch, CrcSector, StubUnlock, StubErase, StubWrite, ReportErr,
      ReportStatus, StubRest, Host, locals
  <2> QED BY <2>3, <2>4, <2>5 DEF Next
<1> QED BY <1>1, <1>2, <1>3, BufStep DEF DataInv

(***************************************************************************)
(* The invariant: the job                                                  *)
(***************************************************************************)
\* A sector no word of which changes has the same contents.
LEMMA KeptSector ==
  ASSUME NEW s, Kept(s) \/ UNCHANGED flash
  PROVE  Sector(s)' = Sector(s)
BY DEF Kept, Sector, Content

\* Until it ends an operation, its job, and what is silent, are the same.
LEMMA SameJob ==
  ASSUME ControlInv, Next, op # None
  PROVE  /\ silent' = silent /\ job' = job
         /\ op' = op \/ op' = None
         /\ op' = op => result' = result
         /\ op' = None => pc' = "idle"
<1>1. CASE ByRom
  BY <1>1 DEF ByRom, RomNext, Start, GateRead, FlashInit, Raise, Unlock, EraseNext, ProgramNext,
    VerifyNext, XtensaErase, XtensaVerify, Calibrate, CrcNext, SectorRead, UnlockRun, Overwrite,
    StageSector, EraseEnds, WriteSector, CrcVerify, NextChunk, NextSector, Goto, Return, target
<1>2. CASE HostNext
  BY <1>2 DEF HostNext, StubBegin, StubBeginRaises, PostArgs, PostCmd, Wait, WaitExpires, Quit, Post,
    TryRaises, EndRaises, DiffRange, Digests, StageNext, PostSector, AllPosted, Trapped, TrapExpires,
    Goto, Return, target, ControlInv
<1>3. CASE StubNext
  BY <1>3 DEF StubNext, Fetch, CrcSector, StubUnlock, StubErase, StubWrite, ReportErr,
    ReportStatus, StubRest, Host, ControlInv
<1> QED BY <1>1, <1>2, <1>3 DEF Next

\* Without one, all that can happen is the next, or the stub that was left behind.
LEMMA NoOperation ==
  ASSUME ControlInv, Next, op = None
  PROVE  \/ \E o \in Ops : Start(o) /\ UNCHANGED stubVars
         \/ StubNext /\ UNCHANGED <<Host, silent>> /\ result = "abandoned"
<1>1. CASE ByRom
  BY <1>1 DEF ByRom, RomNext, GateRead, FlashInit, Raise, Unlock, EraseNext, ProgramNext,
    VerifyNext, XtensaErase, XtensaVerify, Calibrate, CrcNext, SectorRead, UnlockRun, Overwrite,
    StageSector, EraseEnds, WriteSector, CrcVerify, At
<1>2. CASE HostNext
  BY <1>2 DEF HostNext, StubBegin, StubBeginRaises, PostArgs, PostCmd, Wait, WaitExpires,
    TryRaises, EndRaises, DiffRange, Digests, StageNext, PostSector, AllPosted, Trapped, TrapExpires, At
<1>3. CASE StubNext
  <2>1. UNCHANGED <<Host, silent>> /\ stub.pc # "off"
    BY <1>3 DEF StubNext, Fetch, CrcSector, StubUnlock, StubErase, StubWrite, ReportErr,
      ReportStatus, StubRest, Running
  <2> QED BY <1>3, <2>1 DEF ControlInv, StubPcs
<1> QED BY <1>1, <1>2, <1>3 DEF Next

\* Every step keeps the job the one of the operation.
LEMMA JobStep ==
  ASSUME ControlInv, DataInv, JobInv, ListInv, StepInv, MailInv, FlightInv, ControlInv', Next
  PROVE  JobInv'
<1>1. CASE op # None /\ op' = op
  <2>1. silent' = silent /\ job' = job /\ result' # "abandoned"
    BY <1>1, SameJob, SpiflashAssumption DEF ControlInv
  <2>2. ASSUME NEW s \in Covered(op) \ job.sectors PROVE Sector(s)' = ImageSector(op, s)
    <3>1. s \in FlashSectors
      BY <1>1, ImageIs DEF ControlInv, FlashSectors
    <3>2. Kept(s) \/ UNCHANGED flash
      BY <3>1, FlashStep DEF Changes
    <3>3. Sector(s)' = Sector(s)
      BY <3>2, KeptSector
    <3> QED BY <1>1, <3>3 DEF JobInv
  <2>3. \A s \in Covered(op)' \ job.sectors' : Sector(s)' = ImageSector(op, s)'
    BY <1>1, <2>1, <2>2 DEF Covered, FirstSector, LastSector, ImageSector
  <2> QED BY <1>1, <2>1, <2>3 DEF JobInv, Covered, FirstSector, LastSector
<1>2. CASE op # None /\ op' = None
  BY <1>2, SameJob DEF JobInv
<1>3. ASSUME op = None, NEW o \in Ops, Start(o), UNCHANGED stubVars PROVE JobInv'
  <2>1. /\ op' = o /\ UNCHANGED <<flash, silent, result>> /\ result = None
        /\ job' = [sectors |-> IF silent THEN Covered(o) ELSE ToChange(o), image |-> Image(o),
                   verify |-> o.verify /\ ~silent]
    BY <1>3 DEF Start, target
  <2>2. o.verify \in BOOLEAN /\ silent \in BOOLEAN
    BY SpiflashAssumption DEF DataInv
  <2>3. job'.sectors \subseteq Covered(o) /\ job'.image = Image(o) /\ job'.verify = (o.verify /\ ~silent)
    BY <2>1 DEF ToChange
  <2>4. job' \in JobsOf(Ops)
    <3> DEFINE S == IF silent THEN Covered(o) ELSE ToChange(o)
    <3>1. S \in SUBSET (0..(Sectors - 1)) /\ (o.verify /\ ~silent) \in BOOLEAN
      <4>1. S \subseteq Covered(o) /\ Covered(o) \subseteq 0..(Sectors - 1)
        BY ImageIs DEF ToChange
      <4> QED BY <2>2, <4>1
    <3>2. job' = [sectors |-> S, image |-> Image(o), verify |-> o.verify /\ ~silent]
      BY <2>1
    <3> HIDE DEF S
    <3>3. \E s \in SUBSET (0..(Sectors - 1)), x \in Ops, v \in BOOLEAN :
            job' = [sectors |-> s, image |-> Image(x), verify |-> v]
      BY <3>1, <3>2, Zenon
    <3> QED BY <3>3 DEF JobsOf
  <2>5. silent \/ o.kind # "incremental" => job'.sectors = Covered(o)
    BY <2>1 DEF ToChange
  <2>6. \A s \in Covered(o) \ job'.sectors : Sector(s) = ImageSector(o, s)
    BY <2>1 DEF ToChange
  <2>7. result' # "abandoned"
    BY <2>1, SpiflashAssumption
  <2>8. Covered(op)' = Covered(o) /\ Image(op)' = Image(o) /\ \A s : ImageSector(op, s)' = ImageSector(o, s)
    BY <2>1 DEF Covered, FirstSector, LastSector, ImageSector
  <2>9. \A s : Sector(s)' = Sector(s)
    BY <2>1 DEF Sector, Content
  <2> QED BY <2>1, <2>3, <2>4, <2>5, <2>6, <2>7, <2>8, <2>9 DEF JobInv
<1>4. CASE op = None /\ StubNext /\ UNCHANGED <<Host, silent>> /\ result = "abandoned"
  BY <1>4 DEF JobInv, Host
<1> QED BY <1>1, <1>2, <1>3, <1>4, SameJob, NoOperation

(***************************************************************************)
(* The invariant: the list of sectors                                      *)
(***************************************************************************)
LEMMA AscendingIs ==
  ASSUME NEW o \in Ops, NEW S, S \subseteq Covered(o), S # {}, NEW seq, seq \in Ascending(S)
  PROVE  /\ seq \in Seq(S) /\ Len(seq) \in Nat /\ Len(seq) >= 1
         /\ \A s \in S : \E i \in DOMAIN seq : seq[i] = s
<1>1. IsFiniteSet(Covered(o))
  BY ImageIs, FS_Interval DEF Covered
<1>2. IsFiniteSet(S)
  BY <1>1, FS_Subset
<1>3. Cardinality(S) \in Nat
  BY <1>2, FS_CardinalityType
<1>4. seq \in [1..Cardinality(S) -> S] /\ \A s \in S : \E i \in DOMAIN seq : seq[i] = s
  BY DEF Ascending
<1>5. seq \in Seq(S) /\ Len(seq) = Cardinality(S)
  BY <1>3, <1>4
<1>6. Cardinality(S) >= 1
  <2>1. PICK s \in S : TRUE
    OBVIOUS
  <2>2. PICK i \in DOMAIN seq : seq[i] = s
    BY <1>4, <2>1
  <2>3. i \in 1..Cardinality(S)
    BY <1>4, <2>2
  <2> QED BY <1>3, <2>3
<1> QED BY <1>3, <1>4, <1>5, <1>6

\* The digests flash_incremental has read with the ROM.
LEMMA CrcIs ==
  ASSUME ControlInv, DataInv, JobInv, StepInv, CrcNext, NEW digests, digests = Append(crcs, buf'["A"]),
         buf' \in [{"A", "B"} -> Contents]
  PROVE  /\ op \in Ops /\ op # None /\ pc = "crc" /\ k \in Covered(op)
         /\ digests \in Seq(Contents) /\ Len(digests) = k + 1 - FirstSector(op)
         /\ ~silent => \A i \in DOMAIN digests : digests[i] = Sector(FirstSector(op) + i - 1)
         /\ ~(k < LastSector(op)) =>
              /\ Differing(digests) \subseteq job.sectors
              /\ ~silent => \A s \in Covered(op) \ Differing(digests) : Sector(s) = ImageSector(op, s)
<1> DEFINE first == FirstSector(op)
           last == LastSector(op)
<1>1. op \in Ops /\ op # None /\ pc = "crc" /\ op.kind = "incremental" /\ k \in Covered(op)
  BY DEF CrcNext, At, ControlInv, StepInv, RomPcs
<1>2. crcs \in Seq(Contents) /\ Len(crcs) = k - first
      /\ (~silent => \A i \in DOMAIN crcs : crcs[i] = Sector(first + i - 1))
  BY <1>1 DEF StepInv
<1>3. first \in Nat /\ last \in Nat /\ k \in Nat /\ first <= k /\ k <= last /\ k \in FlashSectors
  BY <1>1, ImageIs DEF Covered, FlashSectors
<1>4. buf'["A"] \in Contents /\ (~silent => buf'["A"] = Sector(k))
  <2>1. RomRead(k * W, W)
    BY DEF CrcNext
  <2>2. ~silent => buf'["A"] = Sector(k)
    BY <1>3, <2>1, ReadSector
  <2> QED BY <2>2
<1>5. digests \in Seq(Contents) /\ Len(digests) = Len(crcs) + 1
      /\ \A i \in 1..(Len(crcs) + 1) : digests[i] = IF i <= Len(crcs) THEN crcs[i] ELSE buf'["A"]
  BY <1>2, <1>4, AppendProperties
<1>6. ASSUME ~silent, NEW i \in DOMAIN digests PROVE digests[i] = Sector(first + i - 1)
  <2> HIDE DEF first, last
  <2>1. i \in 1..(Len(crcs) + 1) /\ Len(crcs) \in Nat /\ DOMAIN crcs = 1..Len(crcs)
    BY <1>2, <1>5, <1>6
  <2>2. CASE i <= Len(crcs)
    <3>1. i \in DOMAIN crcs
      BY <2>1, <2>2
    <3> QED BY <1>2, <1>5, <1>6, <2>1, <2>2, <3>1
  <2>3. CASE ~(i <= Len(crcs))
    <3>1. i = Len(crcs) + 1
      BY <2>1, <2>3
    <3>2. first + i - 1 = k
      BY <1>2, <1>3, <3>1
    <3>3. digests[i] = buf'["A"]
      BY <1>5, <2>1, <2>3
    <3> QED BY <1>4, <1>6, <3>2, <3>3
  <2> QED BY <2>2, <2>3
<1>7. ASSUME ~(k < last)
      PROVE  /\ Differing(digests) \subseteq job.sectors
             /\ ~silent => \A s \in Covered(op) \ Differing(digests) : Sector(s) = ImageSector(op, s)
  <2>1. CASE silent
    BY <1>1, <2>1 DEF Differing, JobInv
  <2>2. CASE ~silent
    <3>1. ASSUME NEW s \in Covered(op)
          PROVE  digests[s - first + 1] = Sector(s)
      <4>1. s \in Nat /\ first <= s /\ s <= last /\ k = last
        BY <1>3, <1>7, <3>1 DEF Covered
      <4> HIDE DEF first, last
      <4>2. s - first + 1 \in 1..Len(digests) /\ first + (s - first + 1) - 1 = s
        BY <1>2, <1>3, <1>5, <4>1
      <4>3. s - first + 1 \in DOMAIN digests
        BY <1>5, <4>2
      <4> QED BY <1>6, <2>2, <4>2, <4>3
    <3>2. Differing(digests) = {s \in Covered(op) : Sector(s) # ImageSector(op, s)}
      BY <3>1 DEF Differing
    <3> QED BY <1>1, <3>2 DEF JobInv
  <2> QED BY <2>1, <2>2
<1> HIDE DEF first, last
<1>8. Len(digests) = k + 1 - first
  BY <1>2, <1>3, <1>5
<1> QED BY <1>1, <1>5, <1>6, <1>7, <1>8 DEF first, last

\* Those the stub has written.
LEMMA RangeIs ==
  ASSUME op \in Ops, k \in Covered(op)
  PROVE  Range1 \in 1..CrcMax /\ k + Range1 <= LastSector(op) + 1 /\ k \in Nat
<1>1. FirstSector(op) \in Nat /\ LastSector(op) \in Nat
  BY ImageIs
<1> QED BY <1>1, Sizes DEF Range1, Covered

AllDigests == crcs \o SubSeq(crcOut, 1, Range1)
Bad(all) == {s \in Covered(op) : ~Matches(all[s - FirstSector(op) + 1], s)}

\* The digests of the last range, with those before it, are those of every sector covered.
LEMMA DigestsAre ==
  ASSUME ControlInv, DataInv, JobInv, MailInv, DigestInv, pc = "digests"
  PROVE  /\ op \in Ops /\ op # None /\ op.kind = "incremental" /\ k \in Covered(op)
         /\ AllDigests \in Seq({CRC_INIT} \X Contents) /\ Len(AllDigests) = k + Range1 - FirstSector(op)
         /\ \A i \in DOMAIN AllDigests : AllDigests[i] = <<CRC_INIT, Sector(FirstSector(op) + i - 1)>>
         /\ ~(k + Range1 <= LastSector(op)) =>
              /\ Bad(AllDigests) \subseteq job.sectors
              /\ \A s \in Covered(op) \ Bad(AllDigests) : Sector(s) = ImageSector(op, s)
<1> DEFINE first == FirstSector(op)
           last == LastSector(op)
           n == Range1
           new == SubSeq(crcOut, 1, n)
<1>1. op \in Ops /\ op # None /\ op.kind = "incremental" /\ k \in Covered(op)
  BY DEF ControlInv, DigestInv, SoFar, Diffing, StubPcs
<1>2. /\ crcs \in Seq({CRC_INIT} \X Contents) /\ Len(crcs) = k - first
      /\ \A i \in DOMAIN crcs : crcs[i] = <<CRC_INIT, Sector(first + i - 1)>>
      /\ crcOut \in [1..CrcMax -> {<<>>} \cup ({CRC_INIT} \X Contents)]
      /\ \A i \in 1..n : crcOut[i] = <<CRC_INIT, Sector(k + i - 1)>>
  BY DEF DigestInv, SoFar, Diffing, Digested, Digest
<1>3. n \in 1..CrcMax /\ k + n <= last + 1 /\ k \in Nat /\ first \in Nat /\ last \in Nat /\ first <= k
      /\ CrcMax \in Nat /\ k <= last
  BY <1>1, RangeIs, ImageIs, Sizes DEF Covered
<1> HIDE DEF n, first, last
<1>4. new \in Seq({CRC_INIT} \X Contents) /\ Len(new) = n /\ \A i \in 1..n : new[i] = crcOut[i]
  <2>1. crcOut \in Seq({<<>>} \cup ({CRC_INIT} \X Contents)) /\ Len(crcOut) = CrcMax
    BY <1>2, <1>3
  <2>2. \A i \in 1..n : i \in 1..Len(crcOut)
    BY <1>3, <2>1
  <2>3. Len(new) = n /\ \A i \in 1..n : new[i] = crcOut[i]
    BY <1>3, <2>1, <2>2, SubSeqProperties
  <2>4. new = [i \in 1..n |-> crcOut[i]]
    <3>1. new \in Seq({<<>>} \cup ({CRC_INIT} \X Contents))
      BY <1>3, <2>1, <2>2, SubSeqProperties
    <3>2. DOMAIN new = 1..n /\ new = [i \in DOMAIN new |-> new[i]]
      BY <2>3, <3>1
    <3> QED BY <2>3, <3>2
  <2>5. \A i \in 1..n : crcOut[i] \in {CRC_INIT} \X Contents
    <3>1. ASSUME NEW i \in 1..n PROVE Sector(k + i - 1) \in Contents
      <4>1. k + i - 1 \in FlashSectors
        <5>1. last <= Sectors - 1
          BY <1>1, <1>3, ImageIs DEF Covered, last
        <5> QED BY <1>3, <5>1, Sizes DEF FlashSectors
      <4> QED BY <4>1, SectorContents DEF DataInv
    <3>2. ASSUME NEW x \in Contents PROVE <<CRC_INIT, x>> \in {CRC_INIT} \X Contents
      OBVIOUS
    <3>3. ASSUME NEW i \in 1..n PROVE crcOut[i] \in {CRC_INIT} \X Contents
      <4>1. crcOut[i] = <<CRC_INIT, Sector(k + i - 1)>>
        BY <1>2, Zenon
      <4>2. Sector(k + i - 1) \in Contents
        BY <3>1
      <4>3. <<CRC_INIT, Sector(k + i - 1)>> \in {CRC_INIT} \X Contents
        BY <3>2, <4>2
      <4> QED BY <4>1, <4>3, Zenon
    <3> QED BY <3>3, Zenon
  <2> QED BY <1>3, <2>3, <2>4, <2>5
<1>5. /\ AllDigests \in Seq({CRC_INIT} \X Contents) /\ Len(AllDigests) = Len(crcs) + n
      /\ \A i \in 1..(Len(crcs) + n) :
           AllDigests[i] = IF i <= Len(crcs) THEN crcs[i] ELSE new[i - Len(crcs)]
  <2>1. AllDigests = crcs \o new
    BY DEF AllDigests, n
  <2> HIDE DEF new
  <2> QED BY <1>2, <1>4, <2>1, ConcatProperties, ZenonT(60)
<1> HIDE DEF new
<1>6. ASSUME NEW i \in DOMAIN AllDigests PROVE AllDigests[i] = <<CRC_INIT, Sector(first + i - 1)>>
  <2>1. i \in 1..(Len(crcs) + n) /\ Len(crcs) \in Nat /\ DOMAIN crcs = 1..Len(crcs)
    BY <1>2, <1>5, <1>6
  <2>2. CASE i <= Len(crcs)
    <3>1. i \in DOMAIN crcs /\ AllDigests[i] = crcs[i]
      BY <1>5, <2>1, <2>2
    <3> QED BY <1>2, <3>1
  <2>3. CASE ~(i <= Len(crcs))
    <3> DEFINE j == i - Len(crcs)
    <3>1. j \in 1..n /\ first + i - 1 = k + j - 1
      BY <1>2, <1>3, <2>1, <2>3
    <3>2. AllDigests[i] = new[j]
      BY <1>5, <2>1, <2>3
    <3> HIDE DEF j
    <3> QED BY <1>2, <1>4, <3>1, <3>2
  <2> QED BY <2>2, <2>3
<1>7. Len(AllDigests) = k + n - first
  BY <1>2, <1>3, <1>5
<1>8. ASSUME ~(k + n <= last)
      PROVE  /\ Bad(AllDigests) \subseteq job.sectors
             /\ \A s \in Covered(op) \ Bad(AllDigests) : Sector(s) = ImageSector(op, s)
  <2>1. ASSUME NEW s \in Covered(op)
        PROVE  AllDigests[s - first + 1] = <<CRC_INIT, Sector(s)>>
    <3>1. s \in Nat /\ first <= s /\ s <= last
      BY <1>3, <2>1 DEF Covered, first, last
    <3>2. s - first + 1 \in 1..Len(AllDigests) /\ first + (s - first + 1) - 1 = s
      BY <1>3, <1>7, <1>8, <3>1
    <3>3. s - first + 1 \in DOMAIN AllDigests
      BY <1>5, <3>2
    <3> QED BY <1>6, <3>2, <3>3
  <2>2. ASSUME NEW s \in Covered(op)
        PROVE  Matches(AllDigests[s - first + 1], s) <=> Sector(s) = ImageSector(op, s)
    BY <2>1 DEF Matches
  <2>3. Bad(AllDigests) = {s \in Covered(op) : Sector(s) # ImageSector(op, s)}
    BY <2>2 DEF Bad, first
  <2> QED BY <1>1, <2>3 DEF JobInv
<1> QED BY <1>1, <1>5, <1>6, <1>7, <1>8 DEF first, last, n

\* When the list is not made anew, it and what it is about stay.
LEMMA ListedStep ==
  ASSUME ControlInv, MailInv, Next, op # None, op' = op, Listed',
         ~CrcNext, ~(Digests /\ pc' = "stage next")
  PROVE  Listed /\ changed' = changed
<1> USE DEF Listed, ChangedPcs, StubPcs, Goto, Return, At
<1>0. op' # None
  OBVIOUS
<1>1. CASE ByRom /\ pc \notin ChangedPcs
  BY <1>0, <1>1 DEF ByRom, RomNext, Start, GateRead, FlashInit, Raise, Unlock, EraseNext, ProgramNext,
    VerifyNext, XtensaErase, XtensaVerify, Calibrate, SectorRead, UnlockRun, Overwrite, StageSector,
    EraseEnds, WriteSector, CrcVerify, NextChunk, NextSector
<1>2. CASE ByRom /\ pc \in ChangedPcs
  BY <1>0, <1>2 DEF ByRom, RomNext, Start, GateRead, FlashInit, Raise, Unlock, EraseNext, ProgramNext,
    VerifyNext, XtensaErase, XtensaVerify, Calibrate, SectorRead, UnlockRun, Overwrite, StageSector,
    EraseEnds, WriteSector, CrcVerify, NextSector, locals
<1>3. CASE StubBegin \/ StubBeginRaises
  BY <1>0, <1>3 DEF StubBegin, StubBeginRaises, locals, MailInv, ControlInv
<1>4. CASE PostArgs
  BY <1>0, <1>4 DEF PostArgs, locals
<1>5. CASE PostCmd
  BY <1>0, <1>5 DEF PostCmd, locals, MailInv, MailTypes, Pends, Posting, Commands
<1>6. CASE Wait
  BY <1>0, <1>6 DEF Wait, Quit, Post, locals, MailInv, MailTypes
<1>7. CASE WaitExpires \/ TryRaises
  BY <1>0, <1>7 DEF WaitExpires, TryRaises, Quit, Post, locals
<1>8. CASE EndRaises \/ Trapped \/ TrapExpires
  BY <1>0, <1>8 DEF EndRaises, Trapped, TrapExpires
<1>9. CASE DiffRange
  BY <1>0, <1>9 DEF DiffRange, Post, locals
<1>10. CASE Digests
  BY <1>0, <1>10 DEF Digests, Quit, Post, locals
<1>11. CASE StageNext
  BY <1>0, <1>11 DEF StageNext, locals
<1>12. CASE PostSector
  BY <1>0, <1>12 DEF PostSector, Post
<1>13. CASE AllPosted
  BY <1>0, <1>13 DEF AllPosted, Quit, Post, MailInv
<1>14. CASE StubNext
  BY <1>0, <1>14 DEF StubNext, Fetch, CrcSector, StubUnlock, StubErase, StubWrite, ReportErr, ReportStatus,
    StubRest, Host, locals
<1> QED BY <1>1, <1>2, <1>3, <1>4, <1>5, <1>6, <1>7, <1>8, <1>9, <1>10, <1>11, <1>12, <1>13, <1>14
       DEF Next, HostNext

\* The sectors that are not on the list hold the image, whatever is done to the others.
LEMMA ListKept ==
  ASSUME ControlInv, DataInv, JobInv, ListInv, StepInv, MailInv, FlightInv, DigestInv, Next,
         op # None, op' = op, Listed'
  PROVE  /\ changed' \in Seq(job.sectors) /\ job' = job
         /\ job.verify => \A s \in Covered(op) : (\A i \in DOMAIN changed' : changed'[i] # s)
                            => Sector(s)' = ImageSector(op, s)
<1>1. job' = job /\ op \in Ops /\ (job.verify => ~silent)
      /\ FirstSector(op) \in Nat /\ LastSector(op) \in Nat
      /\ Covered(op) \subseteq FlashSectors
  BY SameJob, ImageIs DEF ControlInv, JobInv, FlashSectors
<1>2. CASE ~CrcNext /\ ~(Digests /\ pc' = "stage next")
  <2>1. Listed /\ changed' = changed
    BY <1>2, ListedStep
  <2>2. /\ changed \in Seq(job.sectors)
        /\ job.verify => \A s \in Covered(op) : (\A i \in DOMAIN changed : changed[i] # s)
                           => Sector(s) = ImageSector(op, s)
    BY <2>1 DEF ListInv
  <2>3. ASSUME NEW s \in Covered(op), \A i \in DOMAIN changed : changed[i] # s
        PROVE  Sector(s)' = Sector(s)
    <3>1. s \notin List /\ s \in FlashSectors
      BY <1>1, <2>3 DEF List
    <3>2. Kept(s) \/ UNCHANGED flash
      BY <2>1, <3>1, FlashStep DEF Changes
    <3> QED BY <3>2, KeptSector
  <2> QED BY <1>1, <2>1, <2>2, <2>3
<1>3. CASE CrcNext
  <2> DEFINE digests == Append(crcs, buf'["A"])
             S == Differing(digests)
  <2>1. UNCHANGED flash /\ ~(k < LastSector(op)) /\ S # {} /\ changed' \in Ascending(S)
    BY <1>3 DEF CrcNext, Listed, ChangedPcs, StubPcs, Goto, Return, ControlInv, At
  <2>2. buf' \in [{"A", "B"} -> Contents]
    BY BufStep
  <2> HIDE DEF digests
  <2>3. /\ S \subseteq job.sectors
        /\ ~silent => \A s \in Covered(op) \ S : Sector(s) = ImageSector(op, s)
    BY <1>3, <2>1, <2>2, CrcIs DEF digests
  <2>4. S \subseteq Covered(op)
    BY DEF Differing
  <2> HIDE DEF S
  <2>5. changed' \in Seq(S) /\ \A s \in S : \E i \in DOMAIN changed' : changed'[i] = s
    <3> DEFINE seq == changed'
    <3>1. seq \in Ascending(S)
      BY <2>1
    <3> HIDE DEF seq
    <3>2. op \in Ops
      BY <1>1
    <3>3. S # {}
      BY <2>1
    <3>4. seq \in Seq(S)
      BY <2>4, <3>1, <3>2, <3>3, AscendingIs, Zenon
    <3>5. \A s \in S : \E i \in DOMAIN seq : seq[i] = s
      BY <3>1, Zenon DEF Ascending
    <3> QED BY <3>4, <3>5 DEF seq
  <2>6. changed' \in Seq(job.sectors)
    BY <2>3, <2>5
  <2>7. \A s : Sector(s)' = Sector(s)
    BY <2>1 DEF Sector, Content
  <2> QED BY <1>1, <2>3, <2>5, <2>6, <2>7
<1>4. CASE Digests /\ pc' = "stage next"
  <2> DEFINE S == Bad(AllDigests)
  <2>1. UNCHANGED flash /\ ~(k + Range1 <= LastSector(op)) /\ S # {} /\ changed' \in Ascending(S)
    BY <1>4 DEF Digests, Quit, Post, Goto, Bad, AllDigests, target
  <2>2. pc = "digests"
    BY <1>4 DEF Digests, At
  <2>3. /\ S \subseteq job.sectors
        /\ \A s \in Covered(op) \ S : Sector(s) = ImageSector(op, s)
    BY <2>1, <2>2, DigestsAre
  <2>4. S \subseteq Covered(op)
    BY DEF Bad
  <2> HIDE DEF S
  <2>5. changed' \in Seq(S) /\ \A s \in S : \E i \in DOMAIN changed' : changed'[i] = s
    <3> DEFINE seq == changed'
    <3>1. seq \in Ascending(S)
      BY <2>1
    <3> HIDE DEF seq
    <3>2. op \in Ops
      BY <1>1
    <3>3. S # {}
      BY <2>1
    <3>4. seq \in Seq(S)
      BY <2>4, <3>1, <3>2, <3>3, AscendingIs, Zenon
    <3>5. \A s \in S : \E i \in DOMAIN seq : seq[i] = s
      BY <3>1, Zenon DEF Ascending
    <3> QED BY <3>4, <3>5 DEF seq
  <2>6. changed' \in Seq(job.sectors)
    BY <2>3, <2>5
  <2>7. \A s : Sector(s)' = Sector(s)
    BY <2>1 DEF Sector, Content
  <2> QED BY <1>1, <2>3, <2>5, <2>6, <2>7
<1> QED BY <1>2, <1>3, <1>4

OnList == k \in 1..Len(changed)
AtOne == pc \in ChangedPcs \/ (pc = "wait" /\ after = "post")

\* A step between two places of the list moves on by one at most, on the same list.
LEMMA OnListStep ==
  ASSUME ControlInv, ListInv, MailInv, FlightInv, Next, AtOne',
         ~CrcNext, ~(Digests /\ pc' = "stage next")
  PROVE  /\ OnList /\ changed' = changed
         /\ k' \in {k, 1} \/ (k' = k + 1 /\ k < Len(changed))
<1> USE DEF AtOne, ChangedPcs, Goto, Return, At
<1>0. /\ AtOne => OnList
      /\ Posting /\ pend.cmd = "program" /\ pend.then = "stage next" => OnList
      /\ pend.then = "stage next" /\ Posting => pend.cmd = "program"
  <2>1. pend.cmd \in {"crc", "program", "quit"}
    BY DEF MailInv, MailTypes, Pends, Commands
  <2>2. Posting /\ pend.cmd = "program" /\ pend.then = "stage next" => k \in 1..Len(changed)
    BY DEF FlightInv, Staging, Posted
  <2>4. AtOne => k \in 1..Len(changed)
    BY DEF ListInv, AtOne
  <2> QED BY <2>1, <2>2, <2>4 DEF OnList, MailInv
<1>1. ASSUME NextSector, pc' # "idle"
      PROVE  changed' = changed /\ (k' \in {k, 1} \/ (k' = k + 1 /\ k < Len(changed)))
  BY <1>1, Zenon DEF NextSector
<1>2. CASE ByRom /\ pc \notin ChangedPcs
  BY <1>0, <1>2 DEF ByRom, RomNext, Start, GateRead, FlashInit, Raise, Unlock, EraseNext, ProgramNext,
    VerifyNext, XtensaErase, XtensaVerify, Calibrate, SectorRead, UnlockRun, Overwrite, StageSector,
    EraseEnds, WriteSector, CrcVerify, NextChunk
<1>3. CASE ByRom /\ pc \in ChangedPcs
  <2>1. OnList /\ pc' # "idle"
    BY <1>0, <1>3
  <2>2. CASE Overwrite \/ WriteSector
    <3>1. NextSector
      BY <2>1, <2>2, Zenon DEF Overwrite, WriteSector
    <3> QED BY <1>1, <2>1, <3>1
  <2>3. CASE CrcVerify
    BY <2>1, <2>3, Zenon DEF CrcVerify
  <2>4. CASE SectorRead
    BY <2>1, <2>4, Zenon DEF SectorRead, locals
  <2>5. CASE UnlockRun \/ StageSector \/ EraseEnds
    BY <2>1, <2>5, Zenon DEF UnlockRun, StageSector, EraseEnds, locals
  <2>6. CASE ~(Overwrite \/ WriteSector \/ CrcVerify \/ SectorRead \/ UnlockRun \/ StageSector \/ EraseEnds)
    BY <1>3, <2>1, <2>6 DEF ByRom, RomNext, Start, GateRead, FlashInit, Raise, Unlock, EraseNext,
      ProgramNext, VerifyNext, XtensaErase, XtensaVerify, Calibrate, ControlInv
  <2> QED BY <2>2, <2>3, <2>4, <2>5, <2>6
<1>4. CASE PostCmd
  BY <1>0, <1>4 DEF PostCmd, locals, Posting, MailInv, MailTypes, Pends, Commands
<1>5. CASE StageNext
  BY <1>0, <1>5 DEF StageNext, locals
<1>6. CASE Wait
  BY <1>0, <1>6 DEF Wait, Quit, Post, locals, MailInv, MailTypes
<1>7. CASE HostNext /\ ~(PostCmd \/ StageNext \/ Wait)
  BY <1>0, <1>7 DEF HostNext, StubBegin, StubBeginRaises, PostArgs, WaitExpires, TryRaises, EndRaises,
    DiffRange, Digests, PostSector, AllPosted, Trapped, TrapExpires, Post, Quit
<1>8. CASE StubNext
  BY <1>0, <1>8 DEF StubNext, Fetch, CrcSector, StubUnlock, StubErase, StubWrite, ReportErr, ReportStatus,
    StubRest, Host, locals
<1> QED BY <1>2, <1>3, <1>4, <1>5, <1>6, <1>7, <1>8 DEF Next, HostNext

\* Every step keeps the list of sectors to write, and the sectors off it right.
LEMMA ListStep ==
  ASSUME ControlInv, DataInv, JobInv, ListInv, StepInv, MailInv, FlightInv, DigestInv,
         ControlInv', Next
  PROVE  ListInv'
<1>1. ASSUME Listed' PROVE op # None /\ op' = op
  <2>1. op' # None /\ pc' # "gate"
    BY <1>1 DEF Listed, ChangedPcs, StubPcs, ControlInv
  <2>2. op # None
    BY <2>1, NoOperation DEF Start, Host
  <2> QED BY <2>1, <2>2, SameJob
<1>2. ASSUME Listed'
      PROVE  /\ changed' \in Seq(job'.sectors)
             /\ job'.verify => \A s \in Covered(op)' : (\A i \in DOMAIN changed' : changed'[i] # s)
                                 => Sector(s)' = ImageSector(op, s)'
  <2>1. Covered(op)' = Covered(op) /\ \A s : ImageSector(op, s)' = ImageSector(op, s)
    BY <1>1, <1>2 DEF Covered, FirstSector, LastSector, ImageSector
  <2> QED BY <1>1, <1>2, <2>1, ListKept
<1>3. ASSUME AtOne' PROVE k' \in 1..Len(changed')
  <2>1. Listed'
    BY <1>3 DEF AtOne, Listed, ChangedPcs, StubPcs
  <2>2. changed' \in Seq(job'.sectors) /\ Len(changed') \in Nat
    <3>1. changed' \in Seq(job'.sectors)
      BY <1>2, <2>1
    <3> QED BY <3>1, LenProperties
  <2>3. CASE ~CrcNext /\ ~(Digests /\ pc' = "stage next")
    <3>1. /\ OnList /\ changed' = changed
          /\ k' \in {k, 1} \/ (k' = k + 1 /\ k < Len(changed))
      BY <1>3, <2>3, OnListStep
    <3>2. ASSUME NEW n \in Nat, n = Len(changed) PROVE k' \in 1..n
      BY <3>1, <3>2 DEF OnList
    <3>3. Len(changed) \in Nat /\ Len(changed') = Len(changed)
      BY <2>2, <3>1, Zenon
    <3> QED BY <3>2, <3>3, Zenon
  <2>4. CASE CrcNext
    <3> DEFINE S == Differing(Append(crcs, buf'["A"]))
    <3>1. S # {} /\ changed' \in Ascending(S) /\ k' = 1
      BY <2>1, <2>4 DEF CrcNext, Listed, ChangedPcs, StubPcs, Goto, Return
    <3>2. S \subseteq Covered(op)
      BY DEF Differing
    <3>3. op \in Ops
      BY <1>1, <2>1 DEF ControlInv
    <3> HIDE DEF S
    <3>4. S # {} /\ changed' \in Ascending(S)
      BY <3>1
    <3>5. Len(changed') >= 1
      BY <3>2, <3>3, <3>4, AscendingIs, Zenon
    <3> QED BY <2>2, <3>1, <3>5
  <2>5. CASE Digests /\ pc' = "stage next"
    <3> DEFINE S == Bad(AllDigests)
    <3>1. S # {} /\ changed' \in Ascending(S) /\ k' = 1
      BY <2>5 DEF Digests, Quit, Post, Goto, Bad, AllDigests
    <3>2. S \subseteq Covered(op)
      BY DEF Bad
    <3>3. op \in Ops
      BY <1>1, <2>1 DEF ControlInv
    <3> HIDE DEF S
    <3>4. S # {} /\ changed' \in Ascending(S)
      BY <3>1
    <3>5. Len(changed') >= 1
      BY <3>2, <3>3, <3>4, AscendingIs, Zenon
    <3> QED BY <2>2, <3>1, <3>5
  <2> QED BY <2>3, <2>4, <2>5
<1> QED BY <1>2, <1>3 DEF ListInv, AtOne

(***************************************************************************)
(* The invariant: the steps with the ROM                                   *)
(***************************************************************************)
\* The phases with the ROM are entered by the operation's own steps.
LEMMA Entered ==
  ASSUME ControlInv, ControlInv', MailInv, Next, pc' \in WritePcs \cup RomPcs
  PROVE  op # None /\ op' = op /\ op \in Ops /\ ByRom /\ pc' # "idle"
<1>1. op' # None /\ pc' # "gate" /\ pc' # "idle"
  BY DEF WritePcs, RomPcs, ControlInv
<1>2. op # None
  BY <1>1, NoOperation DEF Start, Host
<1>3. op' = op /\ op \in Ops
  BY <1>1, <1>2, SameJob DEF ControlInv
<1>4. ~HostNext
  <2> SUFFICES ASSUME HostNext PROVE FALSE
    OBVIOUS
  <2>1. pend.then \notin WritePcs \cup RomPcs /\ after \notin WritePcs \cup RomPcs
    BY DEF MailInv, MailTypes, Pends, WritePcs, RomPcs
  <2> QED BY <1>1, <1>3, <2>1 DEF HostNext, StubBegin, StubBeginRaises, PostArgs, PostCmd, Wait,
    WaitExpires, TryRaises, EndRaises, DiffRange, Digests, StageNext, PostSector, AllPosted, Trapped,
    TrapExpires, Goto, Return, Quit, Post, At, MailInv, MailTypes, Pends, WritePcs, RomPcs
<1>5. ~StubNext
  <2> SUFFICES ASSUME StubNext PROVE FALSE
    OBVIOUS
  <2>1. stub.pc # "off" /\ pc' = pc
    BY DEF StubNext, Fetch, CrcSector, StubUnlock, StubErase, StubWrite, ReportErr, ReportStatus,
      StubRest, Running, Host
  <2> QED BY <1>2, <2>1, SpiflashAssumption DEF ControlInv, WritePcs, RomPcs, StubPcs
<1> QED BY <1>1, <1>2, <1>3, <1>4, <1>5 DEF Next

\* Every step keeps what each place of a run over the ROM says of the sectors before it.
LEMMA StepStep ==
  ASSUME ControlInv, DataInv, JobInv, ListInv, StepInv, MailInv, FlightInv, DigestInv,
         ControlInv', Next
  PROVE  StepInv'
<1> USE DEF Goto, Return, At
<1>1. ASSUME pc' \in {"idle", "gate", "init", "calibrate", "begin"} PROVE crcs' = <<>>
  <2>1. pc \in {"idle", "gate", "init", "calibrate", "begin"} => crcs = <<>>
    BY DEF StepInv
  <2>2. CASE ByRom
    <3>1. CASE GateRead \/ FlashInit \/ Calibrate \/ \E o \in Ops : Start(o)
      BY <2>1, <3>1, Zenon DEF Start, GateRead, FlashInit, Calibrate, ControlInv, NoLocals, locals
    <3>2. CASE Raise \/ XtensaVerify
      BY <3>2, Zenon DEF Raise, XtensaVerify, NoLocals
    <3>3. CASE Unlock \/ EraseNext \/ ProgramNext \/ VerifyNext \/ XtensaErase
      BY <1>1, <3>3 DEF Unlock, EraseNext, ProgramNext, VerifyNext, XtensaErase, NextChunk, NoLocals
    <3>4. CASE CrcNext \/ SectorRead \/ UnlockRun \/ StageSector \/ EraseEnds \/ CrcVerify
      BY <1>1, <3>4 DEF CrcNext, SectorRead, UnlockRun, StageSector, EraseEnds, CrcVerify, NoLocals
    <3>5. CASE Overwrite \/ WriteSector
      BY <1>1, <3>5 DEF Overwrite, WriteSector, NextSector, NoLocals
    <3> QED BY <2>2, <3>1, <3>2, <3>3, <3>4, <3>5 DEF ByRom, RomNext
  <2>3. CASE HostNext
    <3>1. CASE StubBeginRaises \/ EndRaises \/ Trapped \/ TrapExpires
      BY <3>1, Zenon DEF StubBeginRaises, EndRaises, Trapped, TrapExpires, NoLocals
    <3>2. CASE Wait \/ PostCmd
      BY <1>1, <3>2 DEF Wait, PostCmd, Quit, Post, MailInv, MailTypes, Pends
    <3>3. CASE ~(StubBeginRaises \/ EndRaises \/ Trapped \/ TrapExpires \/ Wait \/ PostCmd)
      BY <1>1, <2>3, <3>3 DEF HostNext, StubBegin, PostArgs, WaitExpires, TryRaises, DiffRange, Digests,
        StageNext, PostSector, AllPosted, Quit, Post
    <3> QED BY <3>1, <3>2, <3>3
  <2>4. CASE StubNext
    BY <1>1, <2>1, <2>4 DEF StubNext, Fetch, CrcSector, StubUnlock, StubErase, StubWrite, ReportErr,
      ReportStatus, StubRest, Host, locals
  <2> QED BY <2>2, <2>3, <2>4 DEF Next
<1>2. ASSUME pc' = "begin" PROVE k' = FirstSector(op)'
  <2>1. ByRom /\ op' = op /\ pc' # "idle"
    BY <1>2, Entered DEF RomPcs
  <2>2. k' = FirstSector(op)
    BY <1>2, <2>1 DEF ByRom, RomNext, Start, GateRead, FlashInit, Raise, Unlock, EraseNext,
      ProgramNext, VerifyNext, XtensaErase, XtensaVerify, Calibrate, CrcNext, SectorRead, UnlockRun,
      Overwrite, StageSector, EraseEnds, WriteSector, CrcVerify, NextChunk, NextSector
  <2> QED BY <2>1, <2>2 DEF FirstSector
<1>3. ASSUME pc' = "erase" PROVE k' \in Covered(op)'
  <2>1. ByRom /\ op' = op /\ op \in Ops
    BY <1>3, Entered DEF WritePcs
  <2>2. k' = FirstSector(op) \/ (k \in Covered(op) /\ k' \in {k + 1, k + BlockSectors} /\ k' <= LastSector(op))
    <3>1. CASE Unlock
      BY <3>1 DEF Unlock
    <3>2. CASE EraseNext
      BY <1>3, <3>2 DEF EraseNext, StepInv
    <3>3. CASE XtensaErase
      <4>1. pc = "erase" /\ k' = k + 1 /\ k < LastSector(op)
        BY <1>3, <3>3 DEF XtensaErase
      <4> QED BY <2>1, <4>1, ImageIs DEF StepInv, Covered
    <3>4. CASE ~(Unlock \/ EraseNext \/ XtensaErase)
      BY <1>3, <2>1, <3>4 DEF ByRom, RomNext, Start, GateRead, FlashInit, Raise, ProgramNext, VerifyNext,
        XtensaVerify, Calibrate, CrcNext, SectorRead, UnlockRun, Overwrite, StageSector, EraseEnds,
        WriteSector, CrcVerify, NextChunk, NextSector
    <3> QED BY <3>1, <3>2, <3>3, <3>4
  <2>3. k' \in Covered(op)
    BY <2>1, <2>2, ImageIs, Sizes DEF Covered
  <2> QED BY <2>1, <2>3 DEF Covered, FirstSector, LastSector
<1>4. ASSUME pc' \in {"program", "verify"}
      PROVE  /\ ByRom /\ op' = op /\ op \in Ops /\ op.kind # "incremental" /\ op # None
             /\ Len(op.data) \in Nat /\ Len(op.data) > 0
  BY <1>4, Entered, PaddedIs DEF WritePcs, ControlInv
<1>5. ASSUME pc' \in {"program", "verify"}, pc \notin {"program", "verify"}
      PROVE  k' = 0 /\ pc' = "program"
  <2>1. ByRom /\ op' = op
    BY <1>4, <1>5
  <2> QED BY <1>5, <2>1, Zenon DEF ByRom, RomNext, Start, GateRead, FlashInit, Raise, Unlock, EraseNext,
      ProgramNext, VerifyNext, XtensaErase, XtensaVerify, Calibrate, CrcNext, SectorRead, UnlockRun,
      Overwrite, StageSector, EraseEnds, WriteSector, CrcVerify, NextChunk, NextSector
<1>6. ASSUME pc = "program", pc' \in {"program", "verify"}
      PROVE  (pc' = "program" /\ k' = k + W /\ k + W < Len(op.data)) \/ (pc' = "verify" /\ k' = 0)
  <2>1. ProgramNext
    BY <1>4, <1>6 DEF ByRom, RomNext, Start, GateRead, FlashInit, Raise, Unlock, EraseNext,
      VerifyNext, XtensaErase, XtensaVerify, Calibrate, CrcNext, SectorRead, UnlockRun,
      Overwrite, StageSector, EraseEnds, WriteSector, CrcVerify
  <2> QED BY <1>6, <2>1, Zenon DEF ProgramNext, NextChunk
<1>7. ASSUME pc = "verify", pc' \in {"program", "verify"}
      PROVE  VerifyNext /\ pc' = "verify" /\ k' = k + W /\ k + W < Len(op.data)
  <2>1. VerifyNext
    BY <1>4, <1>7 DEF ByRom, RomNext, Start, GateRead, FlashInit, Raise, Unlock, EraseNext,
      ProgramNext, XtensaErase, XtensaVerify, Calibrate, CrcNext, SectorRead, UnlockRun,
      Overwrite, StageSector, EraseEnds, WriteSector, CrcVerify
  <2> QED BY <1>7, <2>1, Zenon DEF VerifyNext, NextChunk
<1>8. ASSUME pc' = "program" PROVE k' < Len(op.data)'
  BY <1>4, <1>5, <1>6, <1>7, <1>8
<1>9. ASSUME pc' = "verify"
      PROVE  /\ k' < Len(op.data)'
             /\ (job.verify /\ op.kind = "write")' =>
                  \A i \in 1..k' : flash'[op'.at + i - 1] = op'.data[i]
  <2>1. CASE pc = "program"
    BY <1>4, <1>6, <1>9, <2>1
  <2>2. CASE pc = "verify"
    <3>1. VerifyNext /\ k' = k + W /\ k + W < Len(op.data) /\ k \in Nat /\ k < Len(op.data)
      BY <1>7, <1>9, <2>2 DEF DataInv, StepInv
    <3>2. op' = op /\ op \in Ops /\ op # None /\ job' = job /\ flash' = flash /\ op.kind # "incremental"
      BY <1>4, <1>9, <3>1, SameJob DEF VerifyNext
    <3>3. ASSUME job.verify, op.kind = "write", NEW i \in 1..k'
          PROVE  flash[op.at + i - 1] = op.data[i]
      <4>1. \A j \in 1..k : flash[op.at + j - 1] = op.data[j]
        BY <2>2, <3>3 DEF StepInv
      <4>2. CASE i <= k
        BY <3>1, <4>1, <4>2, Sizes
      <4>3. CASE ~(i <= k)
        <5> DEFINE j == i - k
        <5>1. j \in 1..W /\ k + j = i /\ j \in Nat
          BY <3>1, <4>3, Sizes
        <5>2. Len(Chunk) = W /\ Chunk \in Seq(Word) /\ Chunk[j] = op.data[k + j] /\ op.at \in Nat
          BY <3>1, <3>2, <5>1, ChunkIs, PaddedIs
        <5>3. ~silent
          BY <3>2, <3>3 DEF JobInv
        <5>4. /\ RomRead(op.at + k, Len(Chunk)) /\ SubSeq(buf'["A"], 1, Len(Chunk)) = Chunk
          BY <2>2, <3>1, <3>2 DEF VerifyNext, ControlInv
        <5>5. op.at + k \in Nat /\ op.at + k + W <= Sectors * W
          <6>1. op.at + Len(op.data) <= Sectors * W /\ Len(op.data) \in Nat /\ Sectors * W \in Nat
            BY <3>2, PaddedIs, Sizes
          <6>2. ASSUME NEW at \in Nat, NEW n \in Nat, NEW m \in Nat, at + n <= m, k + W < n
                PROVE  at + k \in Nat /\ at + k + W <= m
            BY <3>1, <6>2, Sizes
          <6> QED BY <3>1, <5>2, <6>1, <6>2
        <5>6. buf' \in [{"A", "B"} -> Contents] /\ buf'["A"][j] = flash[op.at + k + j - 1]
          BY <5>1, <5>2, <5>3, <5>4, <5>5, ReadIs, Sizes
        <5>7. SubSeq(buf'["A"], 1, W)[j] = buf'["A"][j]
          <6>1. buf'["A"] \in Seq(Word) /\ Len(buf'["A"]) = W
            BY <5>6, Sizes DEF Contents
          <6> QED BY <5>1, <6>1, Sizes, SubSeqProperties
        <5>8. op.at + k + j - 1 = op.at + i - 1
          BY <3>1, <5>1, <5>2
        <5> QED BY <5>1, <5>2, <5>4, <5>6, <5>7, <5>8
      <4> QED BY <4>2, <4>3
    <3> QED BY <3>1, <3>2, <3>3
  <2>3. CASE pc \notin {"program", "verify"}
    BY <1>5, <1>9, <2>3
  <2> QED BY <2>1, <2>2, <2>3
<1>10. ASSUME pc' = "crc"
       PROVE  /\ k' \in Covered(op)' /\ crcs' \in Seq(Contents) /\ Len(crcs') = k' - FirstSector(op)'
              /\ ~silent' => \A i \in DOMAIN crcs' : \A s : s = FirstSector(op)' + i - 1
                                => crcs'[i] = Sector(s)'
  <2>1. /\ op # None /\ op' = op /\ op \in Ops /\ ByRom /\ silent' = silent
        /\ FirstSector(op) \in Nat /\ FirstSector(op) \in Covered(op)
    BY <1>10, Entered, SameJob, ImageIs DEF RomPcs, Covered
  <2>2. Covered(op)' = Covered(op) /\ FirstSector(op)' = FirstSector(op)
    BY <2>1 DEF Covered, FirstSector, LastSector
  <2>3. CASE Calibrate
    <3>1. crcs' = <<>> /\ k' = FirstSector(op)
      BY <2>3 DEF Calibrate, StepInv
    <3>2. <<>> \in Seq(Contents) /\ Len(<<>>) = 0 /\ \A i \in DOMAIN <<>> : FALSE
      OBVIOUS
    <3>3. FirstSector(op) - FirstSector(op) = 0
      BY <2>1
    <3>4. crcs' \in Seq(Contents) /\ Len(crcs') = k' - FirstSector(op)
      BY <3>1, <3>2, <3>3
    <3>5. \A i \in DOMAIN crcs' : FALSE
      BY <3>1, <3>2
    <3>6. k' \in Covered(op)'
      BY <2>1, <2>2, <3>1
    <3>7. Len(crcs') = k' - FirstSector(op)'
      BY <2>2, <3>4
    <3>8. \A i \in DOMAIN crcs' : \A s : s = FirstSector(op)' + i - 1 => crcs'[i] = Sector(s)'
      BY <3>5, Zenon
    <3> QED BY <3>4, <3>6, <3>7, <3>8, Zenon
  <2>4. CASE CrcNext
    <3> DEFINE digests == Append(crcs, buf'["A"])
    <3>1. k < LastSector(op) /\ crcs' = digests /\ k' = k + 1 /\ flash' = flash
      BY <1>10, <2>4 DEF CrcNext
    <3>2. buf' \in [{"A", "B"} -> Contents]
      BY BufStep
    <3> HIDE DEF digests
    <3>3. /\ k \in Covered(op)
          /\ digests \in Seq(Contents) /\ Len(digests) = k + 1 - FirstSector(op)
          /\ ~silent => \A i \in DOMAIN digests : digests[i] = Sector(FirstSector(op) + i - 1)
      BY <2>4, <3>2, CrcIs DEF digests
    <3>4. k' \in Covered(op)
      BY <2>1, <3>1, <3>3, ImageIs DEF Covered
    <3>5. \A s : Sector(s)' = Sector(s)
      BY <3>1 DEF Sector, Content
    <3>6. ASSUME ~silent, NEW i \in DOMAIN crcs', NEW s, s = FirstSector(op)' + i - 1
          PROVE  crcs'[i] = Sector(s)'
      <4>1. digests[i] = Sector(s)
        BY <2>2, <3>1, <3>3, <3>6
      <4> QED BY <3>1, <3>5, <4>1
    <3>7. k' \in Covered(op)'
      BY <2>2, <3>4
    <3>8. crcs' \in Seq(Contents) /\ Len(crcs') = k' - FirstSector(op)'
      <4>1. crcs' = digests /\ k' = k + 1
        BY <3>1
      <4>2. digests \in Seq(Contents) /\ Len(digests) = k + 1 - FirstSector(op)
        BY <3>3
      <4>3. crcs' \in Seq(Contents)
        BY <4>1, <4>2, Zenon
      <4>4. Len(crcs') = Len(digests)
        BY <4>1, Zenon
      <4>5. FirstSector(op)' = FirstSector(op)
        BY <2>2, Zenon
      <4>6. k \in Nat /\ FirstSector(op) \in Nat
        BY <2>1, ImageIs DEF DataInv
      <4> QED BY <4>1, <4>2, <4>3, <4>4, <4>5, <4>6
    <3> QED BY <2>1, <3>6, <3>7, <3>8
  <2>5. Calibrate \/ CrcNext
    BY <1>10, <2>1 DEF ByRom, RomNext, Start, GateRead, FlashInit, Raise, Unlock, EraseNext, ProgramNext,
      VerifyNext, XtensaErase, XtensaVerify, SectorRead, UnlockRun, Overwrite, StageSector,
      EraseEnds, WriteSector, CrcVerify, NextChunk, NextSector
  <2> QED BY <2>3, <2>4, <2>5
<1>11. ASSUME pc' \in {"erase ends", "write"} PROVE buf'["A"] = ImageSector(op', changed'[k'])
  <2>1. op # None /\ op' = op /\ op \in Ops /\ ByRom
    BY <1>11, Entered DEF RomPcs
  <2>2. StageSector \/ EraseEnds
    BY <1>11, <2>1 DEF ByRom, RomNext, Start, GateRead, FlashInit, Raise, Unlock, EraseNext, ProgramNext,
      VerifyNext, XtensaErase, XtensaVerify, Calibrate, CrcNext, SectorRead, UnlockRun, Overwrite,
      WriteSector, CrcVerify, NextChunk, NextSector
  <2>3. k' = k /\ changed' = changed
    BY <1>11, <2>2, Zenon DEF StageSector, EraseEnds, locals
  <2>4. buf'["A"] = Img
    <3>1. CASE StageSector
      BY <3>1 DEF StageSector, DataInv
    <3>2. CASE EraseEnds
      BY <3>2 DEF EraseEnds, StepInv, Img, This
    <3> QED BY <2>2, <3>1, <3>2
  <2> QED BY <2>1, <2>3, <2>4 DEF Img, This
<1>12. ASSUME pc' = "crc verify", job'.verify, NEW n \in Nat, n = k', NEW i \in 1..(n - 1),
               NEW s, s = changed'[i]
       PROVE  Sector(s)' = ImageSector(op', s)
  <2>1. op # None /\ op' = op /\ op \in Ops /\ ByRom /\ pc' # "idle" /\ job' = job /\ silent' = silent
    BY <1>12, Entered, SameJob DEF RomPcs
  <2>2. (k' = 1 /\ ~CrcVerify) \/ CrcVerify
    BY <1>12, <2>1, Zenon DEF ByRom, RomNext, Start, GateRead, FlashInit, Raise, Unlock, EraseNext, ProgramNext,
      VerifyNext, XtensaErase, XtensaVerify, Calibrate, CrcNext, SectorRead, UnlockRun, Overwrite,
      StageSector, EraseEnds, WriteSector, NextChunk, NextSector
  <2>3. CASE CrcVerify
    <3>1. k' = k + 1 /\ buf'["A"] = Img /\ UNCHANGED <<changed, flash>> /\ RomRead(This * W, W)
          /\ pc = "crc verify"
      BY <2>1, <2>3, Zenon DEF CrcVerify
    <3>2. k \in Nat /\ ~silent /\ This \in FlashSectors
      BY <2>1, <1>12, <3>1, ImgIs DEF DataInv, JobInv, ChangedPcs
    <3>3. Sector(This) = Img
      BY <3>1, <3>2, ReadSector
    <3>4. Sector(changed[i]) = ImageSector(op, changed[i])
      <4>1. CASE i = k
        BY <3>3, <4>1 DEF This, Img
      <4>2. CASE i # k
        <5>1. i \in 1..(k - 1)
          <6>1. n = k + 1
            BY <1>12, <3>1
          <6> QED BY <3>2, <4>2, <6>1
        <5> QED BY <1>12, <2>1, <3>1, <5>1 DEF StepInv
      <4> QED BY <4>1, <4>2
    <3>5. Sector(s)' = Sector(s)
      BY <3>1 DEF Sector, Content
    <3> QED BY <1>12, <2>1, <3>1, <3>4, <3>5
  <2>4. CASE k' = 1
    <3>1. n = 1
      BY <1>12, <2>4
    <3> QED BY <3>1
  <2> QED BY <2>2, <2>3, <2>4
<1>13. Covered(op)' = Covered(op') /\ \A s : ImageSector(op, s)' = ImageSector(op', s)
  BY DEF Covered, FirstSector, LastSector, ImageSector
<1>14. k' \in Nat
  BY DataStep DEF DataInv
<1>15. ASSUME pc' = "crc verify", job'.verify
       PROVE  \A i \in 1..(k' - 1) : \A s : s = changed'[i] => Sector(s)' = ImageSector(op', s)
  BY <1>12, <1>14, <1>15
<1> QED BY <1>1, <1>2, <1>3, <1>8, <1>9, <1>10, <1>11, <1>13, <1>15, ZenonT(60) DEF StepInv, Sector, Content

(***************************************************************************)
(* The invariant: the mailbox                                              *)
(***************************************************************************)
LEMMA MailTyped ==
  ASSUME NEW m \in Mails
  PROVE  /\ m.cmd \in Commands \cup {"idle"} /\ m.status \in 0..2 /\ m.args \in Args
         /\ \A cmd \in Commands \cup {"idle"} : [m EXCEPT !.cmd = cmd] \in Mails
         /\ \A cmd \in Commands \cup {"idle"} : [m EXCEPT !.cmd = cmd, !.status = 1] \in Mails
         /\ \A args \in Args : [m EXCEPT !.status = 0, !.args = args] \in Mails
         /\ \A w \in {0, 1, CRC_INIT} : [m EXCEPT !.args = [@ EXCEPT !.m2 = w]] \in Mails
         /\ \A n \in 0..2 : [m EXCEPT !.status = n] \in Mails
<1>1. m.cmd \in Commands \cup {"idle"} /\ m.status \in 0..2 /\ m.args \in Args
  BY DEF Mails
<1>2. \A cmd \in Commands \cup {"idle"} : [m EXCEPT !.cmd = cmd] \in Mails
  BY DEF Mails
<1>3. ASSUME NEW cmd \in Commands \cup {"idle"} PROVE [m EXCEPT !.cmd = cmd, !.status = 1] \in Mails
  <2> DEFINE m1 == [m EXCEPT !.cmd = cmd]
  <2>1. [m EXCEPT !.cmd = cmd, !.status = 1] = [m1 EXCEPT !.status = 1] /\ m1 \in Mails
    BY <1>2
  <2> HIDE DEF m1
  <2>2. [m1 EXCEPT !.status = 1] \in Mails
    BY <2>1 DEF Mails
  <2> QED BY <2>1, <2>2
<1>4. ASSUME NEW args \in Args PROVE [m EXCEPT !.status = 0, !.args = args] \in Mails
  <2> DEFINE m1 == [m EXCEPT !.status = 0]
  <2>1. [m EXCEPT !.status = 0, !.args = args] = [m1 EXCEPT !.args = args] /\ m1 \in Mails
    BY <1>1 DEF Mails
  <2> HIDE DEF m1
  <2>2. [m1 EXCEPT !.args = args] \in Mails
    BY <2>1 DEF Mails
  <2> QED BY <2>1, <2>2
<1>5. ASSUME NEW w \in {0, 1, CRC_INIT} PROVE [m EXCEPT !.args = [@ EXCEPT !.m2 = w]] \in Mails
  <2>1. [m.args EXCEPT !.m2 = w] \in Args
    BY <1>1 DEF Args
  <2> QED BY <2>1 DEF Mails
<1>6. \A n \in 0..2 : [m EXCEPT !.status = n] \in Mails
  BY DEF Mails
<1> QED BY <1>1, <1>2, <1>3, <1>4, <1>5, <1>6

\* The stub stays a stub when its fields are updated.
LEMMA StubTyped ==
  ASSUME NEW t \in Stubs, NEW label \in StubStates
  PROVE  /\ t.pc \in StubStates /\ t.args \in Args /\ t.s \in Nat /\ t.err \in {0, 1}
         /\ [t EXCEPT !.pc = label] \in Stubs
         /\ [t EXCEPT !.s = @ + 1] \in Stubs
         /\ \A err \in {0, 1} : [t EXCEPT !.pc = label, !.err = err] \in Stubs
<1>1. t.pc \in StubStates /\ t.args \in Args /\ t.s \in Nat /\ t.err \in {0, 1}
  BY DEF Stubs
<1>2. [t EXCEPT !.pc = label] \in Stubs
  BY DEF Stubs
<1>3. [t EXCEPT !.s = @ + 1] \in Stubs
  <2>1. t.s + 1 \in Nat
    BY <1>1
  <2> QED BY <2>1 DEF Stubs
<1>4. \A err \in {0, 1} : [t EXCEPT !.pc = label, !.err = err] \in Stubs
  BY DEF Stubs
<1> QED BY <1>1, <1>2, <1>3, <1>4

\* Every step keeps the types of the mailbox.
LEMMA MailTypesStep ==
  ASSUME ControlInv, DataInv, JobInv, ListInv, MailInv, DigestInv, Next
  PROVE  MailTypes'
<1>1. NoArgs \in Args /\ NoMail \in Mails /\ Off \in Stubs /\ [Off EXCEPT !.pc = "poll"] \in Stubs
  BY DEF NoArgs, NoMail, Off, Args, Mails, Stubs, StubStates, Nothing
<1>2. MailTypes /\ stub.args \in Args /\ mail.args \in Args /\ mail.cmd \in Commands \cup {"idle"}
  BY DEF MailInv, MailTypes, Mails, Stubs
<1>3. mail' \in Mails
  <2>1. CASE UNCHANGED mail
    BY <1>2, <2>1 DEF MailTypes
  <2>2. CASE PostArgs
    BY <1>2, <2>2, MailTyped DEF PostArgs, MailTypes, Pends
  <2>3. CASE PostCmd
    BY <1>2, <2>3, MailTyped DEF PostCmd, MailTypes, Pends
  <2>4. CASE Fetch
    <3>1. mail' \in {[mail EXCEPT !.cmd = "idle", !.status = 1], [mail EXCEPT !.cmd = "idle"]}
      BY <2>4 DEF Fetch
    <3>2. mail \in Mails
      BY <1>2 DEF MailTypes
    <3>3. mail.cmd \in Commands \cup {"idle"} /\ "idle" \in Commands \cup {"idle"} /\ 1 \in 0..2 /\ 2 \in 0..2
      BY <1>2
    <3> QED BY <3>1, <3>2, <3>3, MailTyped, Zenon
  <2>5. CASE ReportErr
    <3>1. mail' = [mail EXCEPT !.args = [@ EXCEPT !.m2 = stub.err]]
      BY <2>5 DEF ReportErr, Reported, ReportOrder
    <3>2. stub.err \in {0, 1, CRC_INIT} /\ mail \in Mails
      BY <1>2 DEF MailTypes, Stubs
    <3> QED BY <3>1, <3>2, MailTyped, Zenon
  <2>6. CASE ReportStatus
    <3>1. mail' \in {[mail EXCEPT !.status = 1], [mail EXCEPT !.status = 2]}
      BY <2>6 DEF ReportStatus, Reported, ReportOrder
    <3>2. mail \in Mails
      BY <1>2 DEF MailTypes
    <3>3. mail.cmd \in Commands \cup {"idle"} /\ "idle" \in Commands \cup {"idle"} /\ 1 \in 0..2 /\ 2 \in 0..2
      BY <1>2
    <3> QED BY <3>1, <3>2, <3>3, MailTyped, Zenon
  <2> QED BY <1>1, <2>1, <2>2, <2>3, <2>4, <2>5, <2>6 DEF Next, ByRom, stubVars, HostNext, StubNext, StubBegin,
        StubBeginRaises, Wait, WaitExpires, TryRaises, EndRaises, DiffRange, Digests, StageNext,
        PostSector, AllPosted, Trapped, TrapExpires, CrcSector, StubUnlock, StubErase, StubWrite
<1>4. stub' \in Stubs
  <2> USE DEF StubStates, Step, Failed
  <2>1. CASE UNCHANGED stub
    BY <1>2, <2>1 DEF MailTypes
  <2>2. CASE Fetch
    <3>1. CASE mail.cmd = "quit"
      BY <1>1, <2>2, <3>1 DEF Fetch
    <3>2. CASE mail.cmd # "quit"
      <4>1. stub' = [pc |-> IF mail.cmd = "crc" THEN "crc" ELSE "unlock", cmd |-> mail.cmd,
                     args |-> mail.args, s |-> 0, err |-> 0]
        BY <2>2, <3>2 DEF Fetch
      <4> QED BY <1>2, <4>1 DEF Stubs
    <3> QED BY <3>1, <3>2
  <2>3. stub \in Stubs
    BY <1>2 DEF MailTypes
  <2>4. CASE CrcSector
    BY <2>3, <2>4, StubTyped DEF CrcSector
  <2>5. CASE StubUnlock
    BY <2>3, <2>5, StubTyped DEF StubUnlock
  <2>6. CASE StubErase
    BY <2>3, <2>6, StubTyped DEF StubErase
  <2>7. CASE StubWrite
    BY <2>3, <2>7, StubTyped DEF StubWrite
  <2>8. CASE ReportErr
    BY <2>3, <2>8, StubTyped DEF ReportErr
  <2> QED BY <1>1, <2>1, <2>2, <2>4, <2>5, <2>6, <2>7, <2>8
       DEF Next, ByRom, stubVars, HostNext, StubNext, StubBegin, StubBeginRaises, PostArgs, PostCmd,
        Wait, WaitExpires, TryRaises, EndRaises, DiffRange, Digests, StageNext, PostSector, AllPosted,
        Trapped, TrapExpires, ReportStatus
<1>5. pend' \in Pends
  <2>1. CASE UNCHANGED pend
    BY <1>2, <2>1 DEF MailTypes
  <2>2. ASSUME NEW cmd \in Commands, NEW args \in Args, NEW then \in {"wait", "stage next", "trap"},
               Post(cmd, args, then)
        PROVE  pend' \in Pends
    BY <2>2 DEF Post, Pends
  <2>3. ASSUME NEW bad, Quit(bad) PROVE pend' \in Pends
    BY <1>1, <2>2, <2>3 DEF Quit, Commands
  <2>4. CASE DiffRange
    <3>1. k \in Nat /\ Range1 \in Nat
      <4>1. op \in Ops /\ k \in Covered(op)
        BY <2>4 DEF DiffRange, DigestInv, SoFar, Diffing, ControlInv, At
      <4> QED BY <4>1, RangeIs, Sizes
    <3>2. [m2 |-> CRC_INIT, at |-> k, count |-> Range1, buf |-> "A"] \in Args
      BY <3>1 DEF Args
    <3> QED BY <2>2, <2>4, <3>2 DEF DiffRange, Commands
  <2>5. CASE PostSector
    <3>1. This \in Nat /\ Buffer(k) \in {"A", "B"}
      <4>1. pc \in ChangedPcs
        BY <2>5 DEF PostSector, ChangedPcs, At
      <4> QED BY <4>1, ImgIs DEF FlashSectors, Buffer
    <3>2. [NoArgs EXCEPT !.at = This, !.buf = Buffer(k)] \in Args
      BY <3>1 DEF Args, NoArgs
    <3> QED BY <2>2, <2>5, <3>2 DEF PostSector, Commands
  <2> QED BY <2>1, <2>3, <2>4, <2>5
       DEF Next, ByRom, stubVars, HostNext, StubNext, StubBegin, StubBeginRaises, PostArgs, PostCmd,
        Wait, WaitExpires, TryRaises, EndRaises, Digests, StageNext, AllPosted,
        Trapped, TrapExpires, Fetch, CrcSector, StubUnlock, StubErase, StubWrite, ReportErr, ReportStatus,
        StubRest, Host
<1>6. after' \in {"idle", "digests", "post", "verified"} /\ {verifying, failed}' \subseteq BOOLEAN
  BY <1>2 DEF MailTypes, Next, ByRom, stubVars, HostNext, StubNext, StubBegin, StubBeginRaises, PostArgs,
    PostCmd, Wait, WaitExpires, TryRaises, EndRaises, DiffRange, Digests, StageNext, PostSector, AllPosted,
    Trapped, TrapExpires, Fetch, CrcSector, StubUnlock, StubErase, StubWrite, ReportErr, ReportStatus,
    StubRest, Host, Quit
<1> QED BY <1>3, <1>4, <1>5, <1>6 DEF MailTypes

\* A place in a list is the first, or a later one.
LEMMA OneOrMore == \A n, i : i \in 1..n => i > 1 \/ i = 1
OBVIOUS

\* Every step keeps mailbox and stub in agreement.
LEMMA MailStep ==
  ASSUME ControlInv, DataInv, JobInv, ListInv, StepInv, MailInv, FlightInv, DigestInv, Next
  PROVE  MailInv'
<1>1. MailTypes'
  BY MailTypesStep
<1> USE <1>1, SpiflashAssumption
<1> USE DEF MailInv, MailTypes, Mails, Pends, Stubs, At, Goto, Return, Post, Quit, Off, NoMail, Commands, StubPcs, Posting, Idle
<1>2. CASE ByRom
  <2>1. ASSUME NEW o \in Ops, Start(o), UNCHANGED stubVars PROVE MailInv'
    BY <2>1 DEF Start, stubVars, ControlInv
  <2>2. CASE GateRead /\ UNCHANGED stubVars
    BY <2>2 DEF GateRead, stubVars, ControlInv, NextChunk, NextSector
  <2>3. CASE FlashInit /\ UNCHANGED stubVars
    BY <2>3 DEF FlashInit, stubVars, ControlInv, NextChunk, NextSector
  <2>4. CASE Raise /\ UNCHANGED stubVars
    BY <2>4 DEF Raise, stubVars, ControlInv, NextChunk, NextSector
  <2>5. CASE Unlock /\ UNCHANGED stubVars
    BY <2>5 DEF Unlock, stubVars, ControlInv, NextChunk, NextSector
  <2>6. CASE EraseNext /\ UNCHANGED stubVars
    BY <2>6 DEF EraseNext, stubVars, ControlInv, NextChunk, NextSector
  <2>7. CASE ProgramNext /\ UNCHANGED stubVars
    BY <2>7 DEF ProgramNext, stubVars, ControlInv, NextChunk, NextSector
  <2>8. CASE VerifyNext /\ UNCHANGED stubVars
    BY <2>8 DEF VerifyNext, stubVars, ControlInv, NextChunk, NextSector
  <2>9. CASE XtensaErase /\ UNCHANGED stubVars
    BY <2>9 DEF XtensaErase, stubVars, ControlInv, NextChunk, NextSector
  <2>10. CASE XtensaVerify /\ UNCHANGED stubVars
    BY <2>10 DEF XtensaVerify, stubVars, ControlInv, NextChunk, NextSector
  <2>11. CASE Calibrate /\ UNCHANGED stubVars
    BY <2>11 DEF Calibrate, stubVars, ControlInv, NextChunk, NextSector
  <2>12. CASE CrcNext /\ UNCHANGED stubVars
    BY <2>12 DEF CrcNext, stubVars, ControlInv, NextChunk, NextSector
  <2>13. CASE SectorRead /\ UNCHANGED stubVars
    BY <2>13 DEF SectorRead, stubVars, ControlInv, NextChunk, NextSector
  <2>14. CASE UnlockRun /\ UNCHANGED stubVars
    BY <2>14 DEF UnlockRun, stubVars, ControlInv, NextChunk, NextSector
  <2>15. CASE Overwrite /\ UNCHANGED stubVars
    BY <2>15 DEF Overwrite, stubVars, ControlInv, NextChunk, NextSector
  <2>16. CASE StageSector /\ UNCHANGED stubVars
    BY <2>16 DEF StageSector, stubVars, ControlInv, NextChunk, NextSector
  <2>17. CASE EraseEnds /\ UNCHANGED stubVars
    BY <2>17 DEF EraseEnds, stubVars, ControlInv, NextChunk, NextSector
  <2>18. CASE WriteSector /\ UNCHANGED stubVars
    BY <2>18 DEF WriteSector, stubVars, ControlInv, NextChunk, NextSector
  <2>19. CASE CrcVerify /\ UNCHANGED stubVars
    BY <2>19 DEF CrcVerify, stubVars, ControlInv, NextChunk, NextSector
  <2> QED BY <1>2, <2>1, <2>2, <2>3, <2>4, <2>5, <2>6, <2>7, <2>8, <2>9, <2>10, <2>11, <2>12, <2>13, <2>14, <2>15, <2>16, <2>17, <2>18, <2>19 DEF ByRom, RomNext
<1>3. CASE StubBegin
  BY <1>3 DEF StubBegin, locals
<1>4. CASE StubBeginRaises
  BY <1>4 DEF StubBeginRaises, locals
<1>5. CASE PostArgs
  BY <1>5 DEF PostArgs, locals
<1>6. CASE PostCmd
  BY <1>6 DEF PostCmd, locals, FlightInv, Staging, Posted
<1>7. CASE Wait
  <2>1. mail.status # 0 /\ Idle /\ UNCHANGED <<mail, stub, after, verifying>> /\ pc = "wait" /\ UNCHANGED result
    BY <1>7 DEF Wait
  <2>2. CASE Goto(after) /\ UNCHANGED pend
    BY <2>1, <2>2
  <2>3. CASE Quit(TRUE)
    BY <2>1, <2>3
  <2> QED BY <1>7, <2>2, <2>3 DEF Wait
<1>8. CASE WaitExpires
  BY <1>8 DEF WaitExpires, locals
<1>9. CASE TryRaises
  BY <1>9 DEF TryRaises, locals
<1>10. CASE EndRaises
  BY <1>10 DEF EndRaises, locals
<1>11. CASE DiffRange
  BY <1>11 DEF DiffRange, locals
<1>12. CASE Digests
  <2>1. Idle /\ UNCHANGED <<mail, stub, after, verifying, result>>
    BY <1>12 DEF Digests
  <2>2. (\E bad : Quit(bad)) \/ (pc' \in {"diff", "stage next"} /\ UNCHANGED pend)
    BY <1>12 DEF Digests
  <2>3. ASSUME NEW bad, Quit(bad) PROVE MailInv'
    BY <2>1, <2>3
  <2>4. CASE pc' \in {"diff", "stage next"} /\ UNCHANGED pend
    BY <2>1, <2>4
  <2> QED BY <2>2, <2>3, <2>4
<1>13. CASE StageNext
  <2>1. pc = "stage next" /\ UNCHANGED <<mail, stub, pend, verifying, result, k>> /\ op # None
    BY <1>13 DEF StageNext, locals
  <2>2. (pc' = "wait" /\ after' = "post") \/ (k = 1 /\ pc' = "post" /\ UNCHANGED after)
    <3>1. k \in 1..Len(changed)
      BY <2>1, Zenon DEF ListInv, ChangedPcs
    <3>2. k > 1 \/ k = 1
      BY <3>1, Zenon, OneOrMore
    <3>3. IF k > 1 THEN Goto("wait") /\ after' = "post" ELSE Goto("post") /\ UNCHANGED after
      BY <1>13, Zenon DEF StageNext
    <3> QED BY <3>2, <3>3, Zenon DEF Goto
  <2> QED BY <2>1, <2>2
<1>14. CASE PostSector
  BY <1>14 DEF PostSector, locals
<1>15. CASE AllPosted
  <2>1. Idle /\ UNCHANGED <<mail, stub, after, result>>
    BY <1>15 DEF AllPosted
  <2>2. Quit(FALSE) \/ (pc' = "diff" /\ UNCHANGED pend)
    BY <1>15 DEF AllPosted
  <2>3. CASE Quit(FALSE)
    BY <2>1, <2>3
  <2>4. CASE pc' = "diff" /\ UNCHANGED pend
    BY <2>1, <2>4
  <2> QED BY <2>2, <2>3, <2>4
<1>16. CASE Trapped
  BY <1>16 DEF Trapped, locals
<1>17. CASE TrapExpires
  BY <1>17 DEF TrapExpires, locals
<1>18. CASE Fetch
  BY <1>18, ZenonT(60) DEF Fetch, locals, StubRest, Host, Running, Step, Failed
<1>19. CASE CrcSector
  BY <1>19 DEF CrcSector, locals, StubRest, Host, Running, Step, Failed
<1>20. CASE StubUnlock
  BY <1>20 DEF StubUnlock, locals, StubRest, Host, Running, Step, Failed
<1>21. CASE StubErase
  BY <1>21 DEF StubErase, locals, StubRest, Host, Running, Step, Failed
<1>22. CASE StubWrite
  BY <1>22 DEF StubWrite, locals, StubRest, Host, Running, Step, Failed
<1>23. CASE ReportErr
  BY <1>23, ZenonT(60) DEF ReportErr, locals, StubRest, Host, Running, Step, Failed, Reported, ReportOrder
<1>24. CASE ReportStatus
  BY <1>24, ZenonT(60) DEF ReportStatus, locals, StubRest, Host, Running, Step, Failed, Reported, ReportOrder
<1> QED BY <1>2, <1>3, <1>4, <1>5, <1>6, <1>7, <1>8, <1>9, <1>10, <1>11, <1>12, <1>13, <1>14, <1>15, <1>16, <1>17, <1>18, <1>19, <1>20, <1>21, <1>22, <1>23, <1>24
       DEF Next, HostNext, StubNext

(***************************************************************************)
(* The invariant: the commands under way                                   *)
(***************************************************************************)
LEMMA CarriedKept ==
  ASSUME NEW a, Carried(a), job' = job, buf'[a.buf] = buf[a.buf],
         op' # None => op # None /\ changed' = changed
  PROVE  Carried(a)'
BY DEF Carried, Carries

\* While the host works over the ROM no stub runs.
LEMMA StubOff ==
  ASSUME ControlInv, MailInv, ByRom
  PROVE  /\ stub.pc = "off" /\ mail.cmd \notin {"crc", "program"} /\ pc' \notin StubPcs
         /\ UNCHANGED stubVars
<1>1. UNCHANGED stubVars
  BY DEF ByRom
<1>2. pc \notin StubPcs /\ pc' \notin StubPcs /\ result = None
  BY SpiflashAssumption DEF ControlInv, ByRom, RomNext, Start, GateRead, FlashInit, Raise, Unlock,
    EraseNext, ProgramNext, VerifyNext, XtensaErase, XtensaVerify, Calibrate, CrcNext, SectorRead, UnlockRun,
    Overwrite, StageSector, EraseEnds, WriteSector, CrcVerify, NextChunk, NextSector, At, Goto, Return,
    StubPcs, UsesStub
<1>3. stub.pc = "off"
  BY <1>2, SpiflashAssumption DEF ControlInv
<1> QED BY <1>1, <1>2, <1>3 DEF MailInv

\* The buffers are used in turn.
LEMMA BuffersTurn ==
  ASSUME NEW n \in Nat
  PROVE  Buffer(n) \in {"A", "B"} /\ Buffer(n) # Buffer(n + 1)
BY DEF Buffer

\* What the stub does with a command it fetches.
LEMMA FetchIs ==
  ASSUME MailTypes, Fetch
  PROVE  /\ stub.pc = "poll" /\ mail.cmd # "idle" /\ mail'.cmd = "idle" /\ UNCHANGED Host
         /\ mail.cmd \in {"crc", "program", "quit"} /\ "off" \notin {"unlock", "erase", "write", "crc"}
         /\ mail.cmd = "quit" => stub' = Off /\ stub'.pc = "off"
         /\ mail.cmd = "crc" => stub'.pc = "crc" /\ stub'.args = mail.args /\ stub'.s = 0 /\ stub'.err = 0
         /\ mail.cmd = "program" => stub'.pc = "unlock" /\ stub'.args = mail.args
<1>1. /\ stub.pc = "poll" /\ mail.cmd # "idle" /\ UNCHANGED Host
      /\ mail.cmd = "quit" => mail' = [mail EXCEPT !.cmd = "idle", !.status = 1] /\ stub' = Off
      /\ mail.cmd # "quit" =>
           /\ mail' = [mail EXCEPT !.cmd = "idle"]
           /\ stub' = [pc |-> IF mail.cmd = "crc" THEN "crc" ELSE "unlock", cmd |-> mail.cmd,
                       args |-> mail.args, s |-> 0, err |-> 0]
  BY DEF Fetch, Running, StubRest
<1>2. mail \in Mails
  BY DEF MailTypes
<1>3. mail'.cmd = "idle"
  BY <1>1, <1>2 DEF Mails
<1>4. mail.cmd \in {"crc", "program", "quit"}
  BY <1>1, <1>2 DEF Mails, Commands
<1>5. mail.cmd = "quit" => stub'.pc = "off"
  BY <1>1 DEF Off
<1> QED BY <1>1, <1>3, <1>4, <1>5

\* What the two steps of a report do.
LEMMA ReportIs ==
  ASSUME MailTypes, ReportErr \/ ReportStatus
  PROVE  /\ stub.pc \in {"report", "reported"} /\ stub'.pc \in {"reported", "poll"}
         /\ mail'.cmd = mail.cmd /\ UNCHANGED Host
<1>1. mail \in Mails /\ stub \in Stubs
  BY DEF MailTypes
<1>2. CASE ReportErr
  <2>1. mail' = [mail EXCEPT !.args = [@ EXCEPT !.m2 = stub.err]]
    BY <1>2 DEF ReportErr, Reported, ReportOrder
  <2>2. mail'.cmd = mail.cmd
    BY <1>1, <2>1 DEF Mails
  <2> QED BY <1>1, <1>2, <2>2 DEF ReportErr, Running, Step, Stubs, StubRest
<1>3. CASE ReportStatus
  <2>1. mail' = [mail EXCEPT !.status = IF stub.err = 0 THEN 1 ELSE 2]
    BY <1>3 DEF ReportStatus, Reported, ReportOrder
  <2>2. mail'.cmd = mail.cmd
    BY <1>1, <2>1 DEF Mails
  <2> QED BY <1>3, <2>2 DEF ReportStatus, Running, Off, StubRest
<1> QED BY <1>2, <1>3

\* What a ROM call of the stub leaves alone.
LEMMA RomCallIs ==
  ASSUME MailTypes, StubUnlock \/ StubErase \/ StubWrite
  PROVE  /\ Programming /\ stub'.pc \in {"erase", "write", "report", "stuck"}
         /\ stub'.args = stub.args /\ UNCHANGED <<mail, Host>>
<1>1. stub \in Stubs
  BY DEF MailTypes
<1>2. CASE StubUnlock
  BY <1>1, <1>2 DEF StubUnlock, Running, Step, Failed, Programming, Stubs, StubRest
<1>3. CASE StubErase
  BY <1>1, <1>3 DEF StubErase, Running, Step, Failed, Programming, Stubs, StubRest
<1>4. CASE StubWrite
  BY <1>1, <1>4 DEF StubWrite, Running, Step, Failed, Programming, Stubs, StubRest
<1> QED BY <1>2, <1>3, <1>4

\* A step that ends in posting a program command posted it, or was posting it already.
LEMMA PostingStep ==
  ASSUME MailInv, HostNext \/ StubNext, Posting', pend'.cmd = "program"
  PROVE  PostSector \/ (Posting /\ UNCHANGED <<pend, k, changed>> /\ ~StageNext)
<1>1. CASE StubNext
  <2>1. UNCHANGED Host
    BY <1>1 DEF StubNext, Fetch, CrcSector, StubUnlock, StubErase, StubWrite, ReportErr, ReportStatus, StubRest
  <2>2. UNCHANGED <<pend, pc, k, changed>>
    BY <2>1 DEF Host, locals
  <2> QED BY <2>2 DEF Posting, StageNext, At
<1>2. CASE PostArgs
  BY <1>2 DEF PostArgs, Posting, StageNext, At, locals
<1>3. ASSUME NEW bad, Quit(bad) PROVE FALSE
  BY <1>3 DEF Quit, Post
<1>4. ~DiffRange
  BY DEF DiffRange, Post
<1>5. pc' \notin {"args", "cmd"} \/ (\E bad : Quit(bad)) \/ PostArgs \/ DiffRange \/ PostSector \/ StubNext
  <2>1. CASE PostCmd
    BY <2>1 DEF PostCmd, Goto, MailInv, MailTypes, Pends
  <2>2. CASE Wait
    BY <2>2 DEF Wait, Goto, MailInv, MailTypes
  <2>3. CASE Digests
    BY <2>3 DEF Digests, Goto
  <2> QED BY <2>1, <2>2, <2>3 DEF HostNext, StubBegin, StubBeginRaises, WaitExpires, TryRaises, EndRaises,
        StageNext, AllPosted, Trapped, TrapExpires, Goto, Return
<1> QED BY <1>1, <1>2, <1>3, <1>4, <1>5 DEF Posting

\* Every step keeps what is on its way to the stub a whole sector of the image.
LEMMA FlightStep ==
  ASSUME ControlInv, DataInv, JobInv, ListInv, StepInv, MailInv, FlightInv, DigestInv,
         ControlInv', MailInv', Next
  PROVE  FlightInv'
<1>1. CASE ByRom
  <2>1. stub.pc = "off" /\ mail.cmd \notin {"crc", "program"} /\ pc' \notin StubPcs /\ UNCHANGED stubVars
    BY <1>1, StubOff
  <2> QED BY <2>1 DEF FlightInv, Staging, Posted, StubPcs, Programming, Posting, Digesting, stubVars
<1>2. CASE Digests
  <2>1. Idle /\ UNCHANGED <<mail, stub>> /\ pc = "digests"
    BY <1>2 DEF Digests, MailInv, At
  <2>2. \/ pc' = "args" /\ pend'.cmd = "quit"
        \/ pc' \in {"diff", "stage next"}
    <3>1. (\E bad : Quit(bad)) \/ pc' \in {"diff", "stage next"}
      BY <1>2 DEF Digests, Goto
    <3>2. ASSUME NEW bad, Quit(bad) PROVE pc' = "args" /\ pend'.cmd = "quit"
      BY <3>2 DEF Quit, Post, Goto
    <3> QED BY <3>1, <3>2
  <2> QED BY <2>1, <2>2 DEF FlightInv, Staging, Posted, Idle, Posting, Programming, Digesting
<1>3. CASE CrcSector
  <2>1. stub.pc = "crc" /\ stub'.pc \in {"crc", "report", "stuck"} /\ UNCHANGED <<mail, op, pc, pend, after>>
    BY <1>3 DEF CrcSector, Running, Step, Failed, StubRest, Host, MailInv, MailTypes, Stubs
  <2>2. mail.cmd # "program" /\ mail.cmd # "crc"
    BY <2>1 DEF MailInv
  <2>3. op # None => (pc = "wait" /\ after = "digests") \/ Quitting
    BY <2>1 DEF FlightInv, Staging, Posted, Digesting
  <2>4. pc # "idle" => op # None
    BY DEF ControlInv
  <2> QED BY <2>1, <2>2, <2>3, <2>4 DEF FlightInv, Staging, Posted, Posting, Programming, Quitting, Digesting
<1>4. ASSUME ~ByRom, ~Digests, ~CrcSector, NEW a, Carried(a), StageNext => a.buf # Buffer(k)
      PROVE  Carried(a)'
  <2>1. job' = job
    BY <1>4 DEF Next, HostNext, StubNext, StubBegin, StubBeginRaises, PostArgs, PostCmd, Wait, WaitExpires,
      TryRaises, EndRaises, DiffRange, StageNext, PostSector, AllPosted, Trapped, TrapExpires, Fetch,
      StubUnlock, StubErase, StubWrite, ReportErr, ReportStatus, StubRest, Host, Goto, Return, Post, Quit
  <2>2. op' # None => op # None /\ changed' = changed
    BY <1>4 DEF Next, HostNext, StubNext, StubBegin, StubBeginRaises, PostArgs, PostCmd, Wait, WaitExpires,
      TryRaises, EndRaises, DiffRange, StageNext, PostSector, AllPosted, Trapped, TrapExpires, Fetch,
      StubUnlock, StubErase, StubWrite, ReportErr, ReportStatus, StubRest, Host, Goto, Return, Post, Quit,
      locals
  <2>3. buf' = buf \/ (StageNext /\ buf' = [buf EXCEPT ![Buffer(k)] = Img])
    BY <1>4 DEF Next, HostNext, StubNext, StubBegin, StubBeginRaises, PostArgs, PostCmd, Wait, WaitExpires,
      TryRaises, EndRaises, DiffRange, StageNext, PostSector, AllPosted, Trapped, TrapExpires, Fetch,
      StubUnlock, StubErase, StubWrite, ReportErr, ReportStatus, target
  <2>4. buf'[a.buf] = buf[a.buf]
    BY <1>4, <2>3 DEF DataInv, Carried
  <2> QED BY <1>4, <2>1, <2>2, <2>4, CarriedKept
<1>5. StageNext => /\ mail.cmd = "program" => mail.args.buf # Buffer(k)
                   /\ Programming => stub.args.buf # Buffer(k)
  BY DEF StageNext, At, FlightInv, Staging, Posted
<1> DEFINE Others == ~ByRom /\ ~Digests /\ ~CrcSector
<1>6. ASSUME Others, mail'.cmd = "program", NEW a, a = mail'.args
      PROVE  Carried(a)'
  <2>1. \/ mail.cmd = "program" /\ mail' = mail
        \/ PostCmd /\ pend.cmd = "program" /\ mail'.args = mail.args
    <3>1. CASE PostCmd
      BY <1>6, <3>1 DEF PostCmd, MailInv, MailTypes, Mails
    <3>2. CASE ~PostCmd /\ ~UNCHANGED mail
      <4>1. StubBegin \/ StubBeginRaises \/ PostArgs \/ Fetch \/ ReportErr \/ ReportStatus
        BY <1>6, <3>2 DEF Next, HostNext, StubNext, Wait, WaitExpires,
          TryRaises, EndRaises, DiffRange, StageNext, PostSector, AllPosted, Trapped, TrapExpires,
          StubUnlock, StubErase, StubWrite
      <4>2. ReportErr \/ ReportStatus
        <5>1. ~StubBegin /\ ~StubBeginRaises
          BY <1>6 DEF StubBegin, StubBeginRaises, NoMail
        <5>2. PostArgs => mail'.cmd = "idle"
          BY DEF PostArgs, MailInv, MailTypes, Mails
        <5>3. Fetch => mail'.cmd = "idle"
          BY FetchIs DEF MailInv
        <5> QED BY <1>6, <4>1, <5>1, <5>2, <5>3
      <4>3. mail.cmd = "program" /\ stub.pc # "poll"
        BY <1>6, <4>2, ReportIs DEF MailInv
      <4> QED BY <4>3 DEF MailInv
    <3> QED BY <1>6, <3>1, <3>2
  <2>2. CASE mail.cmd = "program" /\ mail' = mail
    <3>1. Carried(a)
      BY <1>6, <2>2 DEF FlightInv, Staging, Posted
    <3> QED BY <1>4, <1>5, <1>6, <2>2, <3>1
  <2>3. CASE PostCmd /\ pend.cmd = "program" /\ mail'.args = mail.args
    <3>1. pc = "cmd" /\ mail.args = pend.args
      BY <2>3 DEF PostCmd, At, MailInv
    <3>2. Carried(a)
      BY <1>6, <2>3, <3>1 DEF FlightInv, Staging, Posted, Posting
    <3>3. ~StageNext
      BY <3>1 DEF StageNext, At
    <3> QED BY <1>4, <1>6, <3>2, <3>3
  <2> QED BY <2>1, <2>2, <2>3
<1>7. ASSUME Others, Programming', NEW a, a = stub'.args
      PROVE  Carried(a)'
  <2>1. \/ Programming /\ stub'.args = stub.args
        \/ Fetch /\ mail.cmd = "program" /\ stub'.args = mail.args
    <3>1. CASE UNCHANGED stub
      BY <1>7, <3>1 DEF Programming
    <3>2. CASE Fetch
      BY <1>7, <3>2, FetchIs DEF Programming, MailInv
    <3>3. CASE StubUnlock \/ StubErase \/ StubWrite
      BY <3>3, RomCallIs DEF MailInv
    <3>4. CASE ReportErr \/ ReportStatus
      BY <1>7, <3>4, ReportIs DEF Programming, MailInv
    <3>5. CASE StubBegin \/ StubBeginRaises \/ TrapExpires
      BY <1>7, <3>5 DEF StubBegin, StubBeginRaises, TrapExpires, Off, Programming
    <3> QED BY <1>7, <3>1, <3>2, <3>3, <3>4, <3>5 DEF Next, HostNext, StubNext, PostArgs, PostCmd,
          Wait, WaitExpires, TryRaises, EndRaises, DiffRange, StageNext, PostSector, AllPosted, Trapped
  <2>2. Carried(a)
    BY <1>7, <2>1 DEF FlightInv, Staging, Posted
  <2>3. StageNext => a.buf # Buffer(k)
    BY <1>5, <1>7, <2>1
  <2> QED BY <1>4, <1>7, <2>2, <2>3
<1>8. ASSUME Others, Posting', pend'.cmd = "program", NEW a, a = pend'.args
      PROVE  Carried(a)'
  <2>1. PostSector \/ (Posting /\ pend' = pend /\ ~StageNext)
    BY <1>8, PostingStep DEF Next
  <2>2. CASE Posting /\ pend' = pend /\ ~StageNext
    <3>1. Carried(a)
      BY <1>8, <2>2 DEF FlightInv, Staging, Posted
    <3> QED BY <1>4, <1>8, <2>2, <3>1
  <2>3. CASE PostSector
    <3>1. pc = "post" /\ pc \in ChangedPcs /\ a = [NoArgs EXCEPT !.at = This, !.buf = Buffer(k)] /\ ~StageNext
      BY <1>8, <2>3 DEF PostSector, StageNext, At, Post, ChangedPcs
    <3>2. a.at = This /\ a.buf = Buffer(k)
      BY <3>1 DEF NoArgs
    <3>3. This \in job.sectors /\ k \in DOMAIN changed
      BY <3>1, ImgIs DEF ListInv, Listed
    <3>4. Carries(buf[Buffer(k)], This) /\ Buffer(k) \in {"A", "B"}
      BY <3>1 DEF FlightInv, Staging, Posted, This, Buffer
    <3>5. Carried(a)
      BY <3>2, <3>3, <3>4 DEF Carried, This
    <3> QED BY <1>4, <1>8, <3>1, <3>5
  <2> QED BY <2>1, <2>2, <2>3
<1>9. ASSUME Others, pc' = "stage next", NEW n, n = k'
      PROVE  /\ mail'.cmd = "program" => mail'.args.buf # Buffer(n)
             /\ Programming' => stub'.args.buf # Buffer(n)
  <2>1. \/ pc = "stage next" /\ k' = k /\ StubNext
        \/ PostCmd /\ pend.then = "stage next" /\ k' = k
    BY <1>9, ZenonT(60) DEF Next, HostNext, StubNext, StubBegin, StubBeginRaises, PostArgs, PostCmd, Wait, WaitExpires,
      TryRaises, EndRaises, DiffRange, StageNext, PostSector, AllPosted, Trapped, TrapExpires, Fetch,
      StubUnlock, StubErase, StubWrite, ReportErr, ReportStatus, StubRest, Host, Goto, Return, Post, Quit,
      MailInv, MailTypes, locals
  <2>2. CASE pc = "stage next" /\ k' = k /\ StubNext
    <3>1. n = k
      BY <1>9, <2>2
    <3>2. mail.cmd = "program" => mail.args.buf # Buffer(n)
      BY <2>2, <3>1 DEF FlightInv, Staging, Posted
    <3>3. Programming => stub.args.buf # Buffer(n)
      BY <2>2, <3>1 DEF FlightInv, Staging, Posted
    <3>4. mail'.cmd = "program" => mail' = mail
      <4>1. CASE Fetch
        BY <4>1, FetchIs DEF MailInv
      <4>2. CASE ReportErr \/ ReportStatus
        BY <4>2, ReportIs DEF MailInv
      <4> QED BY <1>9, <2>2, <4>1, <4>2 DEF StubNext, StubUnlock, StubErase, StubWrite
    <3>5. Programming' => \/ Programming /\ stub'.args = stub.args
                          \/ mail.cmd = "program" /\ stub'.args = mail.args
      <4>1. CASE Fetch
        BY <4>1, FetchIs DEF MailInv, Programming
      <4>2. CASE ReportErr \/ ReportStatus
        BY <4>2, ReportIs DEF MailInv, Programming
      <4>3. CASE StubUnlock \/ StubErase \/ StubWrite
        BY <4>3, RomCallIs DEF MailInv
      <4> QED BY <1>9, <2>2, <4>1, <4>2, <4>3 DEF StubNext
    <3> QED BY <3>2, <3>3, <3>4, <3>5
  <2>3. CASE PostCmd /\ pend.then = "stage next" /\ k' = k
    <3>1. Posting /\ pend.cmd = "program" /\ pc = "cmd" /\ Idle
      BY <2>3 DEF PostCmd, At, Posting, MailInv, MailTypes, Pends, Commands
    <3>2. pend.args.buf # Buffer(n)
      BY <1>9, <2>3, <3>1 DEF FlightInv, Staging, Posted
    <3>3. mail'.args = mail.args /\ mail.args = pend.args /\ stub' = stub
      BY <2>3, <3>1 DEF PostCmd, MailInv, MailTypes, Mails
    <3> QED BY <3>1, <3>2, <3>3 DEF Programming, Idle
  <2> QED BY <2>1, <2>2, <2>3
<1>10. ASSUME Others, Posting', pend'.cmd = "program", pend'.then = "stage next", NEW n, n = k'
       PROVE  pend'.args.buf # Buffer(n) /\ n # 1 /\ n \in 1..Len(changed')
  <2>1. PostSector \/ (Posting /\ pend' = pend /\ UNCHANGED <<k, changed>>)
    BY <1>10, PostingStep DEF Next
  <2>2. CASE Posting /\ pend' = pend /\ UNCHANGED <<k, changed>>
    BY <1>10, <2>2 DEF FlightInv, Staging, Posted
  <2>3. CASE PostSector
    <3>1. pc \in ChangedPcs /\ changed' = changed /\ pend'.args = [NoArgs EXCEPT !.at = This, !.buf = Buffer(k)]
      BY <2>3 DEF PostSector, At, Post, ChangedPcs
    <3>2. k < Len(changed) /\ n = k + 1
      BY <1>10, <2>3 DEF PostSector, Post
    <3>3. k \in 1..Len(changed)
      BY <3>1, ImgIs
    <3>4. pend'.args.buf = Buffer(k)
      BY <3>1 DEF NoArgs
    <3>5. Len(changed) \in Nat /\ k \in Nat
      BY <3>1 DEF ListInv, Listed, DataInv
    <3>6. Buffer(k) # Buffer(n)
      BY <3>2, <3>5, BuffersTurn
    <3>7. ASSUME NEW m \in Nat, k < m, k \in 1..m PROVE n # 1 /\ n \in 1..m
      BY <3>2, <3>7
    <3> QED BY <3>1, <3>2, <3>3, <3>4, <3>5, <3>6, <3>7
  <2> QED BY <2>1, <2>2, <2>3
<1>11. ASSUME Others, pc' = "post" \/ (pc' = "wait" /\ after' = "post"), NEW n, n = k', NEW s, s = changed'[n]
       PROVE  Carries(buf[Buffer(n)], s)'
  <2>1. \/ pc = "post" \/ (pc = "wait" /\ after = "post")
        \/ StageNext
    BY <1>11 DEF Next, HostNext, StubNext, StubBegin, StubBeginRaises, PostArgs, PostCmd, Wait, WaitExpires,
      TryRaises, EndRaises, DiffRange, PostSector, AllPosted, Trapped, TrapExpires, Fetch,
      StubUnlock, StubErase, StubWrite, ReportErr, ReportStatus, StubRest, Host, Goto, Return, Post, Quit,
      Posting, At, MailInv, MailTypes, Pends, Commands
  <2>2. UNCHANGED <<k, changed, job>>
    BY <1>11 DEF Next, HostNext, StubNext, StubBegin, StubBeginRaises, PostArgs, PostCmd, Wait, WaitExpires,
      TryRaises, EndRaises, DiffRange, StageNext, PostSector, AllPosted, Trapped, TrapExpires, Fetch,
      StubUnlock, StubErase, StubWrite, ReportErr, ReportStatus, StubRest, Host, Goto, Return, Post, Quit,
      locals
  <2>3. CASE StageNext
    <3>1. pc \in ChangedPcs /\ buf' = [buf EXCEPT ![Buffer(k)] = Img]
      BY <2>3 DEF StageNext, At, ChangedPcs
    <3>2. buf'[Buffer(n)] = Img
      BY <1>11, <2>2, <3>1 DEF DataInv, Buffer
    <3>3. Carries(Img, s)
      BY <1>11, <2>2, <3>1, ImgIs DEF This
    <3> QED BY <2>2, <3>2, <3>3 DEF Carries
  <2>4. CASE ~StageNext
    <3>1. buf' = buf
      BY <1>11, <2>4 DEF Next, HostNext, StubNext, StubBegin, StubBeginRaises, PostArgs, PostCmd, Wait, WaitExpires,
        TryRaises, EndRaises, DiffRange, PostSector, AllPosted, Trapped, TrapExpires, Fetch,
        StubUnlock, StubErase, StubWrite, ReportErr, ReportStatus, target
    <3>2. Carries(buf[Buffer(n)], s)
      BY <1>11, <2>1, <2>2, <2>4 DEF FlightInv, Staging, Posted
    <3> QED BY <2>2, <3>1, <3>2 DEF Carries
  <2> QED BY <2>3, <2>4
<1>12. ASSUME Others, op' # None, Digesting'
       PROVE  (pc' = "wait" /\ after' = "digests") \/ Quitting'
  <2>1. CASE StubNext
    <3>1. Digesting /\ UNCHANGED <<pc, after, pend, op>>
      <4>1. CASE Fetch
        BY <1>12, <4>1, FetchIs DEF Host, MailInv, Digesting
      <4>2. CASE ReportErr \/ ReportStatus
        BY <1>12, <4>2, ReportIs DEF Host, MailInv, Digesting
      <4>3. CASE StubUnlock \/ StubErase \/ StubWrite
        BY <1>12, <4>3, RomCallIs DEF Host, MailInv, Digesting
      <4> QED BY <1>12, <2>1, <4>1, <4>2, <4>3 DEF StubNext
    <3> QED BY <1>12, <3>1 DEF FlightInv, Staging, Posted, Quitting, Posting
  <2>2. CASE PostCmd
    <3>1. CASE pend.cmd = "quit"
      BY <2>2, <3>1 DEF PostCmd, Goto, Quitting, MailInv
    <3>2. CASE pend.cmd # "quit"
      <4>1. Idle /\ stub' = stub /\ mail'.cmd = pend.cmd /\ pc' = pend.then /\ after' = after /\ pc = "cmd"
        BY <2>2, <3>2 DEF PostCmd, Goto, At, MailInv, Posting, MailTypes, Mails
      <4>2. pend.cmd = "crc"
        BY <1>12, <4>1 DEF Digesting, Idle
      <4> QED BY <4>1, <4>2 DEF MailInv, Posting
    <3> QED BY <3>1, <3>2
  <2>3. CASE HostNext /\ ~PostCmd
    <3>1. Digesting /\ op # None
      <4>1. op # None
        BY <2>3 DEF HostNext, StubBegin, StubBeginRaises, PostArgs, Wait, WaitExpires,
          TryRaises, EndRaises, DiffRange, StageNext, PostSector, AllPosted, Digests, Trapped, TrapExpires, At
      <4>2. CASE StubBegin \/ StubBeginRaises
        <5>1. pc = "begin" /\ result = None
          BY <4>1, <4>2 DEF StubBegin, StubBeginRaises, At, ControlInv
        <5>2. stub.pc = "off"
          BY <5>1, SpiflashAssumption DEF ControlInv, StubPcs
        <5> QED BY <1>12, <4>2, <5>2 DEF StubBegin, StubBeginRaises, Digesting, NoMail, Off
      <4>3. CASE PostArgs
        <5>1. mail'.cmd = mail.cmd /\ stub' = stub
          BY <4>3 DEF PostArgs, MailInv, MailTypes, Mails
        <5> QED BY <1>12, <4>1, <5>1 DEF Digesting
      <4>4. CASE TrapExpires
        BY <1>12, <4>1, <4>4 DEF TrapExpires, Return
      <4>5. CASE UNCHANGED <<mail, stub>>
        BY <1>12, <4>1, <4>5 DEF Digesting
      <4> QED BY <1>12, <2>3, <4>2, <4>3, <4>4, <4>5 DEF HostNext, Wait, WaitExpires,
            TryRaises, EndRaises, DiffRange, StageNext, PostSector, AllPosted, Trapped
    <3>2. (pc = "wait" /\ after = "digests") \/ Quitting
      BY <3>1 DEF FlightInv, Staging, Posted
    <3>3. mail.status = 0 \/ Quitting
      BY <3>1, <3>2 DEF MailInv, Idle, Digesting
    <3>4. PostArgs \/ WaitExpires \/ TryRaises
      BY <1>12, <2>3, <3>2, <3>3 DEF HostNext, StubBegin, StubBeginRaises, Wait,
        EndRaises, DiffRange, StageNext, PostSector, AllPosted, Trapped, TrapExpires, Return, At,
        Quitting, Posting
    <3>5. CASE PostArgs
      <4>1. pc' = "cmd" /\ pend' = pend /\ Quitting
        BY <3>2, <3>5 DEF PostArgs, Goto, At
      <4> QED BY <4>1 DEF Quitting, Posting
    <3>6. CASE WaitExpires \/ TryRaises
      <4>1. Quit(TRUE)
        BY <3>6 DEF WaitExpires, TryRaises
      <4> QED BY <4>1 DEF Quit, Post, Goto, Quitting, Posting
    <3> QED BY <3>4, <3>5, <3>6
  <2> QED BY <1>12, <2>1, <2>2, <2>3 DEF Next
<1>13. CASE Others
  <2>1. \A a : /\ mail'.cmd = "program" /\ a = mail'.args => Carried(a)'
               /\ Programming' /\ a = stub'.args => Carried(a)'
               /\ Posting' /\ pend'.cmd = "program" /\ a = pend'.args => Carried(a)'
    BY <1>13, <1>6, <1>7, <1>8
  <2>2. \A n : n = k' /\ pc' = "stage next" =>
          /\ mail'.cmd = "program" => mail'.args.buf # Buffer(n)
          /\ Programming' => stub'.args.buf # Buffer(n)
    BY <1>13, <1>9
  <2>3. \A n : n = k' /\ Posting' /\ pend'.cmd = "program" /\ pend'.then = "stage next" =>
          pend'.args.buf # Buffer(n) /\ n # 1 /\ n \in 1..Len(changed')
    BY <1>13, <1>10
  <2>4. \A n, s : n = k' /\ s = changed'[n] /\ (pc' = "post" \/ (pc' = "wait" /\ after' = "post")) =>
          Carries(buf[Buffer(n)], s)'
    BY <1>13, <1>11
  <2>5. (mail.cmd = "program" => Carried(mail.args))'
    BY <2>1 DEF Carried, Carries
  <2>6. (Programming => Carried(stub.args))'
    BY <2>1 DEF Carried, Carries
  <2>7. (Posting /\ pend.cmd = "program" => Carried(pend.args))'
    BY <2>1 DEF Carried, Carries
  <2>8. pc' = "post" \/ (pc' = "wait" /\ after' = "post") => Carries(buf[Buffer(k)], changed[k])'
    BY <2>4 DEF Carries, Buffer
  <2>10. Posting' /\ pend'.cmd = "program" /\ pend'.then = "stage next" =>
           pend'.args.buf # Buffer(k)' /\ k' # 1 /\ k' \in 1..Len(changed')
    BY <2>3 DEF Buffer
  <2>11. op' # None /\ Digesting' => (pc' = "wait" /\ after' = "digests") \/ Quitting'
    BY <1>12, <1>13
  <2>13. Staging'
    BY <2>2 DEF Staging, Buffer
  <2>15. Posted'
    BY <2>10 DEF Posted
  <2>16. (pc = "post" \/ (pc = "wait" /\ after = "post") => Carries(buf[Buffer(k)], changed[k]))'
    BY <2>8
  <2>17. (op # None /\ Digesting => (pc = "wait" /\ after = "digests") \/ Quitting)'
    BY <2>11
  <2> QED BY <2>5, <2>6, <2>7, <2>13, <2>15, <2>16, <2>17 DEF FlightInv
<1> QED BY <1>1, <1>2, <1>3, <1>13

(***************************************************************************)
(* The invariant: the digests                                              *)
(***************************************************************************)
LEMMA PostIs ==
  \A cmd, args, then : Post(cmd, args, then) =>
    pend'.cmd = cmd /\ pend'.args = args /\ pend'.then = then /\ pc' = "args" /\ UNCHANGED <<op, job, result>>
BY DEF Post, Goto

\* A step that leaves flash and digests leaves the ranges compared so far.
LEMMA SoFarKept ==
  ASSUME UNCHANGED <<flash, k, crcs, op>>
  PROVE  (SoFar => SoFar') /\ Range1' = Range1 /\ CrcArgs' = CrcArgs
BY DEF SoFar, Range1, CrcArgs, Sector, Content, Covered, FirstSector, LastSector

\* It leaves the digests of the range as well.
LEMMA DigestsKept ==
  ASSUME UNCHANGED <<flash, k, crcs, op, crcOut>>
  PROVE  /\ Range1' = Range1 /\ CrcArgs' = CrcArgs
         /\ \A n : Digested(n) => Digested(n)'
BY SoFarKept DEF Digested, Sector, Content

\* And the ones still awaited.
LEMMA AwaitedKept ==
  ASSUME Awaited, UNCHANGED <<mail, stub, flash, k, crcs, op, crcOut>>
  PROVE  Awaited'
<1>1. Range1' = Range1 /\ CrcArgs' = CrcArgs
  BY DigestsKept
<1>2. Digested(Range1) => Digested(Range1)'
  BY <1>1, DigestsKept DEF Digested
<1>3. Digested(stub.s) => Digested(stub.s)'
  BY DigestsKept DEF Digested
<1> QED BY <1>1, <1>2, <1>3 DEF Awaited

\* Every step keeps the range asked of the stub inside the flash.
LEMMA RangeStep ==
  ASSUME ControlInv, MailInv, DigestInv, Next
  PROVE  RangeInv'
<1>1. CASE ByRom
  <2>1. UNCHANGED stubVars /\ pc' \notin StubPcs
    BY <1>1, StubOff
  <2> QED BY <2>1 DEF DigestInv, RangeInv, CrcPost, Posting, StubPcs, stubVars
<1>2. ASSUME ~ByRom PROVE mail'.cmd = "crc" => CrcRange(mail'.args)
  <2>1. CASE UNCHANGED mail
    BY <2>1 DEF DigestInv, RangeInv
  <2>2. CASE StubBegin \/ StubBeginRaises
    BY <2>2 DEF StubBegin, StubBeginRaises, NoMail
  <2>3. CASE PostArgs
    <3>1. mail'.cmd = mail.cmd /\ mail.cmd = "idle"
      BY <2>3 DEF PostArgs, MailInv, MailTypes, Mails
    <3> QED BY <3>1
  <2>4. CASE PostCmd
    <3>1. mail'.cmd = pend.cmd /\ mail'.args = mail.args /\ pc = "cmd"
      BY <2>4 DEF PostCmd, At, MailInv, MailTypes, Mails
    <3>2. pend.cmd = "crc" => CrcRange(pend.args) /\ mail.args = pend.args
      BY <3>1 DEF DigestInv, RangeInv, CrcPost, Posting, MailInv
    <3> QED BY <3>1, <3>2
  <2>5. CASE Fetch
    BY <2>5, FetchIs DEF MailInv
  <2>6. CASE ReportErr \/ ReportStatus
    BY <2>6, ReportIs DEF MailInv
  <2> QED BY <1>2, <2>1, <2>2, <2>3, <2>4, <2>5, <2>6 DEF Next, HostNext, StubNext, Wait, WaitExpires,
        TryRaises, EndRaises, DiffRange, Digests, StageNext, PostSector, AllPosted, Trapped, TrapExpires,
        CrcSector, StubUnlock, StubErase, StubWrite
<1>3. ASSUME ~ByRom, stub'.pc = "crc"
      PROVE  CrcRange(stub'.args) /\ stub'.s <= stub'.args.count
  <2>1. CASE UNCHANGED stub
    BY <1>3, <2>1 DEF DigestInv, RangeInv
  <2>2. CASE (StubBegin \/ StubBeginRaises \/ TrapExpires) /\ stub' # stub
    BY <1>3, <2>2 DEF StubBegin, StubBeginRaises, TrapExpires, Off
  <2>3. CASE Fetch
    <3>1. mail.cmd = "crc" /\ stub'.args = mail.args /\ stub'.s = 0
      BY <1>3, <2>3, FetchIs DEF MailInv
    <3>2. mail.args.count \in Nat
      BY DEF MailInv, MailTypes, Mails, Args
    <3> QED BY <3>1, <3>2 DEF DigestInv, RangeInv
  <2>4. CASE ReportErr \/ ReportStatus
    BY <1>3, <2>4, ReportIs DEF MailInv
  <2>5. CASE StubUnlock \/ StubErase \/ StubWrite
    BY <1>3, <2>5, RomCallIs DEF MailInv
  <2>6. CASE CrcSector
    <3>1. stub' = [stub EXCEPT !.s = @ + 1] /\ stub.s # stub.args.count /\ stub.pc = "crc" /\ stub \in Stubs
      BY <1>3, <2>6 DEF CrcSector, Running, Step, Failed, MailInv, MailTypes, Stubs
    <3>2. stub'.args = stub.args /\ stub'.s = stub.s + 1 /\ stub.s \in Nat /\ stub.args.count \in Nat
      BY <3>1 DEF Stubs, Args
    <3>3. CrcRange(stub.args) /\ stub.s <= stub.args.count
      BY <3>1 DEF DigestInv, RangeInv
    <3>4. ASSUME NEW a \in Nat, NEW b \in Nat, a <= b, a # b PROVE a + 1 <= b
      BY <3>4
    <3> QED BY <3>1, <3>2, <3>3, <3>4
  <2> QED BY <1>3, <2>1, <2>2, <2>3, <2>4, <2>5, <2>6 DEF Next, HostNext, StubNext, PostArgs, PostCmd,
        Wait, WaitExpires, TryRaises, EndRaises, DiffRange, Digests, StageNext, PostSector, AllPosted, Trapped
<1>4. ASSUME ~ByRom, CrcPost' PROVE CrcRange(pend'.args)
  <2>1. DiffRange \/ (CrcPost /\ UNCHANGED pend)
    <3>1. CASE StubNext
      <4>1. UNCHANGED Host
        BY <3>1 DEF StubNext, Fetch, CrcSector, StubUnlock, StubErase, StubWrite, ReportErr, ReportStatus, StubRest
      <4> QED BY <1>4, <4>1 DEF Host, CrcPost, Posting
    <3>2. CASE PostArgs
      BY <1>4, <3>2 DEF PostArgs, CrcPost, Posting, At
    <3>3. ASSUME NEW bad, Quit(bad) PROVE FALSE
      BY <1>4, <3>3 DEF Quit, Post, CrcPost
    <3>4. PostSector => pend'.cmd = "program"
      BY PostIs, Zenon DEF PostSector
    <3>5. CASE PostCmd
      BY <1>4, <3>5 DEF PostCmd, Goto, MailInv, MailTypes, Pends, CrcPost, Posting
    <3>6. CASE Wait
      BY <1>4, <3>3, <3>6 DEF Wait, Goto, MailInv, MailTypes, CrcPost, Posting
    <3>7. CASE Digests
      BY <1>4, <3>3, <3>7 DEF Digests, Goto, CrcPost, Posting
    <3>8. CASE AllPosted
      BY <1>4, <3>3, <3>8 DEF AllPosted, Goto, CrcPost, Posting
    <3>9. ~WaitExpires /\ ~TryRaises
      BY <3>3 DEF WaitExpires, TryRaises
    <3> QED BY <1>4, <3>1, <3>2, <3>4, <3>5, <3>6, <3>7, <3>8, <3>9 DEF Next, HostNext, StubBegin, StubBeginRaises,
          EndRaises, StageNext, Trapped, TrapExpires, Goto, Return, CrcPost, Posting
  <2>2. CASE DiffRange
    <3>1. pend'.args = CrcArgs /\ pc = "diff"
      BY <2>2 DEF DiffRange, Post, At, CrcArgs
    <3>2. op \in Ops /\ k \in Covered(op)
      BY <3>1, SpiflashAssumption DEF DigestInv, Diffing, SoFar, ControlInv
    <3>3. /\ Range1 \in 1..CrcMax /\ k + Range1 <= LastSector(op) + 1 /\ k \in Nat
          /\ LastSector(op) \in Nat /\ LastSector(op) + 1 <= Sectors
      <4>1. LastSector(op) \in Covered(op) /\ LastSector(op) \in Nat
        BY <3>2, ImageIs DEF Covered
      <4>2. LastSector(op) \in 0..(Sectors - 1)
        BY <3>2, <4>1, ImageIs
      <4> QED BY <3>2, <4>1, <4>2, RangeIs, Sizes
    <3>4. k + Range1 <= Sectors /\ Range1 <= CrcMax
      BY <3>3, Sizes
    <3> QED BY <3>1, <3>4 DEF CrcArgs, CrcRange
  <2>3. CASE CrcPost /\ UNCHANGED pend
    BY <2>3 DEF DigestInv, RangeInv
  <2> QED BY <2>1, <2>2, <2>3
<1>5. ~ByRom => (mail.cmd = "crc" => CrcRange(mail.args))'
  BY <1>2
<1>6. ~ByRom => (stub.pc = "crc" => CrcRange(stub.args) /\ stub.s <= stub.args.count)'
  BY <1>3
<1>7. ~ByRom => (CrcPost => CrcRange(pend.args))'
  BY <1>4
<1> QED BY <1>1, <1>5, <1>6, <1>7 DEF RangeInv

\* Steps that do not change the digests, nor what they are of.
LEMMA Resting ==
  ASSUME ControlInv, MailInv, DigestInv, HostNext \/ StubNext, Diffing \/ pc = "verified" \/ pc = "begin"
  PROVE  UNCHANGED flash
<1>1. Diffing => Idle \/ (CrcWait /\ Awaited)
  BY DEF Diffing, DigestInv, MailInv, CrcPost, CrcWait
<1>2. pc = "verified" => Idle
  BY DEF MailInv
<1>3. pc = "begin" => stub.pc = "off"
  BY SpiflashAssumption DEF ControlInv, StubPcs
<1>4. ~StubErase /\ ~StubWrite
  BY <1>1, <1>2, <1>3 DEF StubErase, StubWrite, Running, Idle, Awaited
<1> QED BY <1>4 DEF HostNext, StubNext, StubBegin, StubBeginRaises, PostArgs, PostCmd,
      Wait, WaitExpires, TryRaises, EndRaises, DiffRange, Digests, StageNext, PostSector, AllPosted, Trapped,
      TrapExpires, Fetch, CrcSector, StubUnlock, ReportErr, ReportStatus, target

\* Where the host goes when it does not end, or post QUIT.
LEMMA HostSteps ==
  ASSUME MailInv, HostNext,
         pc' \notin {"idle", "trap"}, ~(pc' \in {"args", "cmd"} /\ pend'.cmd = "quit")
  PROVE  \/ StubBegin \/ DiffRange \/ StageNext \/ PostSector
         \/ (PostArgs \/ PostCmd) /\ pend.cmd # "quit"
         \/ Wait /\ mail.status = 1 /\ pc' = after /\ pend' = pend
         \/ Digests /\ pc' \in {"diff", "stage next"} /\ pend' = pend
         \/ AllPosted /\ pc' = "diff" /\ pend' = pend
<1>1. ASSUME NEW bad, Quit(bad) PROVE FALSE
  BY <1>1, PostIs, Zenon DEF Quit
<1>2. CASE Wait
  BY <1>1, <1>2 DEF Wait, Goto
<1>3. CASE Digests
  BY <1>1, <1>3 DEF Digests, Goto
<1>4. CASE AllPosted
  BY <1>1, <1>4 DEF AllPosted, Goto
<1>5. CASE PostArgs \/ PostCmd
  <2>1. pend.cmd = "quit" => pend.then = "trap"
    BY DEF MailInv
  <2>2. PostArgs => pc' = "cmd" /\ pend' = pend
    BY DEF PostArgs, Goto
  <2> QED BY <1>5, <2>1, <2>2 DEF PostCmd, Goto
<1>6. ~WaitExpires /\ ~TryRaises /\ ~StubBeginRaises /\ ~EndRaises /\ ~Trapped /\ ~TrapExpires
  BY <1>1 DEF WaitExpires, TryRaises, StubBeginRaises, EndRaises, Trapped, TrapExpires, Return
<1> QED BY <1>2, <1>3, <1>4, <1>5, <1>6 DEF HostNext

\* A step of the stub leaves the host as it is.
LEMMA StubRests ==
  ASSUME StubNext
  PROVE  UNCHANGED Host /\ ~Idle /\ UNCHANGED <<pc, op, k, crcs, changed, pend, after, verifying, failed, job, result>>
<1>1. UNCHANGED Host
  BY DEF StubNext, Fetch, CrcSector, StubUnlock, StubErase, StubWrite, ReportErr, ReportStatus, StubRest
<1>2. ~Idle
  BY DEF StubNext, Fetch, CrcSector, StubUnlock, StubErase, StubWrite, ReportErr, ReportStatus, Running, Idle
<1> QED BY <1>1, <1>2 DEF Host, locals

\* How the host comes to compare digests.
LEMMA DiffingStep ==
  ASSUME MailInv, HostNext \/ StubNext, Diffing'
  PROVE  \/ StubBegin \/ (Digests /\ pc' = "diff") \/ (AllPosted /\ pc' = "diff")
         \/ Diffing /\ UNCHANGED <<k, crcs, op>>
<1>1. CASE StubNext
  BY <1>1, StubRests DEF Diffing, CrcPost, CrcWait, Posting
<1>2. CASE HostNext
  <2>1. \/ StubBegin \/ DiffRange \/ StageNext \/ PostSector
        \/ (PostArgs \/ PostCmd) /\ pend.cmd # "quit"
        \/ Wait /\ mail.status = 1 /\ pc' = after /\ pend' = pend
        \/ Digests /\ pc' \in {"diff", "stage next"} /\ pend' = pend
        \/ AllPosted /\ pc' = "diff" /\ pend' = pend
    BY <1>2, HostSteps DEF Diffing, CrcPost, CrcWait, Posting
  <2>2. CASE DiffRange
    BY <2>2 DEF DiffRange, At, Diffing, Post, Goto, locals
  <2>3. ~StageNext
    BY DEF StageNext, Goto, Diffing, CrcPost, CrcWait, Posting
  <2>4. ~PostSector
    <3>1. PostSector => pend'.cmd = "program" /\ pc' = "args"
      BY PostIs, Zenon DEF PostSector
    <3> QED BY <3>1 DEF Diffing, CrcPost, CrcWait, Posting
  <2>5. CASE PostArgs
    BY <2>5 DEF PostArgs, At, Goto, Diffing, CrcPost, CrcWait, Posting, locals
  <2>6. CASE PostCmd /\ pend.cmd # "quit"
    <3>1. pc = "cmd" /\ pc' = pend.then /\ UNCHANGED <<k, crcs, op, after, pend>>
      BY <2>6 DEF PostCmd, At, Goto, locals
    <3>2. pend.cmd = "crc"
      BY <2>6, <3>1 DEF Diffing, CrcPost, CrcWait, Posting, MailInv, MailTypes, Pends, Commands
    <3> QED BY <3>1, <3>2 DEF Diffing, CrcPost, Posting
  <2>7. CASE Wait /\ mail.status = 1 /\ pc' = after /\ pend' = pend
    <3>1. pc = "wait" /\ UNCHANGED <<k, crcs, op, after>>
      BY <2>7 DEF Wait, At, Goto, locals
    <3>2. after = "digests"
      BY <2>7, <3>1 DEF Diffing, CrcPost, CrcWait, Posting, MailInv, MailTypes
    <3> QED BY <3>1, <3>2 DEF Diffing, CrcWait
  <2>8. CASE Digests /\ pc' \in {"diff", "stage next"} /\ pend' = pend
    BY <2>8 DEF Diffing, CrcPost, CrcWait, Posting
  <2> QED BY <2>1, <2>2, <2>3, <2>4, <2>5, <2>6, <2>7, <2>8
<1> QED BY <1>1, <1>2

\* The host sends sectors with no digests left over from a comparison.
LEMMA SendingStep ==
  ASSUME MailInv, DigestInv, HostNext \/ StubNext, Sending'
  PROVE  crcs' = <<>> /\ ~verifying'
<1>1. CASE StubNext
  <2>1. UNCHANGED <<pc, pend, after, crcs, verifying>>
    BY <1>1, StubRests
  <2>2. Sending
    BY <2>1 DEF Sending, Posting
  <2>3. crcs = <<>> /\ ~verifying
    BY <2>2 DEF DigestInv
  <2>4. verifying' = verifying /\ crcs' = crcs
    BY <2>1
  <2> QED BY <2>3, <2>4, Zenon
<1>2. CASE HostNext
  <2>1. \/ StubBegin \/ DiffRange \/ StageNext \/ PostSector
        \/ (PostArgs \/ PostCmd) /\ pend.cmd # "quit"
        \/ Wait /\ mail.status = 1 /\ pc' = after /\ pend' = pend
        \/ Digests /\ pc' \in {"diff", "stage next"} /\ pend' = pend
        \/ AllPosted /\ pc' = "diff" /\ pend' = pend
    BY <1>2, HostSteps DEF Sending, Posting
  <2>2. ~DiffRange
    <3>1. DiffRange => pend'.cmd = "crc" /\ pc' = "args"
      BY PostIs, Zenon DEF DiffRange
    <3> QED BY <3>1 DEF Sending, Posting
  <2>3. ~StubBegin
    BY DEF StubBegin, Goto, Sending, Posting
  <2>4. CASE StageNext \/ PostSector
    <3>1. Sending
      BY <2>4 DEF StageNext, PostSector, At, Sending
    <3>2. crcs = <<>> /\ ~verifying
      BY <3>1 DEF DigestInv
    <3>3. verifying' = verifying /\ crcs' = crcs
      BY <2>4 DEF StageNext, PostSector, locals
    <3> QED BY <3>2, <3>3, Zenon
  <2>5. CASE PostArgs
    BY <2>5 DEF PostArgs, At, Goto, Sending, Posting, locals, DigestInv
  <2>6. CASE PostCmd /\ pend.cmd # "quit"
    <3>1. pc = "cmd" /\ pc' = pend.then /\ UNCHANGED <<k, crcs, op, after, pend, verifying>>
      BY <2>6 DEF PostCmd, At, Goto, locals
    <3>2. pend.cmd = "program"
      BY <2>6, <3>1 DEF Sending, Posting, MailInv, MailTypes, Pends, Commands
    <3> QED BY <3>1, <3>2 DEF Sending, Posting, DigestInv
  <2>7. CASE Wait /\ mail.status = 1 /\ pc' = after /\ pend' = pend
    <3>1. pc = "wait" /\ UNCHANGED <<k, crcs, op, after, verifying>>
      BY <2>7 DEF Wait, At, Goto, locals
    <3>2. after # "digests"
      BY <2>7, <3>1 DEF Sending, Posting
    <3> QED BY <3>1, <3>2 DEF Sending, DigestInv
  <2>8. CASE Digests /\ pc' \in {"diff", "stage next"} /\ pend' = pend
    <3>1. pc' = "stage next"
      BY <2>8 DEF Sending, Posting
    <3>2. crcs' = <<>> /\ ~verifying /\ verifying' = verifying
      <4>1. ASSUME NEW bad, Quit(bad) PROVE FALSE
        BY <3>1, <4>1, PostIs, Zenon DEF Quit
      <4> QED BY <2>8, <3>1, <4>1 DEF Digests, Goto, MailInv, MailTypes
    <3> QED BY <3>2
  <2>9. CASE AllPosted /\ pc' = "diff" /\ pend' = pend
    BY <2>9 DEF Sending, Posting
  <2> QED BY <2>1, <2>2, <2>3, <2>4, <2>5, <2>6, <2>7, <2>8, <2>9
<1> QED BY <1>1, <1>2

\* The digests come while the host waits for them.
LEMMA AwaitedStep ==
  ASSUME ControlInv, DataInv, MailInv, DigestInv, CrcWait, StubNext
  PROVE  Awaited'
<1>1. UNCHANGED <<pc, op, k, crcs>> /\ ~Idle /\ UNCHANGED flash
  BY StubRests, Resting DEF Diffing
<1>2. Awaited /\ op \in Ops /\ k \in Covered(op)
  BY SpiflashAssumption DEF DigestInv, CrcWait, ControlInv, Diffing, SoFar
<1>3. mail.status = 0
  BY <1>1, <1>2 DEF MailInv, CrcWait
<1>4. Range1' = Range1 /\ CrcArgs' = CrcArgs /\ Range1 \in 1..CrcMax
  BY <1>1, <1>2, SoFarKept, RangeIs
<1>5. crcOut' = crcOut => \A n : Digested(n) => Digested(n)'
  BY <1>1, DigestsKept
<1>6. mail \in Mails /\ stub \in Stubs /\ MailTypes
  BY DEF MailInv, MailTypes
<1>7. CASE Fetch
  <2>1. mail.cmd = "crc" /\ stub'.pc = "crc" /\ stub'.args = CrcArgs /\ stub'.s = 0 /\ stub'.err = 0 /\ mail'.cmd = "idle"
    BY <1>2, <1>6, <1>7, FetchIs DEF Awaited
  <2>2. mail'.status = 0
    BY <1>3, <1>6, <1>7, <2>1 DEF Fetch, Mails
  <2>3. Digested(stub.s)'
    BY <2>1 DEF Digested
  <2>4. 0 <= Range1
    BY <1>4, Sizes
  <2> QED BY <1>4, <2>1, <2>2, <2>3, <2>4 DEF Awaited
<1>8. CASE ReportErr \/ ReportStatus
  <2>1. /\ stub.pc \in {"report", "reported"} /\ stub'.pc \in {"reported", "poll"}
        /\ mail'.cmd = mail.cmd
    BY <1>6, <1>8, ReportIs
  <2>2. mail.cmd = "idle" /\ crcOut' = crcOut
    BY <1>2, <1>8, <2>1 DEF Awaited, MailInv, ReportErr, ReportStatus
  <2>3. stub.err = 0 => Digested(Range1)
    BY <1>2, <2>1 DEF Awaited
  <2>4. Digested(Range1) => Digested(Range1)'
    BY <1>4, <1>5, <2>2 DEF Digested
  <2>5. CASE ReportErr
    <3>1. stub'.err = stub.err
      BY <1>6, <2>5 DEF ReportErr, Step, Stubs
    <3>2. mail'.status = 0
      BY <1>3, <1>6, <2>5 DEF ReportErr, Reported, ReportOrder, Mails
    <3> QED BY <2>1, <2>2, <2>3, <2>4, <3>1, <3>2 DEF Awaited
  <2>6. CASE ReportStatus
    <3>1. stub'.pc = "poll"
      BY <2>6 DEF ReportStatus, Off
    <3>2. mail'.status = 1 => stub.err = 0
      BY <1>6, <2>6 DEF ReportStatus, Reported, ReportOrder, Mails
    <3> QED BY <2>1, <2>2, <2>3, <2>4, <3>1, <3>2 DEF Awaited
  <2> QED BY <1>8, <2>5, <2>6
<1>9. CASE CrcSector
  <2>1. stub.pc = "crc" /\ stub.args = CrcArgs /\ stub.err = 0 /\ stub.s <= Range1 /\ Digested(stub.s)
    BY <1>2, <1>9 DEF CrcSector, Running, Awaited
  <2>2. mail' = mail /\ mail.cmd = "idle"
    BY <1>2, <1>9, <2>1 DEF CrcSector, Awaited, MailInv
  <2>3. stub.args.m2 = CRC_INIT /\ stub.args.at = k /\ stub.args.count = Range1 /\ stub.args.buf = "A"
    BY <2>1 DEF CrcArgs
  <2>4. CASE stub.s = stub.args.count
    <3>1. stub' = [stub EXCEPT !.pc = "report"] /\ crcOut' = crcOut
      BY <1>9, <2>4 DEF CrcSector, Step
    <3>2. stub'.pc = "report" /\ stub'.err = 0
      BY <1>6, <2>1, <3>1 DEF Stubs
    <3>3. Digested(Range1)'
      BY <1>4, <1>5, <2>1, <2>3, <2>4, <3>1 DEF Digested
    <3> QED BY <1>3, <2>2, <3>2, <3>3 DEF Awaited
  <2>5. CASE stub.s # stub.args.count
    <3>1. PICK how \in Endings :
            IF how = "ok"
            THEN /\ crcOut' = [crcOut EXCEPT ![stub.s + 1] = <<stub.args.m2, Sector(stub.args.at + stub.s)>>]
                 /\ stub' = [stub EXCEPT !.s = @ + 1]
            ELSE Failed(how)
      BY <1>9, <2>5 DEF CrcSector
    <3>2. CASE how # "ok"
      <4>1. stub'.pc = "stuck" \/ (stub'.pc = "report" /\ stub'.err = 1)
        BY <1>6, <3>1, <3>2 DEF Failed, Stubs
      <4> QED BY <1>3, <2>2, <4>1 DEF Awaited
    <3>3. CASE how = "ok"
      <4> DEFINE n == stub.s
                 value == <<CRC_INIT, Sector(k + n)>>
      <4>1. stub' = [stub EXCEPT !.s = n + 1] /\ crcOut' = [crcOut EXCEPT ![n + 1] = value]
        BY <2>3, <3>1, <3>3
      <4>2. stub'.pc = "crc" /\ stub'.args = CrcArgs /\ stub'.err = 0 /\ stub'.s = n + 1 /\ n \in Nat
        BY <1>6, <2>1, <4>1 DEF Stubs
      <4>3. n + 1 <= Range1 /\ n + 1 \in 1..CrcMax
        BY <1>4, <2>1, <2>3, <2>5, <4>2, Sizes
      <4>4. crcOut \in [1..CrcMax -> Digest]
        BY DEF DigestInv
      <4>5. k \in Nat
        BY DEF DataInv
      <4>6. \A i \in 1..n : crcOut[i] = <<CRC_INIT, Sector(k + i - 1)>>
        BY <2>1 DEF Digested
      <4>7. ASSUME NEW i \in 1..(n + 1) PROVE crcOut'[i] = <<CRC_INIT, Sector(k + i - 1)>>
        <5>1. CASE i = n + 1
          <6>1. crcOut'[i] = value
            BY <4>1, <4>3, <4>4, <5>1
          <6>2. k + i - 1 = k + n
            BY <4>2, <4>5, <5>1
          <6> QED BY <6>1, <6>2
        <5>2. CASE i # n + 1
          <6>1. i \in 1..n
            BY <4>2, <5>2
          <6>2. crcOut'[i] = crcOut[i]
            <7>1. i \in 1..CrcMax
              BY <4>2, <4>3, <6>1, Sizes
            <7> QED BY <4>1, <4>4, <5>2, <7>1
          <6> QED BY <4>6, <6>1, <6>2
        <5> QED BY <5>1, <5>2
      <4>8. \A s : Sector(s)' = Sector(s)
        BY <1>1 DEF Sector, Content
      <4> HIDE DEF n, value
      <4>9. \A i \in 1..stub'.s : crcOut'[i] = <<CRC_INIT, Sector(k' + i - 1)>>
        BY <1>1, <4>2, <4>7
      <4>10. Digested(stub.s)'
        <5>1. ASSUME NEW i \in 1..stub'.s, NEW s, s = k' + i - 1 PROVE crcOut'[i] = <<CRC_INIT, Sector(s)'>>
          BY <4>8, <4>9, <5>1
        <5> QED BY <5>1 DEF Digested, Sector, Content
      <4> QED BY <1>3, <1>4, <2>2, <4>2, <4>3, <4>10 DEF Awaited
    <3> QED BY <3>2, <3>3
  <2> QED BY <2>4, <2>5
<1>10. ~StubUnlock /\ ~StubErase /\ ~StubWrite
  BY <1>2 DEF StubUnlock, StubErase, StubWrite, Running, Awaited
<1> QED BY <1>7, <1>8, <1>9, <1>10 DEF StubNext

\* Every step keeps the digests gathered so far those of the sectors.
LEMMA DigestStep ==
  ASSUME ControlInv, DataInv, JobInv, ListInv, StepInv, MailInv, DigestInv, Next
  PROVE  DigestInv'
<1>1. RangeInv'
  BY RangeStep
<1>2. crcOut' \in [1..CrcMax -> Digest]
  <2>1. crcOut \in [1..CrcMax -> Digest]
    BY DEF DigestInv
  <2>2. CASE CrcSector
    <3>1. \/ crcOut' = crcOut
          \/ /\ stub.s # stub.args.count /\ stub.pc = "crc"
             /\ crcOut' = [crcOut EXCEPT ![stub.s + 1] = <<stub.args.m2, Sector(stub.args.at + stub.s)>>]
      BY <2>2 DEF CrcSector, Running
    <3>2. CASE stub.s # stub.args.count /\ stub.pc = "crc"
      <4> DEFINE n == stub.s
                 args == stub.args
      <4>1. args.m2 = CRC_INIT /\ args.at + args.count <= Sectors /\ n <= args.count
        BY <3>2 DEF DigestInv, RangeInv, CrcRange
      <4>2. args.at \in Nat /\ args.count \in Nat /\ n \in Nat
        BY DEF MailInv, MailTypes, Stubs, Args
      <4>3. n # args.count
        BY <3>2
      <4> HIDE DEF n, args
      <4>4. args.at + n \in FlashSectors
        BY <4>1, <4>2, <4>3, Sizes DEF FlashSectors
      <4>5. Sector(args.at + n) \in Contents
        BY <4>4, SectorContents DEF DataInv
      <4>6. <<args.m2, Sector(args.at + n)>> \in Digest
        BY <4>1, <4>5 DEF Digest
      <4>7. <<stub.args.m2, Sector(stub.args.at + stub.s)>> \in Digest
        BY <4>6 DEF n, args
      <4> QED BY <2>1, <3>1, <4>7
    <3> QED BY <2>1, <3>1, <3>2
  <2> QED BY <2>1, <2>2 DEF Next, ByRom, stubVars, HostNext, StubNext, StubBegin, StubBeginRaises, PostArgs, PostCmd,
        Wait, WaitExpires, TryRaises, EndRaises, DiffRange, Digests, StageNext, PostSector, AllPosted,
        Trapped, TrapExpires, Fetch, StubUnlock, StubErase, StubWrite, ReportErr, ReportStatus
<1>3. CASE ByRom
  <2>1. pc' \notin StubPcs
    BY <1>3, StubOff
  <2> QED BY <1>1, <1>2, <2>1 DEF DigestInv, Diffing, Sending, CrcPost, CrcWait, Posting, StubPcs
<1>4. ASSUME HostNext \/ StubNext, Diffing' PROVE SoFar'
  <2>1. \/ StubBegin \/ (Digests /\ pc' = "diff") \/ (AllPosted /\ pc' = "diff")
        \/ Diffing /\ UNCHANGED <<k, crcs, op>>
    BY <1>4, DiffingStep
  <2>2. ASSUME op \in Ops, op' = op, k' = FirstSector(op), crcs' = <<>> PROVE SoFar'
    <3>1. FirstSector(op)' = FirstSector(op) /\ Covered(op)' = Covered(op)
      BY <2>2, Zenon
    <3>2. FirstSector(op) \in Covered(op) /\ FirstSector(op) \in Nat
      BY <2>2, ImageIs DEF Covered
    <3>3. k' \in Covered(op)' /\ k' - FirstSector(op)' = 0
      BY <2>2, <3>1, <3>2
    <3>4. crcs' \in Seq({CRC_INIT} \X Contents) /\ Len(crcs') = 0 /\ DOMAIN crcs' = {}
      BY <2>2
    <3>5. \A i \in DOMAIN crcs' : crcs'[i] = <<CRC_INIT, Sector(FirstSector(op) + i - 1)>>'
      BY <3>4, Zenon
    <3> QED BY <3>3, <3>4 DEF SoFar
  <2>3. CASE StubBegin
    <3>1. pc = "begin" /\ op # None /\ op' = op /\ UNCHANGED <<k, crcs>>
      BY <2>3 DEF StubBegin, At, Goto, locals
    <3>2. op \in Ops /\ k = FirstSector(op) /\ crcs = <<>>
      BY <3>1 DEF ControlInv, StepInv
    <3> QED BY <2>2, <3>1, <3>2
  <2>4. CASE AllPosted /\ pc' = "diff"
    <3>1. pc = "verified" /\ op # None
      BY <2>4 DEF AllPosted, At
    <3>2. crcs = <<>> /\ op \in Ops
      BY <3>1 DEF DigestInv, Sending, ControlInv
    <3>3. ASSUME NEW bad, Quit(bad) PROVE FALSE
      BY <2>4, <3>3, PostIs, Zenon DEF Quit
    <3>4. k' = FirstSector(op) /\ op' = op /\ crcs' = crcs
      BY <2>4, <3>3 DEF AllPosted, Goto
    <3> QED BY <2>2, <3>2, <3>4
  <2>5. CASE Digests /\ pc' = "diff"
    <3>1. pc = "digests" /\ flash' = flash
      BY <2>5 DEF Digests, At, target
    <3>2. /\ op \in Ops /\ op # None /\ op.kind = "incremental" /\ k \in Covered(op)
          /\ AllDigests \in Seq({CRC_INIT} \X Contents) /\ Len(AllDigests) = k + Range1 - FirstSector(op)
          /\ \A i \in DOMAIN AllDigests : AllDigests[i] = <<CRC_INIT, Sector(FirstSector(op) + i - 1)>>
      BY <3>1, DigestsAre
    <3>3. ASSUME NEW bad, Quit(bad) PROVE FALSE
      BY <2>5, <3>3, PostIs, Zenon DEF Quit
    <3>4. k + Range1 <= LastSector(op) /\ crcs' = AllDigests /\ k' = k + Range1 /\ op' = op
      BY <2>5, <3>3 DEF Digests, Goto, AllDigests
    <3>5. k' \in Covered(op)
      <4>1. Range1 \in 1..CrcMax /\ k \in Nat /\ FirstSector(op) \in Nat /\ LastSector(op) \in Nat
        BY <3>2, RangeIs, ImageIs
      <4>2. Range1 \in Nat
        BY <4>1, Sizes
      <4> QED BY <3>2, <3>4, <4>1, <4>2 DEF Covered
    <3>6. Covered(op)' = Covered(op) /\ FirstSector(op)' = FirstSector(op)
      BY <3>4, Zenon
    <3>7. Len(crcs') = k' - FirstSector(op)'
      <4>1. Len(crcs') = Len(AllDigests)
        BY <3>4, Zenon
      <4>2. Len(AllDigests) = k + Range1 - FirstSector(op) /\ k' = k + Range1
        BY <3>2, <3>4
      <4>3. FirstSector(op)' = FirstSector(op)
        BY <3>6
      <4>4. Range1 \in Nat /\ k \in Nat /\ FirstSector(op) \in Nat
        BY <3>2, RangeIs, ImageIs, Sizes
      <4> QED BY <4>1, <4>2, <4>3, <4>4
    <3>8. ASSUME NEW i \in DOMAIN crcs', NEW s, s = FirstSector(op)' + i - 1
          PROVE  crcs'[i] = <<CRC_INIT, Sector(s)'>>
      <4>1. crcs'[i] = <<CRC_INIT, Sector(s)>>
        BY <3>2, <3>4, <3>6, <3>8
      <4>2. Sector(s)' = Sector(s)
        BY <3>1 DEF Sector, Content
      <4> QED BY <4>1, <4>2
    <3>9. k' \in Covered(op)' /\ crcs' \in Seq({CRC_INIT} \X Contents)
      BY <3>2, <3>4, <3>5, <3>6, Zenon
    <3> QED BY <3>7, <3>8, <3>9 DEF SoFar, Sector, Content
  <2>6. CASE Diffing /\ UNCHANGED <<k, crcs, op>>
    <3>1. SoFar /\ flash' = flash
      BY <1>4, <2>6, Resting DEF DigestInv
    <3> QED BY <2>6, <3>1, SoFarKept
  <2> QED BY <2>1, <2>3, <2>4, <2>5, <2>6
<1>5. ASSUME HostNext \/ StubNext, CrcPost' PROVE pend'.args = CrcArgs'
  <2>1. CASE DiffRange
    <3>1. pend'.args = CrcArgs /\ UNCHANGED <<k, op>>
      BY <2>1 DEF DiffRange, Post, Goto, CrcArgs, locals
    <3> QED BY <3>1 DEF CrcArgs, Range1, LastSector
  <2>2. CASE CrcPost /\ UNCHANGED <<pend, k, op>>
    <3>1. pend.args = CrcArgs
      BY <2>2 DEF DigestInv
    <3> QED BY <2>2, <3>1 DEF CrcArgs, Range1, LastSector
  <2>3. CASE StubNext
    <3>1. CrcPost /\ UNCHANGED <<pend, k, op>>
      BY <1>5, <2>3, StubRests DEF CrcPost, Posting
    <3> QED BY <2>2, <3>1
  <2>4. CASE HostNext /\ ~DiffRange
    <3>1. \/ StubBegin \/ DiffRange \/ StageNext \/ PostSector
          \/ (PostArgs \/ PostCmd) /\ pend.cmd # "quit"
          \/ Wait /\ mail.status = 1 /\ pc' = after /\ pend' = pend
          \/ Digests /\ pc' \in {"diff", "stage next"} /\ pend' = pend
          \/ AllPosted /\ pc' = "diff" /\ pend' = pend
      BY <1>5, <2>4, HostSteps DEF CrcPost, Posting
    <3>2. ~PostSector
      <4>1. PostSector => pend'.cmd = "program"
        BY PostIs, Zenon DEF PostSector
      <4> QED BY <1>5, <4>1 DEF CrcPost
    <3>3. PostArgs
      BY <1>5, <2>4, <3>1, <3>2 DEF StubBegin, StageNext, PostCmd, Goto, CrcPost, Posting, MailInv, MailTypes, Pends
    <3>4. CrcPost /\ UNCHANGED <<pend, k, op>>
      BY <1>5, <3>3 DEF PostArgs, At, Goto, CrcPost, Posting, locals
    <3> QED BY <2>2, <3>4
  <2> QED BY <1>5, <2>1, <2>3, <2>4
<1>6. ASSUME HostNext \/ StubNext, CrcWait' PROVE Awaited'
  <2>1. CASE StubNext
    <3>1. CrcWait
      BY <1>6, <2>1, StubRests DEF CrcWait
    <3> QED BY <2>1, <3>1, AwaitedStep
  <2>2. CASE HostNext
    <3>1. \/ StubBegin \/ DiffRange \/ StageNext \/ PostSector
          \/ (PostArgs \/ PostCmd) /\ pend.cmd # "quit"
          \/ Wait /\ mail.status = 1 /\ pc' = after /\ pend' = pend
          \/ Digests /\ pc' \in {"diff", "stage next"} /\ pend' = pend
          \/ AllPosted /\ pc' = "diff" /\ pend' = pend
      BY <1>6, <2>2, HostSteps DEF CrcWait
    <3>2. ~PostSector /\ ~DiffRange
      <4>1. PostSector \/ DiffRange => pc' = "args"
        BY PostIs, Zenon DEF PostSector, DiffRange
      <4> QED BY <1>6, <4>1 DEF CrcWait
    <3>3. ~Wait
      BY <1>6, <3>1, <3>2 DEF CrcWait, Wait, MailInv, MailTypes, Goto, Quit, Post
    <3>4. PostCmd /\ pend.cmd # "quit"
      BY <1>6, <3>1, <3>2, <3>3 DEF StubBegin, StageNext, PostArgs, Goto, CrcWait
    <3>5. pc = "cmd" /\ pc' = pend.then /\ UNCHANGED <<k, crcs, op, after, pend, stub>>
      BY <3>4 DEF PostCmd, At, Goto, locals
    <3>6. pend.cmd = "crc"
      BY <1>6, <3>4, <3>5 DEF CrcWait, Posting, MailInv, MailTypes, Pends, Commands
    <3>7. pend.args = CrcArgs /\ mail.args = pend.args /\ mail.status = 0 /\ stub.pc = "poll"
      BY <3>5, <3>6 DEF DigestInv, CrcPost, Posting, MailInv, Idle
    <3>8. mail'.cmd = "crc" /\ mail'.args = mail.args /\ mail'.status = 0
      BY <3>4, <3>6, <3>7 DEF PostCmd, MailInv, MailTypes, Mails
    <3>9. CrcArgs' = CrcArgs
      BY <3>5 DEF CrcArgs, Range1, LastSector
    <3>10. stub'.pc = "poll"
      BY <3>5, <3>7
    <3> QED BY <3>7, <3>8, <3>9, <3>10 DEF Awaited
  <2> QED BY <1>6, <2>1, <2>2
<1>7. ASSUME HostNext \/ StubNext, pc' = "digests" PROVE Digested(Range1)'
  <2>1. ~StubNext
    <3>1. StubNext => pc = "digests" /\ ~Idle
      BY <1>7, StubRests
    <3> QED BY <3>1 DEF MailInv
  <2>2. \/ StubBegin \/ DiffRange \/ StageNext \/ PostSector
        \/ (PostArgs \/ PostCmd) /\ pend.cmd # "quit"
        \/ Wait /\ mail.status = 1 /\ pc' = after /\ pend' = pend
        \/ Digests /\ pc' \in {"diff", "stage next"} /\ pend' = pend
        \/ AllPosted /\ pc' = "diff" /\ pend' = pend
    BY <1>7, <2>1, HostSteps
  <2>3. ~PostSector /\ ~DiffRange
    <3>1. PostSector \/ DiffRange => pc' = "args"
      BY PostIs, Zenon DEF PostSector, DiffRange
    <3> QED BY <1>7, <3>1
  <2>4. Wait /\ mail.status = 1 /\ pc' = after
    BY <1>7, <2>2, <2>3 DEF StubBegin, StageNext, PostArgs, PostCmd, Goto, MailInv, MailTypes, Pends
  <2>5. pc = "wait" /\ after = "digests" /\ UNCHANGED <<flash, k, crcs, op, crcOut>>
    BY <1>7, <2>4 DEF Wait, At, Goto, locals, target
  <2>6. Digested(Range1)
    BY <2>4, <2>5 DEF DigestInv, CrcWait, Awaited
  <2> QED BY <2>5, <2>6, DigestsKept DEF Digested
<1>8. CASE HostNext \/ StubNext
  <2>1. Sending' => crcs' = <<>> /\ ~verifying'
    BY <1>8, SendingStep
  <2>2. (Diffing => SoFar)' /\ (CrcPost => pend.args = CrcArgs)' /\ (CrcWait => Awaited)'
    BY <1>4, <1>5, <1>6, <1>8
  <2>3. (pc = "digests" => Digested(Range1))'
    BY <1>7, <1>8
  <2> QED BY <1>1, <1>2, <2>1, <2>2, <2>3 DEF DigestInv
<1> QED BY <1>3, <1>8 DEF Next

(***************************************************************************)
(* The invariant: the end of a try                                         *)
(***************************************************************************)
\* Looked at, or never different: the image is there.
LEMMA DigestsHold ==
  ASSUME ControlInv, DataInv, JobInv, ListInv, MailInv, DigestInv, Digests, job.verify,
         ~(k + Range1 <= LastSector(op)),
         \/ verifying /\ ~(\E i \in DOMAIN changed : changed[i] \in Bad(AllDigests))
         \/ ~verifying /\ Bad(AllDigests) = {}
  PROVE  Array!Holds(flash, job)
<1>1. pc = "digests"
  BY DEF Digests, At
<1>2. /\ op \in Ops /\ op # None /\ op.kind = "incremental"
      /\ \A s \in Covered(op) \ Bad(AllDigests) : Sector(s) = ImageSector(op, s)
  BY <1>1, DigestsAre
<1>3. job.image = Image(op)
  BY <1>2 DEF JobInv
<1>4. ASSUME NEW s \in Covered(op) PROVE Sector(s) = ImageSector(op, s)
  <2>1. CASE s \notin Bad(AllDigests)
    BY <1>2, <2>1
  <2>2. CASE s \in Bad(AllDigests)
    <3>1. verifying /\ \A i \in DOMAIN changed : changed[i] # s
      BY <2>2
    <3>2. Listed
      BY <1>1, <3>1 DEF Listed, StubPcs
    <3> QED BY <1>4, <3>1, <3>2 DEF ListInv
  <2> QED BY <2>1, <2>2
<1>5. \A a \in DOMAIN Image(op) : flash[a] = Image(op)[a]
  BY <1>2, <1>4, HoldsBySector
<1> QED BY <1>3, <1>5 DEF Array!Holds

\* Every step keeps a try that has not failed one that ends with the image in the flash.
LEMMA EndStep ==
  ASSUME ControlInv, DataInv, JobInv, ListInv, MailInv, DigestInv, EndInv, Next
  PROVE  EndInv'
<1>1. CASE ByRom
  BY <1>1, StubOff DEF EndInv, Quitting, Posting, StubPcs
<1>2. ASSUME Quitting', ~failed', job'.verify, HostNext \/ StubNext
      PROVE  /\ Array!Holds(flash', job')
             /\ stub'.pc \in {"poll", "off"} /\ mail'.cmd \in {"idle", "quit"}
  <2>1. CASE Quitting /\ ~failed /\ job' = job /\ flash' = flash
    <3>1. /\ Array!Holds(flash, job)
          /\ stub.pc \in {"poll", "off"} /\ mail.cmd \in {"idle", "quit"}
      BY <1>2, <2>1 DEF EndInv
    <3>2. Array!Holds(flash', job')
      BY <2>1, <3>1
    <3>3. CASE StubNext
      <4>1. Fetch
        BY <3>1, <3>3 DEF StubNext, CrcSector, StubUnlock, StubErase, StubWrite, ReportErr, ReportStatus, Running
      <4>2. mail'.cmd = "idle" /\ stub'.pc = "off"
        BY <3>1, <4>1, FetchIs DEF MailInv
      <4> QED BY <3>2, <4>2
    <3>4. CASE PostArgs
      <4>1. mail'.cmd = mail.cmd /\ stub' = stub
        BY <3>4 DEF PostArgs, MailInv, MailTypes, Mails
      <4> QED BY <3>1, <3>2, <4>1
    <3>5. CASE PostCmd
      <4>1. mail'.cmd = pend.cmd /\ stub' = stub
        BY <3>5 DEF PostCmd, MailInv, MailTypes, Mails
      <4>2. pend.cmd = "quit"
        BY <2>1 DEF Quitting
      <4> QED BY <3>1, <3>2, <4>1, <4>2
    <3>6. CASE HostNext /\ ~PostArgs /\ ~PostCmd
      <4>1. pc \in {"args", "cmd", "trap"} /\ pend.cmd = "quit"
        BY <2>1 DEF Quitting, Posting
      <4>2. EndRaises \/ Trapped \/ TrapExpires
        BY <3>6, <4>1 DEF HostNext, StubBegin, StubBeginRaises, Wait, WaitExpires, TryRaises, DiffRange, Digests,
          StageNext, PostSector, AllPosted, At
      <4>3. pc' = "idle"
        BY <4>2 DEF EndRaises, Trapped, TrapExpires, Return
      <4> QED BY <1>2, <4>3 DEF Quitting, Posting
    <3> QED BY <1>2, <3>3, <3>4, <3>5, <3>6
  <2>2. CASE Digests
    <3>1. pc = "digests" /\ op # None /\ Idle /\ UNCHANGED <<flash, job, mail, stub>>
      <4>1. pc = "digests" /\ op # None /\ UNCHANGED <<flash, mail, stub>>
        BY <2>2 DEF Digests, At, target
      <4>2. job' = job
        BY <4>1, SameJob
      <4> QED BY <4>1, <4>2 DEF MailInv
    <3>2. k + Range1 <= LastSector(op) => pc' = "diff"
      BY <2>2 DEF Digests, Goto
    <3>3. ~(k + Range1 <= LastSector(op))
      BY <1>2, <3>2 DEF Quitting, Posting
    <3>4. verifying => Quit(\E i \in DOMAIN changed : changed[i] \in Bad(AllDigests))
      BY <2>2, <3>3, Zenon DEF Digests, Bad, AllDigests
    <3>5. ~verifying /\ Bad(AllDigests) # {} => pc' = "stage next"
      BY <2>2, <3>3, Zenon DEF Digests, Bad, AllDigests, Goto
    <3>6. ~verifying => Bad(AllDigests) = {}
      BY <1>2, <3>5 DEF Quitting, Posting
    <3>7. verifying => ~(\E i \in DOMAIN changed : changed[i] \in Bad(AllDigests))
      BY <1>2, <3>4, Zenon DEF Quit
    <3>8. job.verify
      BY <1>2, <3>1
    <3>9. Array!Holds(flash, job)
      BY <2>2, <3>3, <3>6, <3>7, <3>8, DigestsHold
    <3>10. Array!Holds(flash', job')
      BY <3>1, <3>9
    <3> QED BY <3>1, <3>10 DEF Idle
  <2>3. CASE AllPosted
    <3>1. pc = "verified" /\ op # None /\ job' = job
      BY <2>3, SameJob DEF AllPosted, At
    <3>2. op.verify
      BY <1>2, <3>1 DEF JobInv
    <3>3. pc' = "diff"
      BY <2>3, <3>2 DEF AllPosted, Goto
    <3> QED BY <1>2, <3>3 DEF Quitting, Posting
  <2>4. CASE StubNext
    <3>1. Quitting /\ ~failed /\ job' = job
      <4>1. UNCHANGED <<pc, pend, failed, job>>
        BY <2>4, StubRests
      <4>2. Quitting
        BY <1>2, <4>1 DEF Quitting, Posting
      <4>3. failed' = failed
        BY <4>1
      <4>4. ~failed
        BY <1>2, <4>3, Zenon
      <4> QED BY <4>1, <4>2, <4>4
    <3>2. stub.pc \in {"poll", "off"}
      BY <1>2, <3>1 DEF EndInv
    <3>3. flash' = flash
      BY <2>4, <3>2 DEF StubNext, Fetch, CrcSector, StubUnlock, StubErase, StubWrite, ReportErr, ReportStatus, Running
    <3> QED BY <2>1, <3>1, <3>3
  <2>5. CASE HostNext /\ ~Digests /\ ~AllPosted
    <3>1. pc' # "idle"
      BY <1>2 DEF Quitting, Posting
    <3>2. ~Quit(TRUE)
      BY <1>2, Zenon DEF Quit
    <3>3. ~PostSector /\ ~DiffRange
      <4>1. PostSector \/ DiffRange => pend'.cmd # "quit"
        <5>1. PostSector => pend'.cmd = "program"
          BY PostIs, Zenon DEF PostSector
        <5>2. DiffRange => pend'.cmd = "crc"
          BY PostIs, Zenon DEF DiffRange
        <5> QED BY <5>1, <5>2
      <4> QED BY <1>2, <4>1 DEF Quitting
    <3>4. ~WaitExpires /\ ~TryRaises /\ ~StubBeginRaises /\ ~EndRaises /\ ~Trapped /\ ~TrapExpires
      BY <3>1, <3>2 DEF WaitExpires, TryRaises, StubBeginRaises, EndRaises, Trapped, TrapExpires, Return
    <3>5. ~StubBegin /\ ~StageNext /\ ~Wait
      BY <1>2, <3>2 DEF StubBegin, StageNext, Wait, Goto, Quitting, Posting, MailInv, MailTypes
    <3>6. CASE PostArgs
      <4>1. Quitting
        BY <1>2, <3>6 DEF PostArgs, At, Goto, Quitting, Posting
      <4>2. job' = job /\ flash' = flash /\ failed' = failed
        BY <3>6 DEF PostArgs, Goto, target
      <4>3. ~failed
        BY <1>2, <4>2, Zenon
      <4> QED BY <2>1, <4>1, <4>2, <4>3
    <3>7. CASE PostCmd
      <4>1. Quitting
        BY <1>2, <3>7 DEF PostCmd, At, Goto, Quitting, Posting
      <4>2. job' = job /\ flash' = flash /\ failed' = failed
        BY <3>7 DEF PostCmd, Goto, target
      <4>3. ~failed
        BY <1>2, <4>2, Zenon
      <4> QED BY <2>1, <4>1, <4>2, <4>3
    <3> QED BY <2>5, <3>3, <3>4, <3>5, <3>6, <3>7 DEF HostNext
  <2> QED BY <1>2, <2>2, <2>3, <2>4, <2>5
<1>3. HostNext \/ StubNext =>
        (Quitting' /\ ~failed' /\ job'.verify =>
           /\ Array!Holds(flash', job')
           /\ stub'.pc \in {"poll", "off"} /\ mail'.cmd \in {"idle", "quit"})
  BY <1>2
<1> QED BY <1>1, <1>3 DEF Next, EndInv

(***************************************************************************)
(* The invariant holds                                                     *)
(***************************************************************************)
LEMMA Initial ==
  ASSUME Init
  PROVE  FlashInv
<1> USE SpiflashAssumption DEF Init, BaseInit, StubInit
<1>1. ControlInv
  BY DEF ControlInv, Pcs, WritePcs, RomPcs, StubPcs, Off
<1>2. DataInv
  BY Sizes DEF DataInv, Contents, Word
<1>3. JobInv
  BY DEF JobInv
<1>4. ListInv
  BY DEF ListInv, ChangedPcs, Listed, StubPcs
<1>5. StepInv
  BY DEF StepInv
<1>6. MailInv
  <2>1. NoArgs \in Args
    BY DEF NoArgs, Args, Nothing
  <2>2. mail \in Mails /\ stub \in Stubs /\ pend \in Pends
    BY <2>1 DEF NoMail, Off, Mails, Stubs, Pends, StubStates, Commands
  <2>3. MailTypes
    BY <2>2 DEF MailTypes
  <2> QED BY <2>3 DEF MailInv, Posting, NoMail, StubPcs
<1>7. FlightInv
  BY DEF FlightInv, Staging, Posted, Programming, Posting, Digesting, NoMail, Off
<1>8. DigestInv
  BY DEF DigestInv, RangeInv, Digest, Diffing, Sending, CrcPost, CrcWait, Posting, NoMail, Off
<1>9. EndInv
  BY DEF EndInv, Quitting, Posting
<1> QED BY <1>1, <1>2, <1>3, <1>4, <1>5, <1>6, <1>7, <1>8, <1>9 DEF FlashInv

\* A stuttering step keeps the invariant.
LEMMA Stutter ==
  ASSUME FlashInv, UNCHANGED vars
  PROVE  FlashInv'
<1> USE DEF vars, base, target, locals, stubVars, FlashInv
<1>1. ControlInv'
  BY DEF ControlInv
<1>2. DataInv'
  BY DEF DataInv
<1>3. JobInv'
  BY DEF JobInv, Sector, Content
<1>4. ListInv'
  BY DEF ListInv, Listed, Sector, Content
<1>5. StepInv'
  BY DEF StepInv, Sector, Content
<1>6. MailInv'
  BY DEF MailInv, MailTypes, Posting, Idle
<1>7. FlightInv'
  <2>1. Carried(mail.args) => Carried(mail.args)'
    BY DEF Carried, Carries
  <2>2. Carried(stub.args) => Carried(stub.args)'
    BY DEF Carried, Carries
  <2>3. Carried(pend.args) => Carried(pend.args)'
    BY DEF Carried, Carries
  <2>4. Carries(buf[Buffer(k)], changed[k]) => Carries(buf[Buffer(k)], changed[k])'
    BY DEF Carries, Buffer
  <2>5. (Staging => Staging') /\ (Posted => Posted')
    BY DEF Staging, Posted, Programming, Posting, Buffer
  <2> QED BY <2>1, <2>2, <2>3, <2>4, <2>5 DEF FlightInv, Programming, Posting, Digesting, Quitting
<1>8. DigestInv'
  <2>1. (SoFar => SoFar') /\ (Awaited => Awaited') /\ Range1' = Range1 /\ CrcArgs' = CrcArgs
    BY SoFarKept, AwaitedKept
  <2>2. Digested(Range1) => Digested(Range1)'
    BY DigestsKept DEF Digested
  <2> QED BY <2>1, <2>2 DEF DigestInv, RangeInv, Diffing, Sending, CrcPost, CrcWait, Posting
<1>9. EndInv'
  BY DEF EndInv, Quitting, Posting
<1> QED BY <1>1, <1>2, <1>3, <1>4, <1>5, <1>6, <1>7, <1>8, <1>9

\* Every step keeps the invariant: one lemma per part of it.
LEMMA Inductive ==
  ASSUME FlashInv, [Next]_vars
  PROVE  FlashInv'
<1>1. CASE Next
  <2> USE <1>1 DEF FlashInv
  <2>1. ControlInv'
    BY ControlStep
  <2>2. MailInv'
    BY MailStep
  <2>3. DataInv' /\ DigestInv' /\ EndInv'
    BY DataStep, DigestStep, EndStep
  <2>4. JobInv' /\ ListInv' /\ StepInv'
    BY <2>1, JobStep, ListStep, StepStep
  <2>5. FlightInv'
    BY <2>1, <2>2, FlightStep
  <2> QED BY <2>1, <2>2, <2>3, <2>4, <2>5
<1> QED BY <1>1, Stutter

\* It holds in every reachable state.
LEMMA FlashInvariant == Spec => []FlashInv
BY Initial, Inductive, PTL DEF Spec

(***************************************************************************)
(* How an operation ends                                                   *)
(***************************************************************************)
LEMMA Returns ==
  ASSUME Next, op # None, op' = None
  PROVE  \E how \in {"ok", "raised", "abandoned"} : Return(how)
<1>1. CASE XtensaVerify \/ Trapped
  <2>1. Return("ok") \/ Return("raised")
    BY <1>1, Zenon DEF XtensaVerify, Trapped
  <2> QED BY <2>1
<1>2. CASE ByRom /\ ~XtensaVerify
  <2>1. Return("ok") \/ Return("raised")
    BY <1>2, Zenon DEF ByRom, RomNext, Start, GateRead, FlashInit, Raise, Unlock, EraseNext, ProgramNext,
      VerifyNext, XtensaErase, Calibrate, CrcNext, SectorRead, UnlockRun, Overwrite,
      StageSector, EraseEnds, WriteSector, CrcVerify, NextChunk, NextSector, Goto
  <2> QED BY <2>1
<1>4. CASE HostNext /\ ~Trapped
  <2>1. Return("abandoned") \/ Return("raised")
    BY <1>4, Zenon DEF HostNext, StubBegin, StubBeginRaises, PostArgs, PostCmd, Wait, WaitExpires, Quit,
      Post, TryRaises, EndRaises, DiffRange, Digests, StageNext, PostSector, AllPosted, TrapExpires, Goto
  <2> QED BY <2>1
<1>3. CASE StubNext
  BY <1>3, StubRests
<1> QED BY <1>1, <1>2, <1>3, <1>4 DEF Next

\* An operation still running has no result.
LEMMA Ended ==
  ASSUME ControlInv, op # None
  PROVE  result = None /\ None \notin {"ok", "raised", "abandoned"} /\ op \in Ops
<1>1. result = None /\ op \in Ops
  BY DEF ControlInv
<1> QED BY <1>1, SpiflashAssumption

\* flash_write: the last chunk has been read back.
LEMMA ChunksHold ==
  ASSUME ControlInv, DataInv, JobInv, StepInv, VerifyNext, result' = "ok", ~silent, job.verify, op \in Ops
  PROVE  Array!Holds(flash, job)
<1>1. /\ pc = "verify" /\ op.kind = "write" /\ op # None /\ k \in Nat /\ k < Len(op.data)
      /\ \A i \in 1..k : flash[op.at + i - 1] = op.data[i]
  BY DEF VerifyNext, At, DataInv, StepInv
<1>2. /\ Chunk \in Seq(Word) /\ Len(Chunk) \in 1..W
      /\ \A i \in 1..Len(Chunk) : Chunk[i] = op.data[k + i]
  BY <1>1, ChunkIs
<1>3. /\ op.data \in Seq(Word) /\ Len(op.data) \in Nat /\ op.at \in Nat /\ Padded(op) = op.data
      /\ op.at + Len(op.data) <= Sectors * W
  BY <1>1, PaddedIs
<1>4. SubSeq(buf'["A"], 1, Len(Chunk)) = Chunk /\ ~(k + W < Len(op.data))
  <2>1. result' # "raised" /\ result' # result
    BY <1>1, Ended
  <2> QED BY <2>1, Zenon DEF VerifyNext, NextChunk, Return, Goto
<1>5. k + Len(Chunk) = Len(op.data) /\ RomRead(op.at + k, Len(Chunk))
  BY <1>1, <1>4, ChunkIs DEF VerifyNext
<1>6. op.at + k \in Nat /\ (op.at + k) + Len(Chunk) <= Sectors * W
  <2>1. ASSUME NEW at \in Nat, NEW n \in Nat, NEW m \in Nat, NEW l \in Nat, at + n <= m, k + l = n
        PROVE  at + k \in Nat /\ (at + k) + l <= m
    BY <1>1, <2>1
  <2> QED BY <1>2, <1>3, <1>5, <2>1, Sizes
<1>7. /\ buf' \in [{"A", "B"} -> Contents]
      /\ \A i \in 1..Len(Chunk) : buf'["A"][i] = flash[(op.at + k) + i - 1]
  BY <1>2, <1>5, <1>6, ReadIs, Sizes
<1>8. ASSUME NEW j \in 1..Len(Chunk) PROVE Chunk[j] = buf'["A"][j]
  <2>0. buf'["A"] \in Contents
    BY <1>7
  <2>1. buf'["A"] \in Seq(Word) /\ Len(buf'["A"]) = W
    BY <2>0, Sizes DEF Contents
  <2>2. SubSeq(buf'["A"], 1, Len(Chunk))[j] = buf'["A"][j]
    <3>1. ASSUME NEW n \in 1..W, j \in 1..n PROVE SubSeq(buf'["A"], 1, n)[j] = buf'["A"][j]
      BY <2>1, <3>1, Sizes, SubSeqProperties
    <3> QED BY <1>2, <3>1
  <2> QED BY <1>4, <2>2
<1>9. ASSUME NEW i \in 1..Len(op.data) PROVE flash[op.at + i - 1] = op.data[i]
  <2>1. CASE i <= k
    BY <1>1, <2>1
  <2>2. CASE ~(i <= k)
    <3> DEFINE j == i - k
    <3>1. j \in 1..Len(Chunk) /\ k + j = i /\ (op.at + k) + j - 1 = op.at + i - 1
      BY <1>1, <1>2, <1>3, <1>5, <2>2
    <3> HIDE DEF j
    <3> QED BY <1>2, <1>7, <1>8, <3>1
  <2> QED BY <2>1, <2>2
<1>11. ASSUME NEW at \in Nat, NEW n \in Nat, NEW a \in at..(at + n - 1)
      PROVE  a - at + 1 \in 1..n /\ at + (a - at + 1) - 1 = a
  BY <1>11
<1>10. ASSUME NEW a \in DOMAIN Image(op) PROVE flash[a] = Image(op)[a]
  <2>1. a \in op.at..(op.at + Len(op.data) - 1) /\ Image(op)[a] = op.data[a - op.at + 1]
    BY <1>3, ImageIs
  <2>2. a - op.at + 1 \in 1..Len(op.data) /\ op.at + (a - op.at + 1) - 1 = a
    BY <1>3, <1>11, <2>1
  <2> QED BY <1>9, <2>1, <2>2
<1> QED BY <1>1, <1>10 DEF Array!Holds, JobInv

\* flash_incremental with the ROM: the last of the changed sectors has been read back.
LEMMA SectorsHold ==
  ASSUME ControlInv, DataInv, JobInv, ListInv, StepInv, CrcVerify, result' = "ok", ~silent, job.verify, op \in Ops
  PROVE  Array!Holds(flash, job)
<1>1. pc = "crc verify" /\ op # None
  BY Zenon DEF CrcVerify, At
<1>10. op # None /\ pc \in ChangedPcs /\ Listed
  BY <1>1, Zenon DEF ChangedPcs, Listed
<1>2. result' # "raised" /\ result' # result
  BY <1>10, Ended
<1>3. buf'["A"] = Img /\ ~(k < Len(changed)) /\ RomRead(This * W, W)
  BY <1>2, Zenon DEF CrcVerify, Return, Goto
<1>4. /\ k \in 1..Len(changed) /\ This \in FlashSectors /\ op.kind = "incremental"
      /\ changed \in Seq(job.sectors)
  <2>1. changed \in Seq(job.sectors)
    BY <1>10, Zenon DEF ListInv
  <2> QED BY <1>10, <2>1, ImgIs
<1>5. Sector(This) = Img
  BY <1>3, <1>4, ReadSector
<1>6. ASSUME NEW i \in DOMAIN changed PROVE Sector(changed[i]) = ImageSector(op, changed[i])
  <2>1. i \in 1..Len(changed) /\ k = Len(changed) /\ Len(changed) \in Nat
    BY <1>3, <1>4
  <2>2. CASE i = k
    BY <1>5, <2>2 DEF This, Img
  <2>3. CASE i # k
    <3>1. i \in 1..(k - 1)
      BY <2>1, <2>3
    <3> QED BY <1>1, <3>1, Zenon DEF StepInv
  <2> QED BY <2>2, <2>3
<1>7. ASSUME NEW s \in Covered(op) PROVE Sector(s) = ImageSector(op, s)
  <2>1. CASE \E i \in DOMAIN changed : changed[i] = s
    BY <1>6, <2>1
  <2>2. CASE \A i \in DOMAIN changed : changed[i] # s
    BY <1>10, <2>2, Zenon DEF ListInv
  <2> QED BY <2>1, <2>2
<1>8. \A a \in DOMAIN Image(op) : flash[a] = Image(op)[a]
  BY <1>4, <1>7, HoldsBySector
<1>9. job.image = Image(op)
  BY <1>1, Zenon DEF JobInv
<1> QED BY <1>8, <1>9 DEF Array!Holds

\* flash_write of xtensa.py: one read of the whole.
LEMMA WholeHolds ==
  ASSUME JobInv, XtensaVerify, result' = "ok", ~silent, op \in Ops
  PROVE  Array!Holds(flash, job)
<1>1. op # None /\ op.kind = "xtensa" /\ job.image = Image(op)
  BY DEF XtensaVerify, At, JobInv
<1>2. Content(op.at, Len(op.data)) = op.data
  BY DEF XtensaVerify, Return
<1>3. Padded(op) = op.data /\ Len(op.data) \in Nat /\ op.at \in Nat
  BY <1>1, PaddedIs
<1>5. ASSUME NEW at \in Nat, NEW n \in Nat, NEW a \in at..(at + n - 1)
      PROVE  a - at + 1 \in 1..n /\ at + (a - at + 1) - 1 = a
  BY <1>5
<1>4. ASSUME NEW a \in DOMAIN Image(op) PROVE flash[a] = Image(op)[a]
  <2>1. a \in op.at..(op.at + Len(op.data) - 1) /\ Image(op)[a] = op.data[a - op.at + 1]
    BY <1>3, ImageIs
  <2> DEFINE i == a - op.at + 1
  <2>2. i \in 1..Len(op.data) /\ op.at + i - 1 = a
    BY <1>3, <1>5, <2>1
  <2>3. Content(op.at, Len(op.data))[i] = flash[op.at + i - 1]
    BY <2>2 DEF Content
  <2> QED BY <1>2, <2>1, <2>2, <2>3
<1> QED BY <1>1, <1>4 DEF Array!Holds

\* With the ROM: no sector differs.
LEMMA NoneDiffers ==
  ASSUME ControlInv, DataInv, JobInv, StepInv, CrcNext, result' = "ok", ~silent, op \in Ops, buf' \in [{"A", "B"} -> Contents]
  PROVE  Array!Holds(flash, job)
<1> DEFINE digests == Append(crcs, buf'["A"])
<1>1. result' # result /\ op # None
  BY Ended DEF CrcNext, At
<1>2. ~(k < LastSector(op)) /\ Differing(digests) = {}
  BY <1>1, Zenon DEF CrcNext, Goto
<1> HIDE DEF digests
<1>3. \A s \in Covered(op) \ Differing(digests) : Sector(s) = ImageSector(op, s)
  BY <1>2, CrcIs DEF digests
<1>4. op.kind = "incremental"
  BY DEF CrcNext, At, ControlInv, RomPcs
<1>5. \A a \in DOMAIN Image(op) : flash[a] = Image(op)[a]
  BY <1>2, <1>3, <1>4, HoldsBySector
<1> QED BY <1>1, <1>5 DEF Array!Holds, JobInv

\* An operation that has looked at what it wrote, and returns, leaves the image there.
LEMMA OkHolds ==
  ASSUME ControlInv, DataInv, JobInv, ListInv, StepInv, MailInv, DigestInv, EndInv, Next, op # None, op' = None, result' = "ok", job.verify
  PROVE  Array!Holds(flash', job)
<1>1. op \in Ops /\ op.verify /\ ~silent
  BY DEF ControlInv, JobInv
<1>5. result' # "raised" /\ result' # "abandoned" /\ result' # result
  BY Ended
<1>2. CASE ByRom
  <2>1. ProgramNext \/ VerifyNext \/ XtensaVerify \/ CrcNext \/ Overwrite \/ WriteSector \/ CrcVerify
    BY <1>2, <1>5, Zenon DEF ByRom, RomNext, Start, GateRead, FlashInit, Raise, Unlock, EraseNext, XtensaErase,
      Calibrate, SectorRead, UnlockRun, StageSector, EraseEnds, Goto, Return
  <2>2. ~ProgramNext
    BY <1>1, <1>5, Zenon DEF ProgramNext, NextChunk, Goto, Return
  <2>7. ~Overwrite /\ ~WriteSector
    BY <1>1, <1>5, Zenon DEF Overwrite, WriteSector, NextSector, Goto, Return
  <2>3. VerifyNext \/ XtensaVerify \/ CrcNext \/ CrcVerify => flash' = flash
    BY Zenon DEF VerifyNext, XtensaVerify, CrcNext, CrcVerify, target
  <2>4. buf' \in [{"A", "B"} -> Contents]
    BY BufStep
  <2>5. Array!Holds(flash, job)
    BY <1>1, <2>1, <2>2, <2>4, <2>7, ChunksHold, WholeHolds, NoneDiffers, SectorsHold
  <2>6. flash' = flash
    BY <2>1, <2>2, <2>3, <2>7
  <2> QED BY <2>5, <2>6
<1>3. CASE HostNext
  <2>1. Trapped
    BY <1>3, <1>5, Zenon DEF HostNext, StubBegin, StubBeginRaises, PostArgs, PostCmd, Wait, WaitExpires, Quit, Post,
      TryRaises, EndRaises, DiffRange, Digests, StageNext, PostSector, AllPosted, TrapExpires,
      Goto, Return
  <2>2. pc = "trap" /\ ~failed /\ flash' = flash
    BY <2>1, Zenon DEF Trapped, At, Return, target
  <2>3. Quitting
    BY <2>2, Zenon DEF Quitting, MailInv
  <2>4. Array!Holds(flash, job)
    BY <2>2, <2>3 DEF EndInv
  <2> QED BY <2>2, <2>4
<1>4. CASE StubNext
  BY <1>4, StubRests
<1> QED BY <1>2, <1>3, <1>4 DEF Next

(***************************************************************************)
(* What it promises                                                        *)
(***************************************************************************)
\* For every flash, operation and fault: when an operation has ended, well or with an
\* exception, the hart is not left in the stub, unless it was stub_begin or stub_end that
\* raised.  _flash_incremental_stub's finally, and _call_finish, which halts a hart that
\* has not come back.
THEOREM NothingLeft == Spec => []NothingLeftRunning
<1>1. FlashInv => NothingLeftRunning
  <2> SUFFICES ASSUME ControlInv, result \in {"ok", "raised"} PROVE stub.pc = "off"
    BY Zenon DEF FlashInv, NothingLeftRunning
  <2>1. result # None /\ result # "abandoned"
    BY SpiflashAssumption
  <2>2. pc = "idle"
    BY <2>1, Zenon DEF ControlInv
  <2>3. pc \notin StubPcs
    BY <2>2 DEF StubPcs
  <2> QED BY <2>1, <2>3, Zenon DEF ControlInv
<1> QED BY <1>1, FlashInvariant, PTL

\* For every flash, operation and fault: whoever changes the array, the ROM or a stub
\* that was left behind, had the ROM's view of the chip set up by _rom_flash_ready.
THEOREM GateIsFirst == Spec => GateFirst
<1>1. FlashInv /\ [Next]_vars => [flash' # flash => configured]_vars
  BY FlashStep, Zenon DEF FlashInv
<1> QED BY <1>1, FlashInvariant, PTL DEF Spec, GateFirst

\* There is no job before the first operation.
Fresh == op = None /\ result = None => job = None

\* Every step keeps that there is no job before the first operation.
LEMMA FreshStep ==
  ASSUME FlashInv, Fresh, [Next]_vars
  PROVE  Fresh'
<1>1. CASE UNCHANGED vars
  BY <1>1 DEF vars, base, Fresh
<1>2. CASE Next /\ op # None
  <2>1. op' = None => result' # None
    <3> SUFFICES ASSUME op' = None PROVE result' # None
      OBVIOUS
    <3>1. PICK how \in {"ok", "raised", "abandoned"} : Return(how)
      BY <1>2, Returns
    <3> QED BY <3>1, SpiflashAssumption DEF Return
  <2> QED BY <2>1 DEF Fresh
<1>3. CASE Next /\ op = None
  <2>1. CASE \E o \in Ops : Start(o) /\ UNCHANGED stubVars
    <3>1. op' # None
      BY <2>1, SpiflashAssumption DEF Start
    <3> QED BY <3>1 DEF Fresh
  <2>2. CASE StubNext /\ UNCHANGED <<Host, silent>> /\ result = "abandoned"
    BY <2>2, SpiflashAssumption DEF Host, Fresh
  <2> QED BY <1>3, <2>1, <2>2, NoOperation DEF FlashInv
<1> QED BY <1>1, <1>2, <1>3

TheJob == IF JobOver THEN None ELSE job
Outcome == IF JobOver THEN result ELSE None

\* A step of a job is an erase, a program or no change of the array.
LEMMA Works ==
  ASSUME FlashInv, Next, op # None \/ stub.pc # "off"
  PROVE  /\ TheJob = job /\ job # None /\ Outcome = None
         /\ flash' \in [Addr -> Word] /\ (UNCHANGED flash \/ Array!Erase \/ Array!Program)
<1>1. ~JobOver /\ job \in JobsOf(Ops)
  BY Working DEF FlashInv
<1>2. TheJob = job /\ job # None /\ Outcome = None
  BY <1>1, FlashAssumption DEF TheJob, Outcome
<1>3. flash' \in [Addr -> Word] /\ (UNCHANGED flash \/ Array!Erase \/ Array!Program)
  <2>1. CASE UNCHANGED flash
    BY <2>1 DEF FlashInv, DataInv
  <2>2. CASE Changes(job.sectors)
    BY <2>2 DEF Changes
  <2> QED BY <2>1, <2>2, FlashStep DEF FlashInv
<1> QED BY <1>2, <1>3

\* Every step is a step of the array.
LEMMA ArrayStep ==
  ASSUME FlashInv, FlashInv', Fresh, Next
  PROVE  Array!Next \/ UNCHANGED <<flash, TheJob, Outcome>>
<1>1. CASE op # None /\ op' = op
  <2>1. job' = job /\ result' = result
    BY <1>1, SameJob DEF FlashInv
  <2>2. TheJob' = TheJob /\ Outcome' = Outcome
    BY <2>1 DEF TheJob, Outcome, JobOver
  <2>3. Array!Work
    BY <1>1, <2>2, Works DEF Array!Work, Array!Addr, Array!Word, Addr, Word, TheJob, Outcome
  <2> QED BY <2>3 DEF Array!Next
<1>2. CASE op # None /\ op' = None
  <2>1. PICK how \in {"ok", "raised", "abandoned"} : Return(how)
    BY <1>2, Returns
  <2>2. job' = job /\ result' = how
    BY <2>1 DEF Return
  <2>3. CASE how = "abandoned"
    <3>1. TheJob = job /\ Outcome = None
      BY <1>2, Works
    <3>2. ~JobOver'
      BY <2>2, <2>3 DEF JobOver
    <3>3. TheJob' = TheJob /\ Outcome' = Outcome
      BY <2>2, <3>1, <3>2 DEF TheJob, Outcome
    <3>4. Array!Work
      BY <1>2, <3>3, Works DEF Array!Work, Array!Addr, Array!Word, Addr, Word, TheJob, Outcome
    <3> QED BY <3>4 DEF Array!Next
  <2>4. CASE how \in {"ok", "raised"}
    <3>1. TheJob' = None /\ Outcome' = how
      BY <2>2, <2>4 DEF TheJob, Outcome, JobOver
    <3>2. how = "ok" /\ TheJob.verify => Array!Holds(flash', TheJob)
      <4> SUFFICES ASSUME how = "ok", TheJob.verify PROVE Array!Holds(flash', TheJob)
        OBVIOUS
      <4>1. TheJob = job
        BY <1>2, Works
      <4>2. Array!Holds(flash', job)
        BY <1>2, <2>2, <4>1, OkHolds DEF FlashInv
      <4> QED BY <4>1, <4>2
    <3>3. Array!Finish(how)
      BY <3>1, <3>2 DEF Array!Finish, TheJob, Outcome
    <3>4. Array!Work
      BY <1>2, <2>4, <3>3, Works DEF Array!Work, Array!Addr, Array!Word, Addr, Word, TheJob, Outcome
    <3> QED BY <3>4 DEF Array!Next
  <2> QED BY <2>3, <2>4
<1>3. ASSUME op = None, NEW o \in Ops, Start(o)
      PROVE  Array!Next
  <2>1. result = None /\ result' = None /\ flash' = flash /\ op' # None
    BY <1>3, SpiflashAssumption DEF Start, target
  <2>2. job = None /\ ~JobOver /\ ~JobOver'
    BY <1>3, <2>1, SpiflashAssumption DEF Fresh, JobOver
  <2>3. job' \in JobsOf(Ops)
    BY <2>1 DEF FlashInv, JobInv
  <2>4. TheJob = None /\ TheJob' = job' /\ Outcome' = None
    BY <2>2 DEF TheJob, Outcome
  <2>5. Array!Start
    BY <2>1, <2>3, <2>4 DEF Array!Start, TheJob, Outcome
  <2> QED BY <2>5 DEF Array!Next
<1>4. CASE op = None /\ StubNext /\ UNCHANGED <<Host, silent>> /\ result = "abandoned"
  <2>1. job' = job /\ result' = result /\ stub.pc # "off"
    <3>1. stub.pc # "off"
      BY <1>4 DEF StubNext, Fetch, CrcSector, StubUnlock, StubErase, StubWrite, ReportErr, ReportStatus, Running
    <3> QED BY <1>4, <3>1 DEF Host
  <2>2. TheJob' = TheJob /\ Outcome' = Outcome
    BY <2>1 DEF TheJob, Outcome, JobOver
  <2>3. Array!Work
    BY <2>1, <2>2, Works DEF Array!Work, Array!Addr, Array!Word, Addr, Word, TheJob, Outcome
  <2> QED BY <2>3 DEF Array!Next
<1> QED BY <1>1, <1>2, <1>3, <1>4, SameJob, NoOperation DEF FlashInv

\* For every size of flash, sector, buffer and block, every operation and every fault:
\* flash_write and flash_incremental, with the ROM or with the stub and its pipeline,
\* implement FlashArray: only sectors of the job are erased, whole, only words of its
\* image are programmed, and a job that verifies and ends well leaves the image there.
THEOREM ArrayImplemented == Spec => ImplementsArray
<1>1. Init => Fresh /\ Array!Init
  <2> SUFFICES ASSUME Init PROVE Fresh /\ Array!Init
    OBVIOUS
  <2>1. flash \in [Addr -> Word] /\ job = None /\ result = None
    BY SpiflashAssumption DEF Init, BaseInit
  <2>2. ~JobOver
    BY <2>1, SpiflashAssumption DEF JobOver
  <2> QED BY <2>1, <2>2 DEF Fresh, Array!Init, Array!Addr, Array!Word, Addr, Word
<1>2. FlashInv /\ FlashInv' /\ Fresh /\ [Next]_vars => [Array!Next]_(Array!vars)
  <2>1. ASSUME FlashInv, FlashInv', Fresh, Next PROVE [Array!Next]_(Array!vars)
    BY <2>1, ArrayStep DEF Array!vars, TheJob, Outcome
  <2>2. ASSUME UNCHANGED vars PROVE [Array!Next]_(Array!vars)
    BY <2>2 DEF vars, base, target, Array!vars, JobOver
  <2> QED BY <2>1, <2>2
<1>3. FlashInv /\ Fresh /\ [Next]_vars => Fresh'
  BY FreshStep
<1> QED BY <1>1, <1>2, <1>3, FlashInvariant, PTL DEF Spec, ImplementsArray, Array!Spec

(***************************************************************************)
(* The types                                                               *)
(***************************************************************************)
\* Counters and the list of sectors keep their bounds.
Bounds ==
  /\ k \in 0..(Sectors * W)
  /\ attempt \in 0..Attempts /\ (pc = "init" => attempt < Readings)
  /\ faults \in 0..MaxFaults
  /\ changed \in Seq(FlashSectors) /\ Len(changed) <= Sectors

\* The faults change by a fault only.
LEMMA FaultsCounted ==
  ASSUME Next
  PROVE  UNCHANGED faults \/ Fault
<1>1. CASE ByRom
  BY <1>1, Zenon DEF ByRom, RomNext, Start, GateRead, FlashInit, Raise, Unlock, EraseNext, ProgramNext,
    VerifyNext, XtensaErase, XtensaVerify, Calibrate, CrcNext, SectorRead, UnlockRun, Overwrite,
    StageSector, EraseEnds, WriteSector, CrcVerify, Call, RomRead
<1>2. CASE HostNext
  BY <1>2, Zenon DEF HostNext, StubBegin, StubBeginRaises, PostArgs, PostCmd, Wait, WaitExpires,
    TryRaises, EndRaises, DiffRange, Digests, StageNext, PostSector, AllPosted, Trapped, TrapExpires
<1>3. CASE StubNext
  BY <1>3, Zenon DEF StubNext, Fetch, CrcSector, StubUnlock, StubErase, StubWrite, ReportErr,
    ReportStatus, RomCall
<1> QED BY <1>1, <1>2, <1>3 DEF Next

\* An attempt is counted, up to the last.
LEMMA AttemptsCounted ==
  ASSUME MailTypes, Attempts >= 2, Bounds, Next
  PROVE  attempt' \in 0..Attempts /\ (pc' = "init" => attempt' < Readings')
<1>1. Readings \in 1..Attempts /\ attempt \in 0..Attempts /\ Attempts \in Nat
  BY SpiflashAssumption DEF Readings, Bounds
<1>2. CASE FlashInit
  <2>1. attempt' = attempt + 1 /\ attempt < Readings /\ pc' = "gate"
    BY <1>2 DEF FlashInit, At, Goto, Bounds
  <2> QED BY <1>1, <2>1
<1>3. CASE GateRead
  <2>1. attempt' \in {attempt, 0}
    BY <1>3, Zenon DEF GateRead, Return, NoLocals, locals
  <2>2. pc' = "init" => attempt < Readings /\ op' = op /\ attempt' = attempt
    <3>1. pc' = "init" => pc' # "calibrate" /\ pc' # "unlock" /\ pc' # "idle"
      OBVIOUS
    <3> QED BY <1>3, <3>1, Zenon DEF GateRead, Return, Goto, locals
  <2> QED BY <1>1, <2>1, <2>2 DEF Readings
<1>4. CASE \E o \in Ops : Start(o)
  <2>1. attempt' = 1 /\ pc' = "gate"
    BY <1>4, Zenon DEF Start
  <2> QED BY <1>1, <2>1
<1> DEFINE Others == ByRom /\ ~FlashInit /\ ~GateRead /\ ~(\E o \in Ops : Start(o))
<1>5. CASE Others \/ HostNext \/ StubNext
  <2>1. attempt' = attempt \/ attempt' = 0
    <3>1. CASE Others
      <4>1. Raise \/ Unlock \/ EraseNext \/ ProgramNext \/ VerifyNext \/ XtensaErase \/ XtensaVerify
              \/ Calibrate => attempt' = attempt \/ attempt' = 0
        BY Zenon DEF Raise, Unlock, EraseNext, ProgramNext, VerifyNext, XtensaErase, XtensaVerify,
          Calibrate, NextChunk, Return, NoLocals, locals
      <4>2. CrcNext \/ SectorRead \/ UnlockRun \/ Overwrite \/ StageSector \/ EraseEnds \/ WriteSector
              \/ CrcVerify => attempt' = attempt \/ attempt' = 0
        BY Zenon DEF CrcNext, SectorRead, UnlockRun, Overwrite, StageSector, EraseEnds, WriteSector,
          CrcVerify, NextSector, Return, NoLocals, locals
      <4> QED BY <3>1, <4>1, <4>2 DEF ByRom, RomNext
    <3>2. CASE HostNext
      BY <3>2, Zenon DEF HostNext, StubBegin, StubBeginRaises, PostArgs, PostCmd, Wait, WaitExpires,
        TryRaises, EndRaises, DiffRange, Digests, StageNext, PostSector, AllPosted, Trapped,
        TrapExpires, Return, NoLocals, locals
    <3>3. CASE StubNext
      BY <3>3, Zenon DEF StubNext, Fetch, CrcSector, StubUnlock, StubErase, StubWrite, ReportErr,
        ReportStatus, StubRest, Host, locals
    <3> QED BY <1>5, <3>1, <3>2, <3>3
  <2>2. pc' = "init" => UNCHANGED <<pc, op, attempt>>
    <3>1. CASE Others
      <4>1. Raise \/ Unlock \/ EraseNext \/ ProgramNext \/ VerifyNext \/ XtensaErase \/ XtensaVerify
              \/ Calibrate => pc' # "init"
        BY DEF Raise, Unlock, EraseNext, ProgramNext, VerifyNext, XtensaErase, XtensaVerify,
          Calibrate, NextChunk, Return, Goto
      <4>2. CrcNext \/ SectorRead \/ UnlockRun \/ Overwrite \/ StageSector \/ EraseEnds \/ WriteSector
              \/ CrcVerify => pc' # "init"
        BY DEF CrcNext, SectorRead, UnlockRun, Overwrite, StageSector, EraseEnds, WriteSector,
          CrcVerify, NextSector, Return, Goto
      <4> QED BY <3>1, <4>1, <4>2 DEF ByRom, RomNext
    <3>2. CASE HostNext
      <4>1. pend.then # "init" /\ after # "init"
        <5>1. pend \in Pends /\ after \in {"idle", "digests", "post", "verified"}
          BY Zenon DEF MailTypes
        <5>2. pend.then \in {"wait", "stage next", "trap"}
          BY <5>1 DEF Pends
        <5> QED BY <5>1, <5>2, Zenon
      <4> QED BY <3>2, <4>1 DEF HostNext, StubBegin, StubBeginRaises, PostArgs, PostCmd, Wait, WaitExpires,
            TryRaises, EndRaises, DiffRange, Digests, StageNext, PostSector, AllPosted, Trapped,
            TrapExpires, Return, Goto, Quit, Post
    <3>3. CASE StubNext
      BY <3>3, Zenon DEF StubNext, Fetch, CrcSector, StubUnlock, StubErase, StubWrite, ReportErr,
        ReportStatus, StubRest, Host, locals
    <3> QED BY <1>5, <3>1, <3>2, <3>3
  <2>3. pc' = "init" => attempt' < Readings'
    BY <2>2 DEF Bounds, Readings
  <2> QED BY <1>1, <2>1, <2>3
<1> QED BY <1>2, <1>3, <1>4, <1>5 DEF Next, ByRom

\* The list holds no more sectors than there are.
LEMMA ListBounded ==
  ASSUME ControlInv, Bounds, Next
  PROVE  changed' \in Seq(FlashSectors) /\ Len(changed') <= Sectors
<1>1. ASSUME NEW S, S \subseteq Covered(op), op \in Ops, changed' \in Ascending(S)
      PROVE  changed' \in Seq(FlashSectors) /\ Len(changed') <= Sectors
  <2>1. S \subseteq FlashSectors
    BY <1>1, ImageIs DEF FlashSectors
  <2>2. IsFiniteSet(FlashSectors) /\ Cardinality(FlashSectors) = Sectors
    <3>1. 0 \in Int /\ Sectors - 1 \in Int /\ Sectors - 1 - 0 + 1 = Sectors /\ 0 <= Sectors - 1
      BY Sizes
    <3> QED BY <3>1, FS_Interval DEF FlashSectors
  <2>3. IsFiniteSet(S) /\ Cardinality(S) \in Nat /\ Cardinality(S) <= Sectors
    BY <2>1, <2>2, FS_Subset, FS_CardinalityType
  <2>4. changed' \in [1..Cardinality(S) -> S]
    BY <1>1 DEF Ascending
  <2> DEFINE n == Cardinality(S)
  <2> HIDE DEF n
  <2>5. changed' \in Seq(S) /\ Len(changed') = n
    BY <2>3, <2>4 DEF n
  <2>6. changed' \in Seq(FlashSectors)
    BY <2>1, <2>5
  <2> QED BY <2>3, <2>5, <2>6 DEF n
<1>2. CASE changed' \in {changed, <<>>}
  <2>1. CASE changed' = changed
    BY <2>1, Zenon DEF Bounds
  <2>2. CASE changed' = <<>>
    BY <2>2, Sizes
  <2> QED BY <1>2, <2>1, <2>2
<1>3. CASE CrcNext
  <2>1. op \in Ops
    BY <1>3 DEF CrcNext, At, ControlInv
  <2> DEFINE digests == Append(crcs, buf'["A"])
  <2>2. changed' = changed \/ changed' = <<>> \/ changed' \in Ascending(Differing(digests))
    BY <1>3, Zenon DEF CrcNext, Return, NoLocals
  <2>3. Differing(digests) \subseteq Covered(op)
    BY DEF Differing
  <2> QED BY <1>1, <1>2, <2>1, <2>2, <2>3
<1>4. CASE Digests
  <2>1. op \in Ops
    <3>1. op # None
      BY <1>4, Zenon DEF Digests, At
    <3> QED BY <3>1, Ended
  <2>2. changed' = changed \/ changed' \in Ascending(Bad(AllDigests))
    BY <1>4, Zenon DEF Digests, locals, Bad, AllDigests
  <2>3. Bad(AllDigests) \subseteq Covered(op)
    BY DEF Bad
  <2> QED BY <1>1, <1>2, <2>1, <2>2, <2>3
<1>5. CASE ByRom /\ ~CrcNext
  <2>1. changed' = changed \/ changed' = <<>>
    BY <1>5, Zenon DEF ByRom, RomNext, Start, GateRead, FlashInit, Raise, Unlock, EraseNext, ProgramNext,
      VerifyNext, XtensaErase, XtensaVerify, Calibrate, SectorRead, UnlockRun, Overwrite, StageSector,
      EraseEnds, WriteSector, CrcVerify, NextChunk, NextSector, Return, NoLocals, locals
  <2> QED BY <1>2, <2>1
<1>6. CASE HostNext /\ ~Digests
  <2>1. changed' = changed \/ changed' = <<>>
    BY <1>6, Zenon DEF HostNext, StubBegin, StubBeginRaises, PostArgs, PostCmd, Wait, WaitExpires,
      TryRaises, EndRaises, DiffRange, StageNext, PostSector, AllPosted, Trapped,
      TrapExpires, Return, NoLocals, locals
  <2> QED BY <1>2, <2>1
<1>7. CASE StubNext
  BY <1>2, <1>7, StubRests
<1> QED BY <1>3, <1>4, <1>5, <1>6, <1>7 DEF Next

\* The place in the list, or the sector, is within the flash.
LEMMA KBounded ==
  ASSUME ControlInv, DataInv, JobInv, ListInv, StepInv, MailInv, DigestInv, Bounds, Next
  PROVE  k' \in 0..(Sectors * W)
<1> DEFINE N == Sectors * W
<1>1. N \in Nat /\ Sectors <= N /\ Sectors \in Nat /\ Sectors > 0
  <2>1. ASSUME NEW s \in Nat, NEW w \in Nat, w > 0 PROVE s * w \in Nat /\ s <= s * w
    <3>1. PICK d \in Nat : w = d + 1
      <4>1. w - 1 \in Nat /\ w = (w - 1) + 1
        BY <2>1
      <4> QED BY <4>1
    <3>2. s * w = s * d + s /\ s * d \in Nat
      BY <3>1
    <3> QED BY <3>2
  <2> QED BY <2>1, Sizes
<1>2. ASSUME op \in Ops
      PROVE  FirstSector(op) \in Nat /\ LastSector(op) \in Nat /\ LastSector(op) < Sectors
             /\ FirstSector(op) <= LastSector(op)
             /\ Len(Padded(op)) \in Nat /\ Len(Padded(op)) <= N
  <2>1. LastSector(op) \in 0..(Sectors - 1)
    BY <1>2, ImageIs DEF Covered
  <2>2. Len(Padded(op)) <= N
    <3>1. ASSUME NEW a \in Nat, NEW b \in Nat, NEW c \in Nat, a + b <= c PROVE b <= c
      BY <3>1
    <3> QED BY <1>1, <1>2, <3>1, PaddedIs
  <2> QED BY <1>1, <1>2, <2>1, <2>2, ImageIs, PaddedIs
<1> HIDE DEF N
<1>3. k \in Nat /\ k <= N /\ Len(changed) \in Nat /\ Len(changed) <= Sectors
  BY DEF Bounds, N
<1>4. \A n \in Nat : n <= N => n \in 0..(Sectors * W)
  BY <1>1 DEF N
<1>5. ASSUME NEW n \in Nat, k' = n, n <= Sectors PROVE k' \in 0..(Sectors * W)
  BY <1>1, <1>4, <1>5
<1>6. CASE k' \in {k, 0, 1}
  BY <1>1, <1>3, <1>4, <1>6
<1>7. CASE op \in Ops /\ k' = FirstSector(op)
  <2>1. FirstSector(op) \in Nat /\ FirstSector(op) <= Sectors
    BY <1>1, <1>2, <1>7
  <2> QED BY <1>5, <1>7, <2>1
<1>8. CASE op \in Ops /\ k' \in Nat /\ k' <= LastSector(op)
  <2>1. k' <= Sectors
    BY <1>1, <1>2, <1>8
  <2> QED BY <1>5, <1>8, <2>1
<1>9. CASE k' = k + 1 /\ k < Len(changed)
  <2>1. k + 1 \in Nat /\ k + 1 <= Sectors
    BY <1>1, <1>3, <1>9
  <2> QED BY <1>5, <1>9, <2>1
<1>10. CASE op \in Ops /\ op.kind # "incremental" /\ k' = k + W /\ k + W < Len(op.data)
  <2>1. k + W \in Nat /\ Len(op.data) \in Nat /\ Len(op.data) <= N
    BY <1>2, <1>3, <1>10, Sizes, PaddedIs
  <2>2. k + W <= N
    BY <1>1, <1>10, <2>1
  <2> QED BY <1>4, <1>10, <2>1, <2>2
<1>11. op # None => op \in Ops
  BY DEF ControlInv
<1>12. CASE EraseNext
  <2>1. op \in Ops
    BY <1>11, <1>12 DEF EraseNext, At
  <2>2. \/ k' = 0
        \/ k' = k + BlockSectors /\ k + BlockSectors <= LastSector(op)
        \/ k' = k + 1 /\ k + 1 <= LastSector(op)
    BY <1>12, Zenon DEF EraseNext, Return, NoLocals
  <2>3. k + BlockSectors \in Nat /\ k + 1 \in Nat
    BY <1>3, Sizes
  <2> QED BY <1>6, <1>8, <2>1, <2>2, <2>3
<1>13. CASE XtensaErase \/ CrcNext
  <2>1. op \in Ops
    BY <1>11, <1>13 DEF XtensaErase, CrcNext, At
  <2>2. k' \in {k, 0, 1} \/ (k' = k + 1 /\ k < LastSector(op))
    BY <1>13, Zenon DEF XtensaErase, CrcNext, Return, NoLocals
  <2>3. k < LastSector(op) => k + 1 \in Nat /\ k + 1 <= LastSector(op)
    BY <1>2, <1>3, <2>1
  <2> QED BY <1>6, <1>8, <2>2, <2>1, <2>3
<1>14. CASE ProgramNext \/ VerifyNext
  <2>1. op \in Ops /\ op.kind # "incremental"
    <3>1. op # None
      BY <1>14 DEF ProgramNext, VerifyNext, At
    <3>2. pc = "program" \/ pc = "verify"
      BY <1>14, Zenon DEF ProgramNext, VerifyNext, At
    <3>3. pc \in WritePcs
      BY <3>2 DEF WritePcs
    <3> QED BY <1>11, <3>1, <3>3, Zenon DEF ControlInv
  <2>2. k' = 0 \/ (k' = k + W /\ k + W < Len(op.data))
    BY <1>14, Zenon DEF ProgramNext, VerifyNext, NextChunk, Return, NoLocals
  <2> QED BY <1>6, <1>10, <2>1, <2>2
<1>15. CASE Overwrite \/ WriteSector \/ CrcVerify \/ PostSector
  <2>1. k' \in {k, 0, 1} \/ (k' = k + 1 /\ k < Len(changed))
    BY <1>15, Zenon DEF Overwrite, WriteSector, CrcVerify, PostSector, NextSector, Return, NoLocals
  <2> QED BY <1>6, <1>9, <2>1
<1>16. CASE Digests
  <2>1. op \in Ops
    BY <1>11, <1>16, Zenon DEF Digests, At
  <2>2. k' \in {k, 1} \/ (k' = k + Range1 /\ k + Range1 <= LastSector(op))
    BY <1>16, Zenon DEF Digests, locals
  <2>3. Range1 \in Nat
    <3>1. pc = "digests"
      BY <1>16, Zenon DEF Digests, At
    <3>2. k \in Covered(op)
      BY <3>1 DEF DigestInv, Diffing, SoFar
    <3> QED BY <2>1, <3>2, RangeIs
  <2>4. k + Range1 \in Nat
    BY <1>3, <2>3
  <2> QED BY <1>6, <1>8, <2>1, <2>2, <2>4
<1>17. CASE Unlock \/ Calibrate \/ AllPosted
  <2>1. op \in Ops /\ k' \in {k, FirstSector(op)}
    <3>1. op # None
      BY <1>17 DEF Unlock, Calibrate, AllPosted, At
    <3>2. k' = k \/ k' = FirstSector(op)
      BY <1>17, Zenon DEF Unlock, Calibrate, AllPosted
    <3> QED BY <1>11, <3>1, <3>2
  <2> QED BY <1>6, <1>7, <2>1
<1>18. CASE ByRom /\ ~(EraseNext \/ XtensaErase \/ CrcNext \/ ProgramNext \/ VerifyNext \/ Overwrite
                       \/ WriteSector \/ CrcVerify \/ Unlock \/ Calibrate)
  <2>1. k' = k \/ k' = 0
    BY <1>18, Zenon DEF ByRom, RomNext, Start, GateRead, FlashInit, Raise, XtensaVerify, SectorRead,
      UnlockRun, StageSector, EraseEnds, Return, NoLocals, locals
  <2> QED BY <1>6, <2>1
<1>19. CASE HostNext /\ ~(Digests \/ AllPosted \/ PostSector)
  <2>1. k' = k \/ k' = 0
    BY <1>19, Zenon DEF HostNext, StubBegin, StubBeginRaises, PostArgs, PostCmd, Wait, WaitExpires,
      TryRaises, EndRaises, DiffRange, StageNext, Trapped, TrapExpires, Return, NoLocals, locals
  <2> QED BY <1>6, <2>1
<1>20. CASE StubNext
  BY <1>6, <1>20, StubRests
<1> QED BY <1>12, <1>13, <1>14, <1>15, <1>16, <1>17, <1>18, <1>19, <1>20 DEF Next

\* Every step keeps the counters within their bounds.
LEMMA BoundsStep ==
  ASSUME FlashInv, Attempts >= 2, Bounds, [Next]_vars
  PROVE  Bounds'
<1>1. CASE UNCHANGED vars
  BY <1>1 DEF vars, base, locals, Bounds, Readings
<1>2. CASE Next
  <2>1. faults' \in 0..MaxFaults
    BY <1>2, FaultsCounted, SpiflashAssumption DEF Bounds, Fault
  <2>2. k' \in 0..(Sectors * W)
    BY <1>2, KBounded DEF FlashInv
  <2>3. attempt' \in 0..Attempts /\ (pc' = "init" => attempt' < Readings')
    <3>1. MailTypes
      BY Zenon DEF FlashInv, MailInv
    <3> QED BY <1>2, <3>1, AttemptsCounted
  <2>4. changed' \in Seq(FlashSectors) /\ Len(changed') <= Sectors
    BY <1>2, ListBounded DEF FlashInv
  <2> QED BY <2>1, <2>2, <2>3, <2>4, Zenon DEF Bounds
<1> QED BY <1>1, <1>2

\* For every flash, operation and fault, and a gate that is read twice at least: the
\* array and the buffers hold words, the counters of the loops stay within the flash and
\* the gate's number of readings, and the list of changed sectors within the flash.
THEOREM FlashTypeCorrect ==
  ASSUME Attempts >= 2
  PROVE  Spec => []TypeOK
<1>1. Init => Bounds
  <2> SUFFICES ASSUME Init PROVE Bounds
    OBVIOUS
  <2>1. k = 0 /\ attempt = 0 /\ changed = <<>> /\ faults = 0 /\ pc = "idle"
    BY DEF Init, BaseInit
  <2>2. Sectors * W \in Nat
    BY Sizes
  <2> QED BY <2>1, <2>2, Sizes, SpiflashAssumption DEF Bounds
<1>2. FlashInv /\ Bounds /\ [Next]_vars => Bounds'
  BY BoundsStep
<1>3. FlashInv /\ Bounds => TypeOK
  <2> SUFFICES ASSUME ControlInv, DataInv, MailInv, Bounds PROVE TypeOK
    BY Zenon DEF FlashInv
  <2>1. ASSUME NEW b \in {"A", "B"} PROVE buf[b] \in Seq(Word) /\ Len(buf[b]) = W
    <3>1. buf[b] \in Contents
      BY <2>1, Zenon DEF DataInv
    <3> QED BY <3>1, Sizes DEF Contents
  <2>2. ToSet(changed) \subseteq 0..(Sectors - 1)
    <3>1. changed \in Seq(FlashSectors)
      BY Zenon DEF Bounds
    <3>2. \A i \in DOMAIN changed : changed[i] \in 0..(Sectors - 1)
      <4>1. \A i \in DOMAIN changed : changed[i] \in FlashSectors
        BY <3>1
      <4> QED BY <4>1, Zenon DEF FlashSectors
    <3> QED BY <3>2, Zenon DEF ToSet
  <2>3. mail.cmd \in Commands \cup {"idle"} /\ mail.status \in 0..2
    <3>1. mail \in Mails
      BY Zenon DEF MailInv, MailTypes
    <3> QED BY <3>1 DEF Mails
  <2>4. flash \in [Addr -> Word]
    BY DEF DataInv
  <2>5. k \in 0..(Sectors * W) /\ attempt \in 0..Attempts /\ faults \in 0..MaxFaults
    BY DEF Bounds
  <2>6. (op = None <=> pc = "idle") /\ result \in {None, "ok", "raised", "abandoned"}
        /\ (result # None => op = None)
    BY Zenon DEF ControlInv
  <2> QED BY <2>1, <2>2, <2>3, <2>4, <2>5, <2>6, Zenon DEF TypeOK
<1> QED BY <1>1, <1>2, <1>3, FlashInvariant, PTL DEF Spec

(***************************************************************************)
(* A run without a fault                                                   *)
(***************************************************************************)
\* No call has gone wrong so far, so what has to be unlocked is.
CalmInv ==
  /\ stub.pc # "stuck" /\ stub.err = 0 /\ mail.status # 2 /\ result # "abandoned"
  /\ pc \in {"erase", "program", "overwrite", "erase ends", "write"} \/ stub.pc \in {"erase", "write"}
       => ~protected

\* Sector s is erased.
Blank(s) == \A i \in 1..W : flash[s * W + i - 1] = Bits

\* flash_write, of either kind: the sectors before k are erased; the image is there up to
\* word k, and blank from there on.
WholeInv ==
  /\ pc = "erase" => \A s \in Covered(op) : s < k => Blank(s)
  /\ pc = "program" => \A i \in 1..Len(op.data) :
       flash[op.at + i - 1] = IF i <= k THEN op.data[i] ELSE Bits
  /\ pc = "verify" => \A i \in 1..Len(op.data) : flash[op.at + i - 1] = op.data[i]

\* flash_incremental: each sector is on the list once, and those that are not hold the
\* image; so do the first on the list, up to the one that is worked on.
Written(i) == Sector(changed[i]) = ImageSector(op, changed[i])
Following == Listed /\ ~Quitting
Past ==
  IF pc \in {"crc verify", "verified"} \/ Diffing THEN Len(changed)
  ELSE IF pc = "stage next" \/ (pc = "wait" /\ after = "post") \/ (Posting /\ pend.then = "stage next")
  THEN k - 2 ELSE k - 1
DoneInv ==
  Following =>
    /\ \A i, j \in DOMAIN changed : changed[i] = changed[j] => i = j
    /\ \A s \in Covered(op) : (\A i \in DOMAIN changed : changed[i] # s) => Sector(s) = ImageSector(op, s)
    /\ \A i \in DOMAIN changed : i <= Past => Written(i)

\* What the ROM's way has read, and has erased.
ReadInv ==
  /\ pc = "crc" => \A i \in DOMAIN crcs : crcs[i] = Sector(FirstSector(op) + i - 1)
  /\ pc \in {"unlock run", "overwrite"} =>
       crcs = Sector(This) /\ \A i \in 1..W : Img[i] \subseteq crcs[i]
  /\ pc = "write" => Blank(This)

\* The command that was posted last: it is for the sector before k, or the last.
Ahead == (pc = "stage next" /\ k > 1) \/ (pc = "wait" /\ after # "digests")
Latest == IF pc = "wait" /\ after = "verified" THEN k ELSE k - 1
Sent ==
  /\ mail.cmd = "program" => mail.args.at = changed[Latest]
  /\ Programming => stub.args.at = changed[Latest]
  /\ stub.pc = "write" => Blank(changed[Latest])
  /\ stub.pc \in {"report", "reported"} \/ Idle => Written(Latest)
AheadInv ==
  /\ Posting /\ pend.cmd = "program" =>
       /\ pend.args.at = changed[IF pend.then = "stage next" THEN k - 1 ELSE k]
       /\ k \in 1..Len(changed)
       /\ pend.then = "wait" => k = Len(changed)
  /\ pc = "wait" /\ after = "verified" => k \in 1..Len(changed) /\ k = Len(changed)
  /\ pc = "wait" /\ after = "post" => k # 1
  /\ Ahead => Sent

\* A try that has not failed ends with the image in the flash, verified or not.
ExactInv ==
  Quitting /\ ~failed =>
    /\ Array!Holds(flash, job)
    /\ stub.pc \in {"poll", "off"} /\ mail.cmd \in {"idle", "quit"}

CleanInv == CalmInv /\ WholeInv /\ DoneInv /\ ReadInv /\ AheadInv /\ ExactInv
Clean == faults \in Nat /\ (faults = 0 => CleanInv)

\* What a state without a fault, before and after a step, says of the step.
LEMMA NoFault ==
  ASSUME faults = 0, faults' = 0
  PROVE  /\ ~Fault
         /\ \A how : Call(how) \/ RomCall(how) => how = "ok"
         /\ \A at, n : RomRead(at, n) => buf' = [buf EXCEPT !["A"] = Over(Content(at, n), @)]
<1>1. ~Fault
  BY DEF Fault
<1> QED BY <1>1 DEF Call, RomCall, RomRead

\* Faults are only counted up.
LEMMA FaultsGrow ==
  ASSUME faults \in Nat, Next
  PROVE  faults' \in Nat /\ faults' >= faults
<1>1. Fault => faults' = faults + 1
  BY DEF Fault
<1> QED BY <1>1, FaultsCounted

\* An erase of the unlocked array.
LEMMA EraseBlanks ==
  ASSUME DataInv, ~protected, NEW S, flash' \in AfterErase("ok", S)
  PROVE  \A s \in FlashSectors : (s \in S => Blank(s)') /\ (Blank(s) => Blank(s)')
                                 /\ (s \notin S => Kept(s))
<1>1. flash' = [a \in Addr |-> IF SectorOf(a) \in S THEN Bits ELSE flash[a]]
  BY DEF AfterErase, Erased
<1>2. ASSUME NEW s \in FlashSectors, NEW i \in 1..W
      PROVE  flash'[s * W + i - 1] = IF s \in S THEN Bits ELSE flash[s * W + i - 1]
  BY <1>1, SectorWords
<1> QED BY <1>2 DEF Blank, Kept

\* A word of the unlocked array, programmed.
LEMMA WordsProgrammed ==
  ASSUME DataInv, ~protected, NEW at \in Nat, NEW words \in Seq(Word),
         flash' \in AfterProgram("ok", at, words)
  PROVE  \A a \in Addr : flash'[a] = IF at <= a /\ a < at + Len(words)
                                     THEN flash[a] \cap words[a - at + 1] ELSE flash[a]
<1>1. flash' = [a \in Addr |-> IF a - at + 1 \in DOMAIN words /\ a >= at
                               THEN flash[a] \cap words[a - at + 1] ELSE flash[a]]
  BY DEF AfterProgram, Programmed
<1>2. ASSUME NEW a \in Addr
      PROVE  (a - at + 1 \in DOMAIN words /\ a >= at) <=> (at <= a /\ a < at + Len(words))
  <2>1. a \in Nat /\ Len(words) \in Nat /\ DOMAIN words = 1..Len(words)
    BY DEF Addr
  <2> DEFINE n == Len(words)
  <2> HIDE DEF n
  <2>2. (a - at + 1 \in 1..n /\ a >= at) <=> (at <= a /\ a < at + n)
    <3>1. n \in Nat
      BY <2>1 DEF n
    <3> QED BY <2>1, <3>1
  <2> QED BY <2>1, <2>2 DEF n
<1> QED BY <1>1, <1>2, Zenon

\* A blank sector that is programmed holds the words.
LEMMA BlankWritten ==
  ASSUME DataInv, ~protected, NEW s \in FlashSectors, Blank(s), NEW words \in Contents,
         flash' \in AfterProgram("ok", s * W, words)
  PROVE  Sector(s)' = words
<1>1. words \in Seq(Word) /\ Len(words) = W /\ \A i \in 1..W : words[i] \in Word
  BY Sizes DEF Contents
<1>2. s * W \in Nat
  BY Sizes DEF FlashSectors
<1>3. ASSUME NEW i \in 1..W PROVE flash'[s * W + i - 1] = words[i]
  <2>1. s * W + i - 1 \in Addr /\ flash[s * W + i - 1] = Bits
    BY SectorWords DEF Blank
  <2>2. s * W <= s * W + i - 1 /\ s * W + i - 1 < s * W + W /\ (s * W + i - 1) - s * W + 1 = i
    BY <1>2, Sizes
  <2>3. flash'[s * W + i - 1] = flash[s * W + i - 1] \cap words[i]
    BY <1>1, <1>2, <2>1, <2>2, WordsProgrammed
  <2>4. Bits \cap words[i] = words[i]
    BY <1>1 DEF Word
  <2> QED BY <2>1, <2>3, <2>4
<1>4. words = [i \in 1..W |-> words[i]]
  BY DEF Contents
<1> QED BY <1>3, <1>4 DEF Sector, Content

\* A sector of which the run of words that differ is programmed, and that has no bit to set.
LEMMA RunWritten ==
  ASSUME DataInv, ~protected, NEW s \in FlashSectors, NEW words \in Contents,
         \A i \in 1..W : words[i] \subseteq Sector(s)[i],
         NEW w0 \in 1..W, NEW w1 \in 1..W, w0 <= w1,
         \A i \in 1..W : Sector(s)[i] # words[i] => w0 <= i /\ i <= w1,
         flash' \in AfterProgram("ok", s * W + w0 - 1, SubSeq(words, w0, w1))
  PROVE  Sector(s)' = words
<1> DEFINE run == SubSeq(words, w0, w1)
           at == s * W + w0 - 1
<1>1. words \in Seq(Word) /\ Len(words) = W /\ \A i \in 1..W : words[i] \in Word
  BY Sizes DEF Contents
<1>2. run \in Seq(Word) /\ Len(run) = w1 - w0 + 1 /\ \A i \in 1..Len(run) : run[i] = words[w0 + i - 1]
  BY <1>1, Sizes, SubSeqProperties
<1>3. at \in Nat /\ s * W \in Nat
  BY Sizes DEF FlashSectors
<1>4. ASSUME NEW a \in Addr
      PROVE  flash'[a] = IF at <= a /\ a < at + Len(run) THEN flash[a] \cap run[a - at + 1] ELSE flash[a]
  <2>1. flash' \in AfterProgram("ok", at, run)
    OBVIOUS
  <2> HIDE DEF at, run
  <2> QED BY <1>2, <1>3, <2>1, WordsProgrammed
<1>5. ASSUME NEW i \in 1..W PROVE flash'[s * W + i - 1] = words[i]
  <2> DEFINE a == s * W + i - 1
  <2>1. a \in Addr /\ Sector(s)[i] = flash[a]
    BY SectorWords DEF Sector, Content
  <2>2. CASE w0 <= i /\ i <= w1
    <3>1. at <= a /\ a < at + Len(run)
      BY <1>2, <1>3, <2>2, Sizes
    <3>2. a - at + 1 = i - w0 + 1 /\ i - w0 + 1 \in 1..Len(run) /\ w0 + (i - w0 + 1) - 1 = i
      BY <1>2, <1>3, <2>2, Sizes
    <3> HIDE DEF a, at, run
    <3>3. run[a - at + 1] = words[i]
      BY <1>2, <3>2
    <3>4. flash'[a] = flash[a] \cap words[i]
      BY <1>4, <2>1, <3>1, <3>3
    <3>5. words[i] \subseteq flash[a]
      BY <2>1
    <3> QED BY <3>4, <3>5 DEF a
  <2>3. CASE ~(w0 <= i /\ i <= w1)
    <3>1. ~(at <= a /\ a < at + Len(run))
      BY <1>2, <1>3, <2>3, Sizes
    <3>2. Sector(s)[i] = words[i]
      BY <2>3
    <3> HIDE DEF a, at, run
    <3> QED BY <1>4, <2>1, <3>1, <3>2 DEF a
  <2> QED BY <2>2, <2>3
<1>6. words = [i \in 1..W |-> words[i]]
  BY DEF Contents
<1> QED BY <1>5, <1>6 DEF Sector, Content

\* Every step keeps the stub without an error and what is worked on unlocked.
LEMMA CalmStep ==
  ASSUME FlashInv, CalmInv, Next, faults = 0, faults' = 0
  PROVE  CalmInv'
<1>0. ~Fault /\ ControlInv /\ MailInv /\ MailTypes /\ stub \in Stubs /\ mail \in Mails
  BY NoFault DEF FlashInv, MailInv, MailTypes
<1>00. 0 # 2 /\ 1 # 2
  OBVIOUS
<1>1. CASE ByRom
  <2>1. stub.pc = "off" /\ UNCHANGED stubVars
    BY <1>0, <1>1, StubOff
  <2>2. UNCHANGED <<mail, stub>>
    BY <2>1 DEF stubVars
  <2>3. result' # "abandoned"
    <3>1. result' = result \/ result' \in {"ok", "raised"}
      BY <1>1, Zenon DEF ByRom, RomNext, Start, GateRead, FlashInit, Raise, Unlock, EraseNext,
        ProgramNext, VerifyNext, XtensaErase, XtensaVerify, Calibrate, CrcNext, SectorRead, UnlockRun, Overwrite,
        StageSector, EraseEnds, WriteSector, CrcVerify, NextChunk, NextSector, Goto, Return
    <3> QED BY <3>1 DEF CalmInv
  <2>4. ~protected => ~protected'
    BY <1>1, Zenon DEF ByRom, RomNext, Start, GateRead, FlashInit, Raise, Unlock, EraseNext,
      ProgramNext, VerifyNext, XtensaErase, XtensaVerify, Calibrate, CrcNext, SectorRead, UnlockRun, Overwrite,
      StageSector, EraseEnds, WriteSector, CrcVerify, target, Unlocks, Skips
  <2>5. Unlock \/ UnlockRun \/ StageSector => ~protected'
    BY NoFault, Zenon DEF Unlock, UnlockRun, StageSector, Unlocks
  <2>6. ASSUME pc' \in {"erase", "program", "overwrite", "erase ends", "write"}
        PROVE  pc \in {"erase", "program", "overwrite", "erase ends", "write"}
               \/ Unlock \/ UnlockRun \/ StageSector
    BY <1>1, <2>6 DEF ByRom, RomNext, Start, GateRead, FlashInit, Raise, Unlock, EraseNext,
      ProgramNext, VerifyNext, XtensaErase, XtensaVerify, Calibrate, CrcNext, SectorRead, UnlockRun, Overwrite,
      StageSector, EraseEnds, WriteSector, CrcVerify, NextChunk, NextSector, Goto, Return, At
  <2> QED BY <2>1, <2>2, <2>3, <2>4, <2>5, <2>6 DEF CalmInv
<1>2. CASE HostNext
  <2>1. UNCHANGED protected
    BY <1>2 DEF HostNext, StubBegin, StubBeginRaises, PostArgs, PostCmd, Wait, WaitExpires,
      TryRaises, EndRaises, DiffRange, Digests, StageNext, PostSector, AllPosted, Trapped, TrapExpires, target
  <2>2. stub' = stub \/ (stub'.pc \in {"poll", "off"} /\ stub'.err = 0)
    <3>1. CASE StubBegin \/ StubBeginRaises \/ TrapExpires
      BY <3>1 DEF StubBegin, StubBeginRaises, TrapExpires, Off
    <3> QED BY <1>2, <3>1, Zenon DEF HostNext, PostArgs, PostCmd, Wait, WaitExpires,
          TryRaises, EndRaises, DiffRange, Digests, StageNext, PostSector, AllPosted, Trapped
  <2>3. mail'.status \in {mail.status, 0}
    <3>1. PostArgs \/ PostCmd \/ StubBegin \/ StubBeginRaises \/ mail' = mail
      BY <1>2 DEF HostNext, Wait, WaitExpires,
        TryRaises, EndRaises, DiffRange, Digests, StageNext, PostSector, AllPosted, Trapped, TrapExpires
    <3>2. PostArgs => mail'.status = 0
      BY <1>0 DEF PostArgs, Mails
    <3>3. PostCmd => mail'.status = mail.status
      BY <1>0 DEF PostCmd, Mails
    <3>4. StubBegin \/ StubBeginRaises => mail'.status = 0
      BY DEF StubBegin, StubBeginRaises, NoMail
    <3> QED BY <3>1, <3>2, <3>3, <3>4
  <2>4. result' \in {result, "ok", "raised"}
    BY <1>0, <1>2, Zenon DEF HostNext, StubBegin, StubBeginRaises, PostArgs, PostCmd, Wait, WaitExpires, Quit, Post,
      TryRaises, EndRaises, DiffRange, Digests, StageNext, PostSector, AllPosted, Trapped, TrapExpires, Goto, Return
  <2>5. pc' \notin {"erase", "program", "overwrite", "erase ends", "write"}
    <3>1. CASE Wait
      BY <1>0, <3>1 DEF Wait, Quit, Post, Goto, MailTypes
    <3>2. CASE PostCmd
      BY <1>0, <3>2 DEF PostCmd, Goto, MailTypes, Pends
    <3> QED BY <1>2, <3>1, <3>2 DEF HostNext, StubBegin, StubBeginRaises, PostArgs, WaitExpires, Quit, Post,
      TryRaises, EndRaises, DiffRange, Digests, StageNext, PostSector, AllPosted, Trapped, TrapExpires, Goto, Return
  <2>6. stub'.pc # "stuck" /\ stub'.err = 0 /\ (stub'.pc \in {"erase", "write"} => ~protected)
    BY <2>2 DEF CalmInv
  <2>7. mail'.status # 2
    BY <1>00, <2>3, Zenon DEF CalmInv
  <2>8. result' # "abandoned"
    BY <2>4 DEF CalmInv
  <2> QED BY <2>1, <2>5, <2>6, <2>7, <2>8, Zenon DEF CalmInv
<1>3. CASE StubNext
  <2>1. UNCHANGED <<pc, result>>
    BY <1>3, StubRests
  <2>2. CASE Fetch
    <3>1. UNCHANGED protected /\ stub'.err = 0 /\ stub'.pc \in {"off", "crc", "unlock"}
      BY <2>2 DEF Fetch, Off
    <3>2. mail'.status \in {mail.status, 1}
      BY <1>0, <2>2 DEF Fetch, Mails
    <3>3. mail'.status # 2
      BY <1>00, <3>2, Zenon DEF CalmInv
    <3> QED BY <2>1, <3>1, <3>3 DEF CalmInv
  <2>3. CASE CrcSector
    <3>1. UNCHANGED <<protected, mail>> /\ stub'.err = 0 /\ stub'.pc \in {"crc", "report"}
      BY <1>0, <2>3, NoFault DEF CrcSector, Step, Failed, CalmInv, Stubs, Running, StubRest
    <3> QED BY <2>1, <3>1 DEF CalmInv
  <2>4. CASE StubUnlock
    <3>1. UNCHANGED mail /\ stub'.err = 0 /\ stub'.pc = "erase" /\ ~protected'
      BY <1>0, <2>4, NoFault DEF StubUnlock, Step, CalmInv, Stubs
    <3> QED BY <2>1, <3>1 DEF CalmInv
  <2>5. CASE StubErase \/ StubWrite
    <3>1. UNCHANGED <<mail, protected>> /\ stub'.err = 0 /\ stub'.pc \in {"write", "report"} /\ ~protected
      BY <1>0, <2>5, NoFault DEF StubErase, StubWrite, Step, CalmInv, Stubs, Running
    <3> QED BY <2>1, <3>1 DEF CalmInv
  <2>6. CASE ReportErr \/ ReportStatus
    <3>0. stub.err = 0 /\ UNCHANGED protected
      BY <2>6 DEF CalmInv, ReportErr, ReportStatus
    <3>2. CASE ReportErr
      <4>1. mail' = [mail EXCEPT !.args = [@ EXCEPT !.m2 = stub.err]] /\ stub' = [stub EXCEPT !.pc = "reported"]
        BY <3>2 DEF ReportErr, Reported, ReportOrder, Step
      <4> QED BY <1>0, <2>1, <3>0, <4>1 DEF CalmInv, Mails, Stubs
    <3>3. CASE ReportStatus
      <4>1. mail' = [mail EXCEPT !.status = 1] /\ stub' = [Off EXCEPT !.pc = "poll"]
        BY <3>0, <3>3 DEF ReportStatus, Reported, ReportOrder
      <4>2. mail'.status = 1 /\ stub'.pc = "poll" /\ stub'.err = 0
        BY <1>0, <4>1 DEF Mails, Off
      <4> QED BY <1>00, <2>1, <3>0, <4>2 DEF CalmInv
    <3> QED BY <2>6, <3>2, <3>3
  <2> QED BY <1>3, <2>2, <2>3, <2>4, <2>5, <2>6 DEF StubNext
<1> QED BY <1>1, <1>2, <1>3 DEF Next

\* The words of the data are where the operation writes them.
LEMMA DataIs ==
  ASSUME op \in Ops, op.kind # "incremental"
  PROVE  /\ op.at \in Nat /\ Len(op.data) \in Nat /\ Len(op.data) > 0 /\ Padded(op) = op.data
         /\ \A i \in 1..Len(op.data) :
              /\ op.at + i - 1 \in Addr /\ SectorOf(op.at + i - 1) \in Covered(op)
              /\ op.data[i] \in Word
         /\ (\A i \in 1..Len(op.data) : flash[op.at + i - 1] = op.data[i])
              => \A a \in DOMAIN Image(op) : flash[a] = Image(op)[a]
<1> DEFINE n == Len(op.data)
           at == op.at
<1>1. at \in Nat /\ n \in Nat /\ n > 0 /\ Padded(op) = op.data /\ op.data \in Seq(Word)
  BY PaddedIs
<1>2. /\ DOMAIN Image(op) = at..(at + n - 1) /\ DOMAIN Image(op) \subseteq Addr
      /\ \A a \in DOMAIN Image(op) : Image(op)[a] = op.data[a - at + 1] /\ SectorOf(a) \in Covered(op)
  BY <1>1, ImageIs
<1>3. ASSUME NEW i \in 1..n PROVE at + i - 1 \in DOMAIN Image(op) /\ op.data[i] \in Word
  <2>1. at + i - 1 \in at..(at + n - 1)
    <3> HIDE DEF at, n
    <3> QED BY <1>1, <1>3
  <2> QED BY <1>1, <1>2, <1>3, <2>1
<1>4. ASSUME \A i \in 1..n : flash[at + i - 1] = op.data[i], NEW a \in DOMAIN Image(op)
      PROVE  flash[a] = Image(op)[a]
  <2>1. a - at + 1 \in 1..n /\ at + (a - at + 1) - 1 = a
    <3>1. a \in at..(at + n - 1)
      BY <1>2, <1>4
    <3> HIDE DEF at, n
    <3> QED BY <1>1, <3>1
  <2> QED BY <1>2, <1>4, <2>1
<1> QED BY <1>1, <1>2, <1>3, <1>4

\* The chunk that is programmed takes the image as far as it goes.
LEMMA ChunkWritten ==
  ASSUME FlashInv, WholeInv, ~protected, pc = "program",
         flash' \in AfterProgram("ok", op.at + k, Chunk)
  PROVE  /\ op \in Ops /\ op # None /\ op.kind # "incremental" /\ k \in Nat /\ k < Len(op.data)
         /\ \A i \in 1..Len(op.data) :
              flash'[op.at + i - 1] = IF i <= k + Len(Chunk) THEN op.data[i] ELSE Bits
<1> DEFINE n == Len(op.data)
           at == op.at
           c == Len(Chunk)
<1>1. op \in Ops /\ op # None /\ op.kind # "incremental" /\ k \in Nat /\ k < n /\ DataInv
  BY DEF FlashInv, ControlInv, StepInv, DataInv, WritePcs
<1>2. /\ at \in Nat /\ n \in Nat
      /\ \A i \in 1..n : at + i - 1 \in Addr /\ op.data[i] \in Word
  BY <1>1, DataIs
<1>3. Chunk \in Seq(Word) /\ c \in Nat /\ k + c <= n /\ \A i \in 1..c : Chunk[i] = op.data[k + i]
  BY <1>1, ChunkIs, Sizes
<1>4. \A a \in Addr : flash'[a] = IF at + k <= a /\ a < (at + k) + c
                                  THEN flash[a] \cap Chunk[a - (at + k) + 1] ELSE flash[a]
  <2>1. at + k \in Nat
    BY <1>1, <1>2
  <2> QED BY <1>1, <1>3, <2>1, WordsProgrammed
<1>5. \A i \in 1..n : flash[at + i - 1] = IF i <= k THEN op.data[i] ELSE Bits
  BY DEF WholeInv
<1>6. ASSUME NEW i \in 1..n PROVE flash'[at + i - 1] = IF i <= k + c THEN op.data[i] ELSE Bits
  <2> HIDE DEF at, n, c
  <2> DEFINE a == at + i - 1
  <2>1. a \in Addr /\ op.data[i] \in Word
    BY <1>2
  <2>2. CASE k < i /\ i <= k + c
    <3>1. at + k <= a /\ a < (at + k) + c /\ a - (at + k) + 1 = i - k /\ i - k \in 1..c /\ k + (i - k) = i
      BY <1>1, <1>2, <1>3, <2>2
    <3>2. Chunk[i - k] = op.data[i]
      BY <1>3, <3>1
    <3>3. flash[a] = Bits
      BY <1>1, <1>5, <2>2
    <3> HIDE DEF a
    <3>4. flash'[a] = Bits \cap op.data[i]
      BY <1>4, <2>1, <3>1, <3>2, <3>3
    <3> QED BY <2>1, <2>2, <3>4 DEF a, Word
  <2>3. CASE ~(k < i /\ i <= k + c)
    <3>1. ~(at + k <= a /\ a < (at + k) + c) /\ (i <= k + c <=> i <= k)
      BY <1>1, <1>2, <1>3, <2>3
    <3>2. flash[a] = IF i <= k THEN op.data[i] ELSE Bits
      BY <1>5
    <3> HIDE DEF a
    <3>3. flash'[a] = flash[a]
      BY <1>4, <2>1, <3>1
    <3> QED BY <3>1, <3>2, <3>3 DEF a
  <2> QED BY <2>2, <2>3
<1> QED BY <1>1, <1>6

\* Without a fault the stub runs for the host that waits for it.
LEMMA StubServes ==
  ASSUME ControlInv, CalmInv, StubNext
  PROVE  pc \in StubPcs /\ op # None /\ op \in Ops /\ op.kind = "incremental" /\ job' = job /\ op' = op
<1>1. stub.pc # "off"
  BY DEF StubNext, Fetch, CrcSector, StubUnlock, StubErase, StubWrite, ReportErr, ReportStatus, Running
<1>2. pc \in StubPcs
  BY <1>1 DEF ControlInv, CalmInv
<1>3. op # None
  BY <1>2 DEF ControlInv, StubPcs
<1> QED BY <1>2, <1>3, StubRests DEF ControlInv

\* Every step of flash_write keeps what is erased blank and what is written the image.
LEMMA WholeStep ==
  ASSUME FlashInv, CalmInv, WholeInv, Next, faults = 0, faults' = 0
  PROVE  WholeInv'
<1>0. ControlInv /\ DataInv /\ JobInv /\ StepInv /\ MailInv
  BY DEF FlashInv
<1>1. CASE ~(pc' \in {"erase", "program", "verify"})
  BY <1>1 DEF WholeInv
<1>2. CASE pc' \in {"erase", "program", "verify"}
  <2>1. Unlock \/ EraseNext \/ XtensaErase \/ ProgramNext \/ VerifyNext
    <3>1. ~StubNext
      BY <1>0, <1>2, StubServes, StubRests DEF StubPcs
    <3>2. ~HostNext
      <4>1. CASE Wait
        BY <1>0, <1>2, <4>1 DEF Wait, Quit, Post, Goto, MailInv, MailTypes
      <4>2. CASE PostCmd
        BY <1>0, <1>2, <4>2 DEF PostCmd, Goto, MailInv, MailTypes, Pends
      <4> QED BY <1>2, <4>1, <4>2 DEF HostNext, StubBegin, StubBeginRaises, PostArgs, WaitExpires, Quit, Post,
        TryRaises, EndRaises, DiffRange, Digests, StageNext, PostSector, AllPosted, Trapped, TrapExpires, Goto, Return
    <3> QED BY <1>2, <3>1, <3>2 DEF Next, ByRom, RomNext, Start, GateRead, FlashInit, Raise, XtensaVerify,
        Calibrate, CrcNext, SectorRead, UnlockRun, Overwrite, StageSector, EraseEnds, WriteSector, CrcVerify,
        NextSector, Goto, Return
  <2>2. op # None /\ op \in Ops /\ op.kind # "incremental"
    BY <1>0, <2>1 DEF Unlock, EraseNext, XtensaErase, ProgramNext, VerifyNext, At, ControlInv, WritePcs
  <2>3. op' = op
    <3>1. pc' # "idle"
      BY <1>2
    <3> QED BY <1>0, <2>2, <3>1, SameJob
  <2>4. /\ FirstSector(op) \in Nat /\ LastSector(op) \in Nat /\ Covered(op) \subseteq FlashSectors
        /\ Covered(op) = FirstSector(op)..LastSector(op)
    BY <2>2, ImageIs DEF Covered, FlashSectors
  <2>5. CASE Unlock
    <3>1. pc' = "erase" /\ k' = FirstSector(op)
      BY <2>5 DEF Unlock, Goto
    <3>2. \A s \in Covered(op) : ~(s < k')
      BY <2>4, <3>1
    <3> QED BY <2>3, <3>1, <3>2 DEF WholeInv
  <2>6. CASE EraseNext \/ XtensaErase
    <3>0. /\ pc = "erase" /\ k \in Covered(op) /\ ~protected
          /\ \A s \in Covered(op) : s < k => Blank(s)
      BY <1>0, <2>6 DEF EraseNext, XtensaErase, At, CalmInv, StepInv, WholeInv
    <3>1. PICK these \in SUBSET Nat, next \in Nat :
            /\ flash' \in AfterErase("ok", these)
            /\ \A s \in Covered(op) : s < next => s < k \/ s \in these
            /\ \/ next <= LastSector(op) /\ k' = next /\ pc' = "erase"
               \/ ~(next <= LastSector(op)) /\ k' = 0 /\ pc' = "program"
      <4>1. CASE EraseNext
        <5> DEFINE these == IF Whole(k) THEN k..(k + BlockSectors - 1) ELSE {k}
                   next  == IF Whole(k) THEN k + BlockSectors ELSE k + 1
        <5>1. PICK how \in Endings :
                /\ Call(how)
                /\ flash' \in AfterErase(how, these)
                /\ IF how # "ok" THEN Return("raised")
                   ELSE IF next <= LastSector(op)
                   THEN k' = next /\ Goto("erase") /\ UNCHANGED <<attempt, crcs, changed>>
                   ELSE k' = 0 /\ Goto("program") /\ UNCHANGED <<attempt, crcs, changed>>
          BY <4>1, Zenon DEF EraseNext
        <5>2. how = "ok"
          BY <5>1, NoFault
        <5>3. next \in Nat /\ \A s \in Covered(op) : s < next => s < k \/ s \in these
          BY <2>4, <3>0, Sizes
        <5>4. these \in SUBSET Nat
          BY <2>4, <3>0, Sizes
        <5> HIDE DEF these, next
        <5> QED BY <5>1, <5>2, <5>3, <5>4 DEF Goto
      <4>2. CASE XtensaErase
        <5>1. /\ flash' \in AfterErase("ok", {k})
              /\ IF k < LastSector(op) THEN k' = k + 1 /\ pc' = "erase" ELSE k' = 0 /\ pc' = "program"
          BY <4>2, NoFault DEF XtensaErase, Skips, Goto
        <5>2. k + 1 \in Nat /\ (k < LastSector(op) <=> k + 1 <= LastSector(op))
              /\ \A s \in Covered(op) : s < k + 1 => s < k \/ s \in {k}
          BY <2>4, <3>0
        <5>3. {k} \in SUBSET Nat /\ k + 1 \in Nat
          BY <2>4, <3>0
        <5> QED BY <5>1, <5>2, <5>3
      <4> QED BY <2>6, <4>1, <4>2
    <3>2. \A s \in Covered(op) : s < next => Blank(s)'
      BY <1>0, <2>4, <3>0, <3>1, EraseBlanks
    <3>3. CASE next <= LastSector(op) /\ k' = next /\ pc' = "erase"
      BY <2>3, <3>2, <3>3 DEF WholeInv
    <3>4. CASE ~(next <= LastSector(op)) /\ k' = 0 /\ pc' = "program"
      <4>1. ASSUME NEW i \in 1..Len(op.data) PROVE flash'[op.at + i - 1] = Bits
        <5>0. PICK a, s : a = op.at + i - 1 /\ s = SectorOf(a)
          OBVIOUS
        <5>1. a \in Addr /\ s \in Covered(op)
          BY <2>2, <5>0, DataIs
        <5>2. s < next
          BY <2>4, <3>1, <3>4, <5>1
        <5>3. Blank(s)'
          BY <3>2, <5>1, <5>2
        <5>4. a \in Nat /\ s \in Nat
          BY <5>1, <2>4 DEF Addr, FlashSectors
        <5>5. s * W <= a /\ a <= s * W + W - 1
          BY <5>0, <5>4, SectorIs
        <5>6. a - s * W + 1 \in 1..W /\ s * W + (a - s * W + 1) - 1 = a
          <6>1. s * W \in Nat
            BY <5>4, Sizes
          <6> DEFINE b == s * W
          <6> HIDE DEF b
          <6>2. b \in Nat /\ b <= a /\ a <= b + W - 1
            BY <5>5, <6>1 DEF b
          <6>3. a - b + 1 \in 1..W /\ b + (a - b + 1) - 1 = a
            BY <5>4, <6>2, Sizes
          <6> QED BY <6>3 DEF b
        <5>7. flash'[a] = Bits
          BY <5>3, <5>6 DEF Blank
        <5> QED BY <5>0, <5>7
      <4>2. \A i \in 1..Len(op.data) : ~(i <= 0)
        BY <2>2, DataIs
      <4> QED BY <2>3, <3>4, <4>1, <4>2 DEF WholeInv
    <3> QED BY <3>1, <3>3, <3>4
  <2>7. CASE ProgramNext
    <3>1. pc = "program" /\ ~protected
      BY <2>7 DEF ProgramNext, At, CalmInv
    <3>2. /\ flash' \in AfterProgram("ok", op.at + k, Chunk)
          /\ \/ k + W < Len(op.data) /\ k' = k + W /\ pc' = "program"
             \/ ~(k + W < Len(op.data)) /\ pc' = "verify"
      BY <1>2, <2>7, NoFault DEF ProgramNext, NextChunk, Goto, Return
    <3>3. /\ k \in Nat /\ k < Len(op.data) /\ Len(op.data) \in Nat
          /\ \A i \in 1..Len(op.data) :
               flash'[op.at + i - 1] = IF i <= k + Len(Chunk) THEN op.data[i] ELSE Bits
      BY <2>2, <3>1, <3>2, ChunkWritten, DataIs
    <3>4. CASE k + W < Len(op.data) /\ k' = k + W /\ pc' = "program"
      <4>1. k + Len(Chunk) = k'
        BY <2>2, <3>3, <3>4, ChunkIs
      <4> QED BY <2>3, <3>3, <3>4, <4>1 DEF WholeInv
    <3>5. CASE ~(k + W < Len(op.data)) /\ pc' = "verify"
      <4>1. k + Len(Chunk) = Len(op.data)
        BY <2>2, <3>3, <3>5, ChunkIs
      <4>2. \A i \in 1..Len(op.data) : i <= k + Len(Chunk)
        BY <3>3, <4>1
      <4> QED BY <2>3, <3>3, <3>5, <4>2 DEF WholeInv
    <3> QED BY <3>2, <3>4, <3>5
  <2>8. CASE VerifyNext
    <3>1. pc = "verify" /\ flash' = flash /\ pc' \in {"verify", "idle"}
      BY <2>8 DEF VerifyNext, At, NextChunk, Goto, Return
    <3> QED BY <1>2, <2>3, <3>1 DEF WholeInv
  <2> QED BY <2>1, <2>5, <2>6, <2>7, <2>8
<1> QED BY <1>1, <1>2

\* A read that does not fail leaves the sector in the first buffer.
LEMMA ReadClean ==
  ASSUME DataInv, faults = 0, faults' = 0, NEW s \in FlashSectors, RomRead(s * W, W)
  PROVE  buf'["A"] = Sector(s) /\ Sector(s) \in Contents
<1>1. buf' = [buf EXCEPT !["A"] = Over(Content(s * W, W), buf["A"])] /\ buf \in [{"A", "B"} -> Contents]
  BY NoFault DEF DataInv
<1>2. s * W \in Nat /\ s * W + W <= Sectors * W /\ Sector(s) \in Contents /\ flash \in [Addr -> Word]
  BY SectorContents DEF DataInv
<1>3. Len(Content(s * W, W)) = W
  BY <1>2, ContentIs, Sizes
<1>4. Over(Content(s * W, W), buf["A"]) = [i \in 1..W |-> Content(s * W, W)[i]]
  BY <1>3, Sizes DEF Over
<1>5. [i \in 1..W |-> Content(s * W, W)[i]] = Sector(s)
  BY DEF Sector, Content
<1> QED BY <1>1, <1>2, <1>4, <1>5

\* The digests read with the ROM are those of the sectors, also where a failed read would
\* go unseen.
LEMMA CrcClean ==
  ASSUME FlashInv, ReadInv, faults = 0, faults' = 0, CrcNext, NEW digests, digests = Append(crcs, buf'["A"])
  PROVE  /\ op \in Ops /\ op # None /\ op.kind = "incremental" /\ flash' = flash
         /\ \A i \in DOMAIN digests : digests[i] = Sector(FirstSector(op) + i - 1)
         /\ ~(k < LastSector(op)) => \A s \in Covered(op) \ Differing(digests) : Sector(s) = ImageSector(op, s)
<1> DEFINE first == FirstSector(op)
           last == LastSector(op)
<1>1. /\ op \in Ops /\ op # None /\ pc = "crc" /\ op.kind = "incremental" /\ k \in Covered(op)
      /\ flash' = flash /\ DataInv /\ RomRead(k * W, W)
  BY DEF CrcNext, At, FlashInv, ControlInv, StepInv, RomPcs
<1>2. /\ crcs \in Seq(Contents) /\ Len(crcs) = k - first
      /\ \A i \in DOMAIN crcs : crcs[i] = Sector(first + i - 1)
  BY <1>1 DEF FlashInv, StepInv, ReadInv
<1>3. first \in Nat /\ last \in Nat /\ k \in Nat /\ first <= k /\ k <= last /\ k \in FlashSectors
  BY <1>1, ImageIs DEF Covered, FlashSectors
<1>4. buf'["A"] \in Contents /\ buf'["A"] = Sector(k)
  BY <1>1, <1>3, ReadClean
<1>5. digests \in Seq(Contents) /\ Len(digests) = Len(crcs) + 1
      /\ \A i \in 1..(Len(crcs) + 1) : digests[i] = IF i <= Len(crcs) THEN crcs[i] ELSE buf'["A"]
  BY <1>2, <1>4, AppendProperties
<1>6. ASSUME NEW i \in DOMAIN digests PROVE digests[i] = Sector(first + i - 1)
  <2> HIDE DEF first, last
  <2>1. i \in 1..(Len(crcs) + 1) /\ Len(crcs) \in Nat /\ DOMAIN crcs = 1..Len(crcs)
    BY <1>2, <1>5, <1>6
  <2>2. CASE i <= Len(crcs)
    <3>1. i \in DOMAIN crcs
      BY <2>1, <2>2
    <3> QED BY <1>2, <1>5, <1>6, <2>1, <2>2, <3>1
  <2>3. CASE ~(i <= Len(crcs))
    <3>1. i = Len(crcs) + 1
      BY <2>1, <2>3
    <3>2. first + i - 1 = k
      BY <1>2, <1>3, <3>1
    <3>3. digests[i] = buf'["A"]
      BY <1>5, <2>1, <2>3
    <3> QED BY <1>4, <1>6, <3>2, <3>3
  <2> QED BY <2>2, <2>3
<1>7. ASSUME ~(k < last), NEW s \in Covered(op) PROVE digests[s - first + 1] = Sector(s)
  <2>1. s \in Nat /\ first <= s /\ s <= last /\ k = last
    BY <1>3, <1>7 DEF Covered
  <2> HIDE DEF first, last
  <2>2. s - first + 1 \in 1..Len(digests) /\ first + (s - first + 1) - 1 = s
    BY <1>2, <1>3, <1>5, <2>1
  <2>3. s - first + 1 \in DOMAIN digests
    BY <1>5, <2>2
  <2> QED BY <1>6, <2>2, <2>3
<1>8. ASSUME ~(k < last), NEW s \in Covered(op), s \notin Differing(digests) PROVE Sector(s) = ImageSector(op, s)
  BY <1>7, <1>8 DEF Differing
<1> QED BY <1>1, <1>6, <1>8

\* There is nothing in an empty sequence.
LEMMA EmptyIs ==
  ASSUME NEW q, q = <<>>
  PROVE  DOMAIN q = {}
<1>1. q \in Seq({}) /\ Len(q) = 0
  BY EmptySeq
<1>2. DOMAIN q = 1..Len(q)
  BY <1>1
<1> QED BY <1>1, <1>2

\* Every step keeps what the ROM's way has read true of the flash, and what it has erased blank.
LEMMA ReadStep ==
  ASSUME FlashInv, CalmInv, ReadInv, Next, faults = 0, faults' = 0
  PROVE  ReadInv'
<1>0. ControlInv /\ DataInv /\ JobInv /\ ListInv /\ StepInv /\ MailInv
  BY DEF FlashInv
<1>1. CASE ~(pc' \in {"crc", "unlock run", "overwrite", "write"})
  BY <1>1 DEF ReadInv
<1>2. CASE pc' \in {"crc", "unlock run", "overwrite", "write"}
  <2>1. Calibrate \/ CrcNext \/ SectorRead \/ UnlockRun \/ EraseEnds
    <3>1. ~StubNext
      BY <1>0, <1>2, StubServes, StubRests DEF StubPcs
    <3>2. ~HostNext
      <4>1. CASE Wait
        BY <1>0, <1>2, <4>1 DEF Wait, Quit, Post, Goto, MailInv, MailTypes
      <4>2. CASE PostCmd
        BY <1>0, <1>2, <4>2 DEF PostCmd, Goto, MailInv, MailTypes, Pends
      <4> QED BY <1>2, <4>1, <4>2 DEF HostNext, StubBegin, StubBeginRaises, PostArgs, WaitExpires, Quit, Post,
        TryRaises, EndRaises, DiffRange, Digests, StageNext, PostSector, AllPosted, Trapped, TrapExpires, Goto, Return
    <3> QED BY <1>2, <3>1, <3>2 DEF Next, ByRom, RomNext, Start, GateRead, FlashInit, Raise, XtensaVerify,
        Unlock, EraseNext, XtensaErase, ProgramNext, VerifyNext, Overwrite, StageSector, WriteSector, CrcVerify,
        NextSector, NextChunk, Goto, Return
  <2>2. op # None /\ op' = op
    <3>1. op # None /\ pc' # "idle"
      BY <1>2, <2>1 DEF Calibrate, CrcNext, SectorRead, UnlockRun, EraseEnds, At
    <3> QED BY <1>0, <3>1, SameJob
  <2>3. CASE Calibrate
    <3>1. crcs' = <<>> /\ pc' \notin {"unlock run", "overwrite", "write"}
      BY <1>0, <2>3 DEF Calibrate, At, Goto, StepInv
    <3>2. DOMAIN crcs' = {}
      BY <3>1, EmptyIs
    <3> QED BY <3>1, <3>2, Zenon DEF ReadInv
  <2>4. CASE CrcNext
    <3> DEFINE digests == Append(crcs, buf'["A"])
    <3>1. pc' = "crc" /\ crcs' = digests
      BY <1>2, <2>4 DEF CrcNext, Goto, Return
    <3>2. flash' = flash /\ \A i \in DOMAIN digests : digests[i] = Sector(FirstSector(op) + i - 1)
      BY <2>4, CrcClean
    <3> HIDE DEF digests
    <3>3. ASSUME NEW i \in DOMAIN crcs' PROVE crcs'[i] = Sector(FirstSector(op) + i - 1)'
      <4>1. crcs'[i] = Sector(FirstSector(op) + i - 1)
        BY <3>1, <3>2
      <4> QED BY <2>2, <3>2, <4>1 DEF Sector, Content, FirstSector, SectorOf
    <3> QED BY <3>1, <3>3 DEF ReadInv
  <2>5. CASE SectorRead
    <3>1. pc \in ChangedPcs /\ flash' = flash
      BY <2>5 DEF SectorRead, At, ChangedPcs
    <3>2. This \in FlashSectors
      BY <1>0, <3>1, ImgIs
    <3>3. /\ RomRead(This * W, W) /\ \A i \in 1..W : Img[i] \subseteq buf'["A"][i]
          /\ crcs' = buf'["A"] /\ pc' = "unlock run" /\ UNCHANGED <<k, changed>>
      BY <1>2, <2>5, Zenon DEF SectorRead, Goto, Return
    <3>4. buf'["A"] = Sector(This)
      BY <1>0, <3>2, <3>3, ReadClean
    <3>5. This' = This /\ Img' = Img /\ Sector(This)' = Sector(This)
      BY <2>2, <3>1, <3>3 DEF This, Img, ImageSector, Sector, Content
    <3> QED BY <3>3, <3>4, <3>5 DEF ReadInv
  <2>6. CASE UnlockRun
    <3>1. pc = "unlock run" /\ pc' = "overwrite" /\ flash' = flash /\ UNCHANGED <<k, changed, crcs>>
      BY <2>6 DEF UnlockRun, At, Goto, locals
    <3>2. This' = This /\ Img' = Img /\ Sector(This)' = Sector(This)
      BY <2>2, <3>1 DEF This, Img, ImageSector, Sector, Content
    <3> QED BY <3>1, <3>2 DEF ReadInv
  <2>7. CASE EraseEnds
    <3>1. pc = "erase ends" /\ pc' = "write" /\ flash' \in AfterErase("ok", {This}) /\ UNCHANGED <<k, changed>>
      BY <1>2, <2>7, NoFault DEF EraseEnds, At, Goto, Return, locals
    <3>2. ~protected /\ This \in FlashSectors
      BY <1>0, <3>1, ImgIs DEF CalmInv, ChangedPcs
    <3>3. PICK s : s = This
      OBVIOUS
    <3>4. Blank(s)'
      BY <1>0, <3>1, <3>2, <3>3, EraseBlanks
    <3>5. This' = s
      BY <3>1, <3>3 DEF This
    <3>6. Blank(This)'
      BY <3>4, <3>5 DEF Blank
    <3> QED BY <3>1, <3>6 DEF ReadInv
  <2> QED BY <2>1, <2>3, <2>4, <2>5, <2>6, <2>7
<1> QED BY <1>1, <1>2

\* While the stub has a sector to program the host stages the next, or waits, unless it quits.
LEMMA AtWork ==
  ASSUME FlashInv, CalmInv, Programming, ~Quitting
  PROVE  Ahead /\ pc \in {"stage next", "wait"} /\ op # None
<1>0. ControlInv /\ MailInv /\ DigestInv
  BY DEF FlashInv
<1>1. stub.pc \in {"unlock", "erase", "write"}
  BY DEF Programming
<1>2. stub.pc # "off" /\ stub.pc # "poll" /\ ~Idle
  BY <1>1 DEF Idle
<1>3. pc \in StubPcs /\ op # None
  <2>1. pc \in StubPcs
    BY <1>0, <1>2 DEF ControlInv, CalmInv
  <2> QED BY <1>0, <2>1 DEF ControlInv, StubPcs
<1>4. ~CrcWait
  BY <1>0, <1>1 DEF DigestInv, Awaited
<1>5. pc \notin {"diff", "digests", "post", "verified"} /\ ~(pc = "stage next" /\ k = 1)
  BY <1>0, <1>2 DEF MailInv
<1>6. pc \notin {"args", "cmd", "trap"}
  BY <1>0, <1>2 DEF MailInv, Quitting, Posting
<1>7. pc \in {"stage next", "wait"}
  BY <1>3, <1>5, <1>6 DEF StubPcs
<1>8. pc = "stage next" => k \in 1..Len(changed) /\ changed \in Seq(job.sectors)
  BY <1>0 DEF FlashInv, ListInv, ChangedPcs, Listed
<1>9. pc = "stage next" => k > 1
  BY <1>5, <1>8, OneOrMore, Zenon
<1> QED BY <1>3, <1>4, <1>7, <1>9 DEF Ahead, CrcWait

\* Once QUIT is being posted it is until the operation ends.
LEMMA QuitsOn ==
  ASSUME FlashInv, Next, Quitting, op # None, op' = op
  PROVE  Quitting' /\ UNCHANGED failed
<1>0. ControlInv /\ MailInv /\ op' # None
  BY DEF FlashInv
<1>1. pc \in {"args", "cmd", "trap"} /\ pend.cmd = "quit"
  BY DEF Quitting, Posting
<1>2. CASE ByRom
  BY <1>1, <1>2 DEF ByRom, RomNext, Start, GateRead, FlashInit, Raise, Unlock, EraseNext,
    ProgramNext, VerifyNext, XtensaErase, XtensaVerify, Calibrate, CrcNext, SectorRead, UnlockRun, Overwrite,
    StageSector, EraseEnds, WriteSector, CrcVerify, At
<1>3. CASE HostNext
  <2>1. PostArgs \/ PostCmd
    BY <1>0, <1>1, <1>3 DEF HostNext, StubBegin, StubBeginRaises, Wait, WaitExpires, TryRaises, EndRaises, DiffRange,
      Digests, StageNext, PostSector, AllPosted, Trapped, TrapExpires, At, Return
  <2>2. CASE PostArgs
    BY <1>1, <2>2 DEF PostArgs, Goto, Quitting, Posting
  <2>3. CASE PostCmd
    BY <1>0, <1>1, <2>3 DEF PostCmd, Goto, Quitting, Posting, MailInv
  <2> QED BY <2>1, <2>2, <2>3
<1>4. CASE StubNext
  BY <1>1, <1>4, StubRests DEF Quitting, Posting
<1> QED BY <1>2, <1>3, <1>4 DEF Next

\* With a list to work through, the sector that changes is the one worked on, by the ROM or
\* by the stub.
LEMMA OneChanges ==
  ASSUME FlashInv, CalmInv, AheadInv, Next, Following, op # None
  PROVE  \/ UNCHANGED flash
         \/ pc \in {"overwrite", "erase ends", "write"} /\ Changes({This})
         \/ Ahead /\ Changes({changed[Latest]})
<1>0. ControlInv /\ DataInv /\ JobInv /\ ListInv /\ StepInv /\ MailInv /\ FlightInv
  BY DEF FlashInv
<1>1. ~EraseNext /\ ~ProgramNext /\ ~XtensaErase
  BY DEF EraseNext, ProgramNext, XtensaErase, At, Following, Listed, ChangedPcs, StubPcs
<1>2. CASE Overwrite
  <2>1. pc \in ChangedPcs /\ pc = "overwrite"
    BY <1>2 DEF Overwrite, At, ChangedPcs
  <2>2. PICK w0 \in 1..W, w1 \in 1..W, how \in Endings :
          w0 <= w1 /\ flash' \in AfterProgram(how, This * W + w0 - 1, SubSeq(Img, w0, w1))
    BY <1>2 DEF Overwrite
  <2>3. Changes({This})
    BY <1>0, <2>1, <2>2, ImgIs, Working, ProgramSector DEF ControlInv, ChangedPcs, RomPcs, StubPcs
  <2> QED BY <2>1, <2>3
<1>3. CASE EraseEnds
  <2>1. pc \in ChangedPcs /\ pc = "erase ends"
    BY <1>3 DEF EraseEnds, At, ChangedPcs
  <2>2. PICK how \in Endings : flash' \in AfterErase(how, {This})
    BY <1>3 DEF EraseEnds
  <2>3. {This} \subseteq job.sectors /\ ~JobOver
    BY <1>0, <2>1, ImgIs, Working
  <2>4. Changes({This})
    BY <1>0, <2>2, <2>3, EraseIs DEF Changes
  <2> QED BY <2>1, <2>4
<1>4. CASE WriteSector
  <2>1. pc \in ChangedPcs /\ pc = "write"
    BY <1>4 DEF WriteSector, At, ChangedPcs
  <2>2. PICK how \in Endings : flash' \in AfterProgram(how, This * W, buf["A"])
    BY <1>4 DEF WriteSector
  <2>3. buf["A"] = Img
    BY <1>0, <2>1 DEF StepInv, Img, This
  <2>4. Changes({This})
    BY <1>0, <2>1, <2>2, <2>3, ImgIs, Working, ProgramWhole
  <2> QED BY <2>1, <2>4
<1>5. CASE StubErase \/ StubWrite
  <2>1. Programming /\ stub.pc # "off"
    BY <1>5 DEF StubErase, StubWrite, Running, Programming
  <2>2. Ahead /\ stub.args.at = changed[Latest]
    BY <2>1, AtWork DEF Following, AheadInv, Sent
  <2>3. /\ stub.args.at \in job.sectors /\ stub.args.buf \in {"A", "B"}
        /\ Carries(buf[stub.args.buf], stub.args.at)
    BY <1>0, <2>1 DEF FlightInv, Staging, Posted, Carried
  <2>4. ~JobOver /\ job.sectors \subseteq FlashSectors
    BY <1>0, <2>1, Working
  <2>5. CASE StubErase
    <3>1. PICK how \in Endings : flash' \in AfterErase(how, {stub.args.at})
      BY <2>5 DEF StubErase
    <3>2. Changes({stub.args.at})
      BY <1>0, <2>3, <2>4, <3>1, EraseIs DEF Changes
    <3> QED BY <2>2, <3>2
  <2>6. CASE StubWrite
    <3>1. PICK how \in Endings : flash' \in AfterProgram(how, stub.args.at * W, buf[stub.args.buf])
      BY <2>6 DEF StubWrite
    <3>2. buf[stub.args.buf] \in Contents
      BY <1>0, <2>3 DEF DataInv
    <3>3. Changes({stub.args.at})
      BY <1>0, <2>3, <2>4, <3>1, <3>2, ProgramWhole
    <3> QED BY <2>2, <3>3
  <2> QED BY <1>5, <2>5, <2>6
<1>6. CASE ByRom /\ ~(EraseNext \/ ProgramNext \/ XtensaErase \/ Overwrite \/ EraseEnds \/ WriteSector)
  BY <1>6 DEF ByRom, RomNext, Start, GateRead, FlashInit, Raise, Unlock, VerifyNext, XtensaVerify,
    Calibrate, CrcNext, SectorRead, UnlockRun, StageSector, CrcVerify, target
<1>7. CASE HostNext
  BY <1>7 DEF HostNext, StubBegin, StubBeginRaises, PostArgs, PostCmd, Wait, WaitExpires, TryRaises,
    EndRaises, DiffRange, Digests, StageNext, PostSector, AllPosted, Trapped, TrapExpires, target
<1>8. CASE Fetch \/ CrcSector \/ StubUnlock \/ ReportErr \/ ReportStatus
  BY <1>8 DEF Fetch, CrcSector, StubUnlock, ReportErr, ReportStatus
<1> QED BY <1>1, <1>2, <1>3, <1>4, <1>5, <1>6, <1>7, <1>8 DEF Next, StubNext

\* What is written stays written: the sector that changes comes after it on the list.
Settled(s) ==
  \/ \E i \in DOMAIN changed : i <= Past /\ changed[i] = s
  \/ s \in Covered(op) /\ \A i \in DOMAIN changed : changed[i] # s
LEMMA SettledKept ==
  ASSUME FlashInv, CalmInv, AheadInv, DoneInv, Next, Following, op # None
  PROVE  /\ changed \in Seq(job.sectors) /\ job.sectors \subseteq FlashSectors /\ Past \in Int
         /\ DOMAIN changed = 1..Len(changed) /\ Len(changed) \in Nat
         /\ \A s : Settled(s) => Sector(s)' = Sector(s)
<1>0. ControlInv /\ JobInv /\ ListInv /\ MailInv
  BY DEF FlashInv
<1>1. changed \in Seq(job.sectors) /\ job.sectors \subseteq FlashSectors /\ op \in Ops
  BY <1>0, Working DEF ListInv, Following, ControlInv
<1>2. PICK j : /\ \A s \in FlashSectors : s # changed[j] => Kept(s) \/ UNCHANGED flash
               /\ (j \in DOMAIN changed /\ j > Past) \/ UNCHANGED flash
  <2>1. CASE UNCHANGED flash
    BY <2>1
  <2>2. CASE pc \in {"overwrite", "erase ends", "write"} /\ Changes({This})
    <3>1. k \in 1..Len(changed)
      BY <1>0, <2>2 DEF ListInv, ChangedPcs
    <3>2. Past = k - 1
      BY <2>2 DEF Past, Diffing, CrcPost, CrcWait, Posting
    <3>3. DOMAIN changed = 1..Len(changed) /\ Len(changed) \in Nat
      BY <1>1, LenProperties
    <3>4. k \in DOMAIN changed /\ k > Past
      BY <3>1, <3>2, <3>3
    <3> QED BY <2>2, <3>4 DEF Changes, This
  <2>3. CASE Ahead /\ Changes({changed[Latest]})
    <3>1. Latest \in DOMAIN changed /\ Latest > Past
      <4>0. DOMAIN changed = 1..Len(changed) /\ Len(changed) \in Nat
        BY <1>1, LenProperties
      <4>1. CASE pc = "stage next" /\ k > 1
        <5>1. k \in 1..Len(changed) /\ Latest = k - 1 /\ Past = k - 2
          BY <1>0, <4>1 DEF ListInv, ChangedPcs, Latest, Past, Diffing, CrcPost, CrcWait, Posting
        <5>2. \A n, i \in Nat : i \in 1..n /\ i > 1 => i - 1 \in 1..n /\ i - 1 > i - 2
          OBVIOUS
        <5>3. k \in Nat
          BY <4>0, <5>1
        <5> QED BY <4>0, <4>1, <5>1, <5>2, <5>3
      <4>2. CASE pc = "wait" /\ after = "post"
        <5>1. k \in 1..Len(changed) /\ Latest = k - 1 /\ Past = k - 2 /\ k # 1
          BY <1>0, <4>2 DEF ListInv, ChangedPcs, Latest, Past, Diffing, CrcPost, CrcWait, Posting, AheadInv
        <5> QED BY <4>0, <5>1
      <4>3. CASE pc = "wait" /\ after = "verified"
        <5>1. k \in 1..Len(changed) /\ Latest = k /\ Past = k - 1
          BY <4>3 DEF AheadInv, Latest, Past, Diffing, CrcPost, CrcWait, Posting
        <5> QED BY <4>0, <5>1
      <4>4. pc = "wait" => after # "idle"
        BY <1>0 DEF MailInv
      <4> QED BY <1>0, <2>3, <4>1, <4>2, <4>3, <4>4 DEF Ahead, MailInv, MailTypes
    <3> QED BY <2>3, <3>1 DEF Changes
  <2> QED BY <2>1, <2>2, <2>3, OneChanges
<1>3. DOMAIN changed = 1..Len(changed) /\ Len(changed) \in Nat /\ Past \in Int
  <2>1. DOMAIN changed = 1..Len(changed) /\ Len(changed) \in Nat
    BY <1>1, LenProperties
  <2>2. k \in Nat
    BY DEF FlashInv, DataInv
  <2> QED BY <2>1, <2>2 DEF Past
<1>4. ASSUME NEW s, Settled(s) PROVE Sector(s)' = Sector(s)
  <2>1. CASE UNCHANGED flash
    BY <2>1, KeptSector
  <2>2. CASE ~UNCHANGED flash
    <3>1. j \in DOMAIN changed /\ j > Past
      BY <1>2, <2>2
    <3>2. ASSUME NEW i \in DOMAIN changed, i <= Past, changed[i] = s PROVE s # changed[j]
      <4>1. i # j
        BY <1>3, <3>1, <3>2
      <4> QED BY <3>1, <3>2, <4>1 DEF DoneInv
    <3>3. s # changed[j]
      BY <1>4, <3>1, <3>2 DEF Settled
    <3>4. s \in FlashSectors
      <4>1. \A i \in DOMAIN changed : changed[i] \in FlashSectors
        BY <1>1
      <4> QED BY <1>1, <1>4, <4>1, ImageIs DEF Settled, FlashSectors
    <3> QED BY <1>2, <3>3, <3>4, KeptSector
  <2> QED BY <2>1, <2>2
<1> QED BY <1>1, <1>3, <1>4

\* The list of sectors is made.
MakesList == CrcNext \/ (Digests /\ pc' = "stage next")

\* The next place on the list counts as written when it has been, by the ROM in this step or
\* by the stub before.
LEMMA PastGrows ==
  ASSUME FlashInv, AheadInv, Next, Following, Following', op # None, op' = op, changed' = changed,
         ~MakesList,
         NEW n \in Nat, n = Len(changed), NEW i \in 1..n,
         NEW p \in Int, p = Past, NEW q \in Int, q = Past', ~(i <= p), i <= q
  PROVE  \/ (Overwrite \/ WriteSector) /\ i = k
         \/ Ahead /\ Idle /\ i = Latest /\ UNCHANGED flash
<1>00. ControlInv /\ MailInv /\ ListInv /\ k \in Int /\ op' # None
  BY DEF FlashInv, DataInv
<1>01. i \in Int /\ i <= n /\ i >= 1 /\ n \in Int /\ n = Len(changed)
  OBVIOUS
<1>0. ControlInv /\ MailInv /\ ListInv /\ k \in Int /\ op' # None
      /\ i \in Int /\ i <= n /\ i >= 1 /\ n \in Int /\ n = Len(changed)
  BY <1>00, <1>01
<1>1. ~(pc \in {"crc verify", "verified"} \/ Diffing)
  <2>1. CASE pc \in {"crc verify", "verified"} \/ Diffing
    <3>1. p = Len(changed)
      BY <2>1 DEF Past
    <3> QED BY <1>0, <3>1
  <2> QED BY <2>1
<1>2. CASE ByRom
  <2>1. pc \in {"sector", "unlock run", "overwrite", "stage", "erase ends", "write"}
    BY <1>0, <1>1, <1>2 DEF ByRom, RomNext, Start, GateRead, FlashInit, Raise, Unlock, EraseNext,
      ProgramNext, VerifyNext, XtensaErase, XtensaVerify, Calibrate, SectorRead, UnlockRun, Overwrite,
      StageSector, EraseEnds, WriteSector, CrcVerify, At, MakesList, Following, Listed, ChangedPcs, StubPcs
  <2>2. p = k - 1 /\ k <= Len(changed)
    <3>1. k \in 1..Len(changed)
      BY <1>0, <2>1 DEF ListInv, ChangedPcs
    <3>2. p = k - 1
      BY <2>1 DEF Past, Diffing, CrcPost, CrcWait, Posting
    <3> QED BY <1>0, <3>1, <3>2
  <2>3. CASE Overwrite \/ WriteSector
    <3>1. NextSector
      BY <1>0, <2>3, Zenon DEF Overwrite, WriteSector, Return
    <3>2. i = k
      <4>1. CASE k < Len(changed)
        <5>1. k' = k + 1 /\ pc' = "sector"
          BY <3>1, <4>1 DEF NextSector, Goto
        <5>2. q = (k + 1) - 1
          BY <5>1 DEF Past, Diffing, CrcPost, CrcWait, Posting
        <5> QED BY <1>0, <2>2, <5>2
      <4>2. CASE ~(k < Len(changed))
        BY <1>0, <2>2, <4>2
      <4> QED BY <4>1, <4>2
    <3> QED BY <2>3, <3>2
  <2>4. CASE ~(Overwrite \/ WriteSector)
    <3>1. k' = k /\ pc' \in {"unlock run", "overwrite", "stage", "erase ends", "write"}
      <4>1. SectorRead \/ UnlockRun \/ StageSector \/ EraseEnds
        BY <1>0, <1>2, <2>1, <2>4 DEF ByRom, RomNext, Start, GateRead, FlashInit, Raise, Unlock, EraseNext,
          ProgramNext, VerifyNext, XtensaErase, XtensaVerify, Calibrate, CrcNext, CrcVerify, At, Return
      <4>2. CASE SectorRead
        BY <1>0, <4>2, Zenon DEF SectorRead, locals, Goto, Return
      <4>3. CASE UnlockRun \/ StageSector
        BY <4>3, Zenon DEF UnlockRun, StageSector, locals, Goto
      <4>4. CASE EraseEnds
        BY <1>0, <4>4, Zenon DEF EraseEnds, locals, Goto, Return
      <4> QED BY <4>1, <4>2, <4>3, <4>4
    <3>2. q = k - 1
      BY <3>1 DEF Past, Diffing, CrcPost, CrcWait, Posting
    <3> QED BY <2>2, <3>2
  <2> QED BY <2>3, <2>4
<1>3. CASE HostNext
  <2>0. pc' \notin {"idle", "trap"} /\ ~(pc' \in {"args", "cmd"} /\ pend'.cmd = "quit")
    <3>1. pc' # "idle"
      BY DEF Following, Listed, ChangedPcs, StubPcs
    <3>2. pc' = "trap" => pend'.cmd = "quit"
      BY <1>0, Inductive DEF FlashInv, MailInv
    <3> QED BY <3>1, <3>2 DEF Following, Quitting, Posting
  <2>1. \/ StubBegin \/ DiffRange \/ StageNext \/ PostSector
        \/ (PostArgs \/ PostCmd) /\ pend.cmd # "quit"
        \/ Wait /\ mail.status = 1 /\ pc' = after /\ pend' = pend
        \/ Digests /\ pc' \in {"diff", "stage next"} /\ pend' = pend
        \/ AllPosted /\ pc' = "diff" /\ pend' = pend
    BY <1>0, <1>3, <2>0, HostSteps
  <2>2. ~StubBegin /\ ~DiffRange /\ ~Digests /\ ~AllPosted
    BY <1>0, <1>1 DEF StubBegin, DiffRange, Digests, AllPosted, At, MakesList, Diffing, Following, Listed, ChangedPcs, StubPcs
  <2>3. CASE StageNext
    <3>1. pc = "stage next" /\ k' = k /\ p = k - 2
      BY <2>3 DEF StageNext, At, locals, Past, Diffing, CrcPost, CrcWait, Posting
    <3>2. CASE k > 1
      <4>1. pc' = "wait" /\ after' = "post"
        BY <2>3, <3>2 DEF StageNext, Goto
      <4>2. q = k - 2
        BY <3>1, <4>1 DEF Past, Diffing, CrcPost, CrcWait, Posting
      <4> QED BY <3>1, <4>2
    <3>3. CASE ~(k > 1)
      <4>1. pc' = "post"
        BY <2>3, <3>3 DEF StageNext, Goto
      <4>2. q = k - 1
        BY <3>1, <4>1 DEF Past, Diffing, CrcPost, CrcWait, Posting
      <4> QED BY <1>0, <3>3, <4>2
    <3> QED BY <3>2, <3>3
  <2>4. CASE PostSector
    <3>1. pc = "post" /\ p = k - 1
      BY <2>4 DEF PostSector, At, Past, Diffing, CrcPost, CrcWait, Posting
    <3>2. pc' = "args" /\ pend'.cmd = "program" /\ pend'.then = IF k < Len(changed) THEN "stage next" ELSE "wait"
      BY <2>4, PostIs, Zenon DEF PostSector
    <3>3. k' = IF k < Len(changed) THEN k + 1 ELSE k
      BY <2>4 DEF PostSector
    <3>4. q = k - 1
      <4>1. ~Diffing' /\ pc' \notin {"crc verify", "verified", "stage next", "wait"} /\ Posting'
        BY <3>2 DEF Diffing, CrcPost, CrcWait, Posting
      <4>2. q = IF pend'.then = "stage next" THEN k' - 2 ELSE k' - 1
        BY <4>1 DEF Past
      <4>3. CASE k < Len(changed)
        <5>1. q = k' - 2 /\ k' = k + 1
          BY <3>2, <3>3, <4>2, <4>3, Zenon
        <5> QED BY <1>0, <5>1
      <4>4. CASE ~(k < Len(changed))
        <5>1. q = k' - 1 /\ k' = k
          BY <3>2, <3>3, <4>2, <4>4
        <5> QED BY <1>0, <5>1
      <4> QED BY <4>3, <4>4
    <3> QED BY <3>1, <3>4
  <2>5. CASE PostArgs /\ pend.cmd # "quit"
    <3>1. Posting /\ Posting' /\ UNCHANGED <<k, pend, after>> /\ pc' = "cmd" /\ pc = "args"
      BY <2>5 DEF PostArgs, At, Goto, locals, Posting
    <3>2. q = Past
      BY <3>1 DEF Past, Diffing, CrcPost, CrcWait
    <3> QED BY <3>2
  <2>6. CASE PostCmd /\ pend.cmd # "quit"
    <3>1. Posting /\ UNCHANGED <<k, pend, after>> /\ pc' = pend.then /\ pc = "cmd"
      BY <2>6 DEF PostCmd, At, Goto, locals, Posting
    <3>2. pend.cmd = "program"
      BY <1>0, <1>1, <2>6, <3>1 DEF MailInv, MailTypes, Pends, Commands, Diffing, CrcPost
    <3>3. pend.then \in {"wait", "stage next"} /\ after = "verified"
      BY <1>0, <3>1, <3>2 DEF MailInv
    <3>4. CASE pend.then = "stage next"
      BY <3>1, <3>2, <3>4 DEF Past, Diffing, CrcPost, CrcWait, Posting
    <3>5. CASE pend.then = "wait"
      BY <3>1, <3>2, <3>3, <3>5 DEF Past, Diffing, CrcPost, CrcWait, Posting
    <3> QED BY <3>3, <3>4, <3>5
  <2>7. CASE Wait /\ mail.status = 1 /\ pc' = after /\ pend' = pend
    <3>1. pc = "wait" /\ Idle /\ k' = k /\ UNCHANGED flash
      BY <1>0, <2>7 DEF Wait, At, locals, MailInv, target
    <3>2. after \in {"post", "verified"}
      BY <1>0, <1>1, <3>1 DEF MailInv, MailTypes, Diffing, CrcWait
    <3>3. Ahead
      BY <3>1, <3>2 DEF Ahead
    <3>4. CASE after = "post"
      <4>1. p = k - 2 /\ Latest = k - 1
        BY <3>1, <3>4 DEF Past, Latest, Diffing, CrcPost, CrcWait, Posting
      <4>2. q = k - 1
        BY <2>7, <3>1, <3>4 DEF Past, Diffing, CrcPost, CrcWait, Posting
      <4>3. i = k - 1
        BY <1>0, <4>1, <4>2
      <4> QED BY <3>1, <3>3, <4>1, <4>3
    <3>5. CASE after = "verified"
      <4>1. p = k - 1 /\ Latest = k /\ k = Len(changed)
        BY <3>1, <3>5 DEF Past, Latest, Diffing, CrcPost, CrcWait, Posting, AheadInv
      <4>2. i = k
        BY <1>0, <4>1
      <4> QED BY <3>1, <3>3, <4>1, <4>2
    <3> QED BY <3>2, <3>4, <3>5
  <2> QED BY <2>1, <2>2, <2>3, <2>4, <2>5, <2>6, <2>7
<1>4. CASE StubNext
  <2>1. UNCHANGED <<k, pc, pend, after, changed>>
    BY <1>4, StubRests
  <2>2. q = Past
    BY <2>1 DEF Past, Diffing, CrcPost, CrcWait, Posting
  <2> QED BY <2>2
<1> QED BY <1>2, <1>3, <1>4 DEF Next

\* A sector the ROM has programmed holds the image.
LEMMA RomWrites ==
  ASSUME FlashInv, CalmInv, ReadInv, Overwrite \/ WriteSector, faults = 0, faults' = 0, NEW s, s = This
  PROVE  Sector(s)' = ImageSector(op, s)
<1>0. ControlInv /\ DataInv /\ JobInv /\ ListInv /\ StepInv /\ op # None
  BY DEF FlashInv, Overwrite, WriteSector, At
<1>1. pc \in ChangedPcs /\ pc \in {"overwrite", "write"} /\ ~protected
  BY DEF Overwrite, WriteSector, At, ChangedPcs, CalmInv
<1>2. s \in FlashSectors /\ Img \in Contents /\ Img = ImageSector(op, s)
  BY <1>0, <1>1, ImgIs DEF Img
<1>3. CASE Overwrite
  <2>1. crcs = Sector(s) /\ \A i \in 1..W : Img[i] \subseteq Sector(s)[i]
    BY <1>3 DEF ReadInv, Overwrite, At
  <2>2. PICK w0 \in 1..W, w1 \in 1..W :
          /\ \A i \in 1..W : Sector(s)[i] # Img[i] => w0 <= i /\ i <= w1
          /\ Sector(s)[w0] # Img[w0]
          /\ flash' \in AfterProgram("ok", This * W + w0 - 1, SubSeq(Img, w0, w1))
    BY <1>3, <2>1, NoFault DEF Overwrite
  <2>3. w0 <= w1
    BY <2>2
  <2>4. flash' \in AfterProgram("ok", s * W + w0 - 1, SubSeq(Img, w0, w1))
    BY <2>2
  <2>5. PICK words \in Contents : words = Img
    BY <1>2
  <2>6. Sector(s)' = words
    BY <1>0, <1>1, <1>2, <2>1, <2>2, <2>3, <2>4, <2>5, RunWritten
  <2> QED BY <1>2, <2>5, <2>6
<1>4. CASE WriteSector
  <2>1. flash' \in AfterProgram("ok", s * W, Img) /\ Blank(s)
    BY <1>0, <1>2, <1>4, NoFault DEF WriteSector, At, ReadInv, StepInv, This
  <2>2. PICK words \in Contents : words = Img
    BY <1>2
  <2>3. Sector(s)' = words
    BY <1>0, <1>1, <1>2, <2>1, <2>2, BlankWritten
  <2> QED BY <1>2, <2>2, <2>3
<1> QED BY <1>3, <1>4

\* A list that is made names each sector once, and those that differ.
LEMMA ListMade ==
  ASSUME FlashInv, ReadInv, Next, faults = 0, faults' = 0, op # None, op' = op, Listed', MakesList
  PROVE  /\ \A i, j \in DOMAIN changed' : changed'[i] = changed'[j] => i = j
         /\ \A s \in Covered(op) : (\A i \in DOMAIN changed' : changed'[i] # s)
              => Sector(s)' = ImageSector(op, s)
         /\ k' = 1 /\ pc' \in {"sector", "stage next"} /\ DOMAIN changed' \subseteq Nat \ {0}
<1>0. ControlInv /\ DataInv /\ JobInv /\ MailInv /\ DigestInv /\ op' # None /\ op \in Ops
  BY DEF FlashInv, ControlInv
<1>1. PICK S : /\ S \subseteq Covered(op) /\ S # {} /\ flash' = flash
               /\ changed' \in Ascending(S) /\ k' = 1 /\ pc' \in {"sector", "stage next"}
               /\ \A s \in Covered(op) \ S : Sector(s) = ImageSector(op, s)
  <2>1. CASE CrcNext
    <3> DEFINE digests == Append(crcs, buf'["A"])
               S == Differing(digests)
    <3>1. ~(k < LastSector(op)) /\ S # {} /\ changed' \in Ascending(S) /\ k' = 1 /\ pc' = "sector"
      BY <1>0, <2>1 DEF CrcNext, Listed, ChangedPcs, StubPcs, Goto, Return, At
    <3> HIDE DEF digests
    <3>2. flash' = flash /\ \A s \in Covered(op) \ S : Sector(s) = ImageSector(op, s)
      BY <2>1, <3>1, CrcClean DEF digests
    <3>3. S \subseteq Covered(op)
      BY DEF Differing
    <3> QED BY <3>1, <3>2, <3>3
  <2>2. CASE Digests /\ pc' = "stage next"
    <3> DEFINE S == Bad(AllDigests)
    <3>1. UNCHANGED flash /\ ~(k + Range1 <= LastSector(op)) /\ S # {} /\ changed' \in Ascending(S) /\ k' = 1
      BY <2>2 DEF Digests, Quit, Post, Goto, Bad, AllDigests, target
    <3>2. pc = "digests"
      BY <2>2 DEF Digests, At
    <3>3. \A s \in Covered(op) \ S : Sector(s) = ImageSector(op, s)
      BY <1>0, <3>1, <3>2, DigestsAre
    <3>4. S \subseteq Covered(op)
      BY DEF Bad
    <3> HIDE DEF S
    <3> QED BY <2>2, <3>1, <3>3, <3>4
  <2> QED BY <2>1, <2>2 DEF MakesList
<1> DEFINE seq == changed'
<1>2. /\ \A s \in S : \E i \in DOMAIN seq : seq[i] = s
      /\ seq \in Seq(S) /\ \A i, j \in DOMAIN seq : i < j => seq[i] < seq[j]
  <2>1. seq \in Ascending(S)
    BY <1>1
  <2>2. S \subseteq Covered(op) /\ S # {}
    BY <1>1
  <2> HIDE DEF seq
  <2>3. seq \in Seq(S)
    BY <1>0, <2>1, <2>2, AscendingIs, Zenon
  <2> QED BY <2>1, <2>3, Zenon DEF Ascending
<1>3. S \subseteq Nat
  <2>1. Covered(op) \subseteq 0..(Sectors - 1)
    BY <1>0, ImageIs
  <2>2. 0..(Sectors - 1) \subseteq Nat
    BY Sizes
  <2> QED BY <1>1, <2>1, <2>2
<1>4. /\ \A i, j \in DOMAIN seq : seq[i] = seq[j] => i = j
      /\ DOMAIN seq \subseteq Nat \ {0}
  <2> HIDE DEF seq
  <2>1. DOMAIN seq = 1..Len(seq) /\ Len(seq) \in Nat /\ \A i \in DOMAIN seq : seq[i] \in Nat
    BY <1>2, <1>3, LenProperties
  <2>2. ASSUME NEW i \in DOMAIN seq, NEW j \in DOMAIN seq, seq[i] = seq[j] PROVE i = j
    <3>1. i \in Nat /\ j \in Nat
      BY <2>1
    <3>2. ~(i < j) /\ ~(j < i)
      BY <1>2, <2>1, <2>2
    <3> QED BY <3>1, <3>2
  <2> QED BY <2>1, <2>2
<1>5. \A s : Sector(s)' = Sector(s)
  BY <1>1 DEF Sector, Content
<1> QED BY <1>1, <1>2, <1>4, <1>5

\* Every step keeps what has been written of the list, and what is not on it, the image.
LEMMA DoneStep ==
  ASSUME FlashInv, CalmInv, AheadInv, DoneInv, ReadInv, Next, faults = 0, faults' = 0
  PROVE  DoneInv'
<1>0. ControlInv /\ DataInv /\ JobInv /\ ListInv /\ MailInv
  BY DEF FlashInv
<1> SUFFICES ASSUME Following'
             PROVE  /\ \A i, j \in DOMAIN changed' : changed'[i] = changed'[j] => i = j
                    /\ \A s \in Covered(op)' : (\A i \in DOMAIN changed' : changed'[i] # s)
                         => Sector(s)' = ImageSector(op', s)
                    /\ \A i \in DOMAIN changed' : i <= Past'
                         => Sector(changed[i])' = ImageSector(op', changed'[i])
  BY DEF DoneInv, Written, ImageSector
<1>1. op # None /\ op' = op /\ op \in Ops
  <2>1. op' # None /\ pc' # "gate"
    BY <1>0, Inductive DEF Following, Listed, ChangedPcs, StubPcs, FlashInv, ControlInv
  <2>2. op # None
    BY <1>0, <2>1, NoOperation DEF Start, Host
  <2> QED BY <1>0, <2>1, <2>2, SameJob DEF ControlInv
<1>2. Covered(op)' = Covered(op)
  BY <1>1 DEF Covered, FirstSector, LastSector
<1>3. Listed' /\ ~Quitting'
  BY DEF Following
<1>4. CASE MakesList
  <2>1. /\ \A i, j \in DOMAIN changed' : changed'[i] = changed'[j] => i = j
        /\ \A s \in Covered(op) : (\A i \in DOMAIN changed' : changed'[i] # s)
             => Sector(s)' = ImageSector(op, s)
        /\ k' = 1 /\ pc' \in {"sector", "stage next"} /\ DOMAIN changed' \subseteq Nat \ {0}
    BY <1>1, <1>3, <1>4, ListMade
  <2>2. Past' = k' - 1 \/ Past' = k' - 2
    BY <2>1 DEF Past, Diffing, CrcPost, CrcWait, Posting
  <2>3. PICK p \in Int : p = Past' /\ p <= 0
    <3>1. k' = 1
      BY <2>1
    <3>2. Past' = 1 - 1 \/ Past' = 1 - 2
      BY <2>2, <3>1, Zenon
    <3>3. 1 - 1 \in Int /\ 1 - 2 \in Int /\ 1 - 1 <= 0 /\ 1 - 2 <= 0
      OBVIOUS
    <3> QED BY <3>2, <3>3, Zenon
  <2>4. \A i \in DOMAIN changed' : ~(i <= p)
    <3>1. \A i \in Nat \ {0} : ~(i <= p)
      BY <2>3
    <3> QED BY <2>1, <3>1, Zenon
  <2> QED BY <1>1, <1>2, <2>1, <2>3, <2>4
<1>5. CASE ~MakesList
  <2>1. Listed /\ changed' = changed
    <3>1. ~CrcNext /\ ~(Digests /\ pc' = "stage next")
      BY <1>5 DEF MakesList
    <3> QED BY <1>0, <1>1, <1>3, <3>1, ListedStep
  <2>2. Following
    BY <1>1, <1>3, <2>1, QuitsOn DEF Following
  <2>3. /\ Past \in Int /\ DOMAIN changed = 1..Len(changed) /\ Len(changed) \in Nat
        /\ \A s : Settled(s) => Sector(s)' = Sector(s)
    BY <1>1, <2>2, SettledKept
  <2>4. /\ \A i, j \in DOMAIN changed : changed[i] = changed[j] => i = j
        /\ \A s \in Covered(op) : (\A i \in DOMAIN changed : changed[i] # s) => Sector(s) = ImageSector(op, s)
        /\ \A i \in DOMAIN changed : i <= Past => Sector(changed[i]) = ImageSector(op, changed[i])
    BY <2>2 DEF DoneInv, Written
  <2>5. ASSUME NEW s \in Covered(op), \A i \in DOMAIN changed : changed[i] # s
        PROVE  Sector(s)' = ImageSector(op, s)
    BY <2>3, <2>4, <2>5 DEF Settled
  <2>6. ASSUME NEW i \in DOMAIN changed, i <= Past', NEW s, s = changed[i]
        PROVE  Sector(s)' = ImageSector(op, s)
    <3>1. CASE i <= Past
      BY <2>3, <2>4, <2>6, <3>1 DEF Settled
    <3>2. CASE ~(i <= Past)
      <4>1. Past' \in Int
        <5>1. k' \in Nat /\ Len(changed') \in Nat
          BY <2>1, <2>3, Inductive DEF FlashInv, DataInv
        <5>2. k' - 1 \in Int /\ k' - 2 \in Int /\ Len(changed') \in Int
          BY <5>1
        <5>3. Past' \in {Len(changed'), k' - 1, k' - 2}
          BY DEF Past
        <5> QED BY <5>2, <5>3, Zenon
      <4>2. PICK n \in Nat : n = Len(changed)
        BY <2>3
      <4>3. PICK p \in Int : p = Past
        BY <2>3
      <4>4. PICK q \in Int : q = Past'
        BY <4>1
      <4>5. i \in 1..n /\ ~(i <= p) /\ i <= q
        BY <2>3, <2>6, <3>2, <4>2, <4>3, <4>4
      <4>6. \/ (Overwrite \/ WriteSector) /\ i = k
            \/ Ahead /\ Idle /\ i = Latest /\ UNCHANGED flash
        BY <1>1, <1>5, <2>1, <2>2, <4>2, <4>3, <4>4, <4>5, PastGrows
      <4>7. CASE (Overwrite \/ WriteSector) /\ i = k
        BY <2>6, <4>7, RomWrites DEF This
      <4>8. CASE Ahead /\ Idle /\ i = Latest /\ UNCHANGED flash
        <5>1. Sector(s) = ImageSector(op, s)
          BY <2>6, <4>8 DEF AheadInv, Sent, Written
        <5> QED BY <4>8, <5>1, KeptSector
      <4> QED BY <4>6, <4>7, <4>8
    <3> QED BY <3>1, <3>2
  <2> QED BY <1>1, <1>2, <2>1, <2>4, <2>5, <2>6
<1> QED BY <1>4, <1>5

\* A command to program that is being posted is for the last sector, or the one before.
LEMMA AheadPosted ==
  ASSUME FlashInv, CalmInv, AheadInv, Next, Posting', pend'.cmd = "program"
  PROVE  /\ pend'.args.at = changed'[IF pend'.then = "stage next" THEN k' - 1 ELSE k']
         /\ k' \in 1..Len(changed') /\ (pend'.then = "wait" => k' = Len(changed'))
<1>0. ControlInv /\ ListInv /\ MailInv
  BY DEF FlashInv
<1>1. HostNext \/ StubNext
  <2>1. ByRom => pc' \notin StubPcs
    BY <1>0, StubOff
  <2> QED BY <2>1 DEF Next, Posting, StubPcs
<1>2. CASE Posting /\ UNCHANGED <<pend, k, changed>>
  BY <1>2 DEF AheadInv
<1>3. CASE PostSector
  <2>1. pc \in ChangedPcs /\ pc = "post"
    BY <1>3 DEF PostSector, At, ChangedPcs
  <2>2. k \in 1..Len(changed) /\ changed' = changed
    BY <1>0, <1>3, <2>1 DEF ListInv, PostSector
  <2>3. Len(changed) \in Nat
    BY <1>0, <2>1, LenProperties DEF ListInv, Listed
  <2>4. /\ pend'.args = [NoArgs EXCEPT !.at = This, !.buf = Buffer(k)]
        /\ pend'.then = IF k < Len(changed) THEN "stage next" ELSE "wait"
        /\ k' = IF k < Len(changed) THEN k + 1 ELSE k
    BY <1>3, PostIs, Zenon DEF PostSector
  <2>5. pend'.args.at = changed[k]
    BY <2>4 DEF NoArgs, This
  <2>6. CASE k < Len(changed)
    <3>1. pend'.then = "stage next" /\ k' = k + 1
      BY <2>4, <2>6, Zenon
    <3>2. k + 1 \in 1..Len(changed) /\ (k + 1) - 1 = k
      BY <2>2, <2>3, <2>6
    <3>3. k' - 1 = k
      BY <3>1, <3>2, Zenon
    <3> QED BY <2>2, <2>5, <3>1, <3>2, <3>3, Zenon
  <2>7. CASE ~(k < Len(changed))
    <3>1. pend'.then = "wait" /\ k' = k
      BY <2>4, <2>7, Zenon
    <3>2. k = Len(changed)
      BY <2>2, <2>3, <2>7
    <3> QED BY <2>2, <2>5, <3>1, <3>2
  <2> QED BY <2>6, <2>7
<1> QED BY <1>0, <1>1, <1>2, <1>3, PostingStep

\* How the host comes to have a sector ahead of it.
LEMMA AheadFrom ==
  ASSUME FlashInv, Next, Ahead'
  PROVE  \/ PostCmd /\ pend.cmd = "program"
         \/ StageNext /\ k > 1 /\ pc' = "wait" /\ after' = "post"
         \/ StubNext /\ Ahead /\ Latest' = Latest
<1>0. ControlInv /\ ListInv /\ MailInv
  BY DEF FlashInv
<1>1. CASE ByRom
  <2>1. pc' \notin StubPcs
    BY <1>0, <1>1, StubOff
  <2> QED BY <2>1 DEF Ahead, StubPcs
<1>2. CASE StubNext
  BY <1>2, StubRests DEF Ahead, Latest
<1>3. CASE HostNext
  <2>1. pc' \in {"stage next", "wait"} /\ (pc' = "wait" => after' # "digests") /\ (pc' = "stage next" => k' > 1)
    BY DEF Ahead
  <2>2. \/ StubBegin \/ DiffRange \/ StageNext \/ PostSector
        \/ (PostArgs \/ PostCmd) /\ pend.cmd # "quit"
        \/ Wait /\ mail.status = 1 /\ pc' = after /\ pend' = pend
        \/ Digests /\ pc' \in {"diff", "stage next"} /\ pend' = pend
        \/ AllPosted /\ pc' = "diff" /\ pend' = pend
    BY <1>0, <1>3, <2>1, HostSteps
  <2>3. ~StubBegin /\ ~DiffRange /\ ~PostSector /\ ~PostArgs /\ ~AllPosted
    <3>1. DiffRange \/ PostSector => pc' = "args"
      BY PostIs, Zenon DEF DiffRange, PostSector
    <3>2. AllPosted /\ pc' = "diff" => FALSE
      BY <2>1
    <3> QED BY <2>1, <2>2, <3>1, <3>2 DEF StubBegin, PostArgs, Goto, AllPosted, Quit, Post
  <2>4. ~(Wait /\ pc' = after)
    BY <1>0, <2>1 DEF MailInv, MailTypes
  <2>5. ~(Digests /\ pc' \in {"diff", "stage next"})
    <3>1. Digests /\ pc' = "stage next" => k' = 1
      BY DEF Digests, Quit, Post, Goto
    <3>2. ~(1 > 1)
      OBVIOUS
    <3> QED BY <2>1, <3>1, <3>2
  <2>6. CASE StageNext
    BY <2>1, <2>6 DEF StageNext, Goto
  <2>7. CASE PostCmd /\ pend.cmd # "quit"
    <3>1. pc = "cmd" /\ pc' = pend.then /\ after' = after
      BY <2>7 DEF PostCmd, At, Goto
    <3>2. pend.cmd # "crc"
      BY <1>0, <2>1, <3>1 DEF MailInv, Posting
    <3> QED BY <1>0, <2>7, <3>2 DEF MailInv, MailTypes, Pends, Commands
  <2> QED BY <2>2, <2>3, <2>4, <2>5, <2>6, <2>7
<1> QED BY <1>1, <1>2, <1>3 DEF Next

\* What the host sends is what the stub works on.
LEMMA SentByHost ==
  ASSUME FlashInv, CalmInv, AheadInv, (PostCmd /\ pend.cmd = "program") \/ (StageNext /\ k > 1 /\ pc' = "wait" /\ after' = "post")
  PROVE  Sent'
<1>0. ControlInv /\ ListInv /\ MailInv /\ FlightInv
  BY DEF FlashInv
<1>1. CASE StageNext /\ k > 1 /\ pc' = "wait" /\ after' = "post"
  <2>1. Ahead /\ Latest = k - 1 /\ Latest' = k - 1 /\ UNCHANGED <<mail, stub, changed, flash, op>>
    BY <1>1 DEF StageNext, At, Ahead, Latest, locals, Goto
  <2>2. Latest' = Latest
    BY <2>1
  <2>3. Sent
    BY <2>1 DEF AheadInv
  <2> QED BY <2>1, <2>2, <2>3 DEF Sent, Programming, Idle, Written, Blank, Sector, Content, ImageSector
<1>2. CASE PostCmd /\ pend.cmd = "program"
  <2>1. pc = "cmd" /\ Posting /\ UNCHANGED <<stub, k, changed, after>> /\ pc' = pend.then
    BY <1>2 DEF PostCmd, At, Goto, Posting, locals
  <2>2. Idle /\ mail.args = pend.args /\ pend.then \in {"wait", "stage next"} /\ after = "verified"
    BY <1>0, <1>2, <2>1 DEF MailInv
  <2>3. mail'.cmd = "program" /\ mail'.args = pend.args
    BY <1>0, <1>2, <2>2 DEF PostCmd, MailInv, MailTypes, Mails
  <2>4. Latest' = IF pend.then = "stage next" THEN k - 1 ELSE k
    BY <2>1, <2>2 DEF Latest
  <2>5. pend.args.at = changed[IF pend.then = "stage next" THEN k - 1 ELSE k]
    BY <1>2, <2>1 DEF AheadInv
  <2>6. stub'.pc = "poll"
    BY <2>1, <2>2 DEF Idle
  <2> QED BY <2>1, <2>3, <2>4, <2>5, <2>6 DEF Sent, Programming, Idle
<1> QED BY <1>1, <1>2

\* The stub takes a sector from the mailbox, erases it, and writes the image.
LEMMA SentByStub ==
  ASSUME FlashInv, CalmInv, AheadInv, faults = 0, faults' = 0, StubNext, Ahead, Latest' = Latest
  PROVE  Sent'
<1>0. ControlInv /\ DataInv /\ JobInv /\ ListInv /\ MailInv /\ MailTypes /\ FlightInv /\ Sent
      /\ mail \in Mails /\ stub \in Stubs
  BY DEF FlashInv, AheadInv, MailInv, MailTypes
<1>1. /\ UNCHANGED <<pc, op, changed, job>> /\ op \in Ops /\ op # None /\ op.kind = "incremental"
      /\ ~Idle
  BY <1>0, StubServes, StubRests
<1>2. PICK s : s = changed[Latest]
  OBVIOUS
<1>3. changed'[Latest'] = s /\ ImageSector(op, s)' = ImageSector(op, s)
  BY <1>1, <1>2 DEF ImageSector
<1>4. pc \in {"stage next", "wait"} /\ mail.cmd # "quit" /\ ~Quitting /\ ~Digesting
  <2>1. pc \in {"stage next", "wait"}
    BY DEF Ahead
  <2>2. ~Quitting
    BY <2>1 DEF Quitting, Posting
  <2>3. ~(pc = "wait" /\ after = "digests")
    BY DEF Ahead
  <2> QED BY <1>0, <1>1, <2>1, <2>2, <2>3 DEF MailInv, FlightInv
<1> SUFFICES /\ mail'.cmd = "program" => mail'.args.at = s
             /\ Programming' => stub'.args.at = s
             /\ stub'.pc = "write" => Blank(s)'
             /\ stub'.pc \in {"report", "reported"} \/ Idle' => Sector(s)' = ImageSector(op, s)
  BY <1>3 DEF Sent, Written, Blank, Sector, Content
<1>5. /\ mail.cmd = "program" => mail.args.at = s
      /\ Programming => stub.args.at = s
      /\ stub.pc = "write" => Blank(s)
      /\ stub.pc \in {"report", "reported"} => Sector(s) = ImageSector(op, s)
  BY <1>0, <1>2 DEF Sent, Written
<1>6. CASE Fetch
  <2>1. mail.cmd = "program" /\ mail'.cmd = "idle" /\ stub'.pc = "unlock" /\ stub'.args = mail.args
    BY <1>0, <1>4, <1>6, FetchIs DEF Digesting
  <2> QED BY <1>5, <2>1 DEF Idle
<1>7. ~CrcSector
  BY <1>4 DEF CrcSector, Running, Digesting
<1>8. ASSUME StubUnlock \/ StubErase \/ StubWrite
      PROVE  /\ Programming /\ stub.args.at = s /\ stub'.args.at = s /\ mail'.cmd # "program"
             /\ s \in FlashSectors /\ ~Idle'
  <2>1. Programming /\ stub'.args = stub.args /\ mail' = mail /\ stub'.pc \in {"erase", "write", "report", "stuck"}
    BY <1>0, <1>8, RomCallIs
  <2>2. mail.cmd # "program"
    BY <1>0, <2>1 DEF MailInv, Programming
  <2>3. s \in job.sectors /\ stub.args.at = s
    BY <1>0, <1>5, <2>1 DEF FlightInv, Carried
  <2>4. job.sectors \subseteq FlashSectors
    BY <1>0, <1>1, Working
  <2> QED BY <2>1, <2>2, <2>3, <2>4 DEF Idle
<1>9. CASE StubUnlock
  <2>1. stub' = [stub EXCEPT !.pc = "erase"]
    BY <1>9, NoFault DEF StubUnlock, Step
  <2>2. stub'.pc = "erase"
    BY <1>0, <2>1 DEF Stubs
  <2> QED BY <1>8, <1>9, <2>2
<1>10. CASE StubErase
  <2>1. stub' = [stub EXCEPT !.pc = "write"] /\ flash' \in AfterErase("ok", {stub.args.at}) /\ ~protected
    BY <1>10, NoFault DEF StubErase, Step, Running, CalmInv
  <2>2. stub'.pc = "write"
    BY <1>0, <2>1 DEF Stubs
  <2>3. Blank(s)'
    BY <1>0, <1>8, <1>10, <2>1, EraseBlanks
  <2> QED BY <1>8, <1>10, <2>2, <2>3
<1>11. CASE StubWrite
  <2>1. /\ stub' = [stub EXCEPT !.pc = "report"] /\ ~protected /\ stub.pc = "write"
        /\ flash' \in AfterProgram("ok", stub.args.at * W, buf[stub.args.buf])
    BY <1>11, NoFault DEF StubWrite, Step, Running, CalmInv
  <2>2. stub'.pc = "report"
    BY <1>0, <2>1 DEF Stubs
  <2>3. stub.args.buf \in {"A", "B"} /\ Carries(buf[stub.args.buf], s)
    BY <1>0, <1>8, <1>11 DEF FlightInv, Carried
  <2>4. PICK words \in Contents : words = buf[stub.args.buf]
    BY <1>0, <2>3 DEF DataInv
  <2>5. Sector(s)' = words
    BY <1>0, <1>5, <1>8, <1>11, <2>1, <2>4, BlankWritten
  <2>6. \A i \in 1..W : words[i] = Image(op)[s * W + i - 1]
    BY <1>0, <1>1, <2>3, <2>4 DEF Carries, JobInv
  <2>7. words = ImageSector(op, s)
    <3>1. words = [i \in 1..W |-> words[i]]
      BY DEF Contents
    <3> QED BY <2>6, <3>1 DEF ImageSector
  <2> QED BY <1>8, <1>11, <2>2, <2>5, <2>7
<1>12. CASE ReportErr \/ ReportStatus
  <2>1. stub.pc \in {"report", "reported"} /\ stub'.pc \in {"reported", "poll"} /\ mail'.cmd = mail.cmd
        /\ UNCHANGED flash
    BY <1>0, <1>12, ReportIs DEF ReportErr, ReportStatus
  <2>2. mail.cmd # "program"
    BY <1>0, <2>1 DEF MailInv
  <2>3. Sector(s)' = ImageSector(op, s)
    BY <1>5, <2>1, KeptSector
  <2> QED BY <2>1, <2>2, <2>3 DEF Programming
<1> QED BY <1>6, <1>7, <1>9, <1>10, <1>11, <1>12 DEF StubNext

\* Every step keeps what is on its way to the stub the latest sector of the list.
LEMMA AheadStep ==
  ASSUME FlashInv, CalmInv, AheadInv, Next, faults = 0, faults' = 0
  PROVE  AheadInv'
<1>0. ControlInv /\ ListInv /\ MailInv
  BY DEF FlashInv
<1>1. Posting' /\ pend'.cmd = "program" =>
        /\ pend'.args.at = changed'[IF pend'.then = "stage next" THEN k' - 1 ELSE k']
        /\ k' \in 1..Len(changed') /\ (pend'.then = "wait" => k' = Len(changed'))
  BY AheadPosted
<1>2. Ahead' => Sent'
  BY AheadFrom, SentByHost, SentByStub
<1>3. ASSUME pc' = "wait", after' \in {"post", "verified"}
      PROVE  /\ after' = "verified" => k' \in 1..Len(changed') /\ k' = Len(changed')
             /\ after' = "post" => k' # 1
  <2>1. Ahead'
    BY <1>3 DEF Ahead
  <2>2. CASE PostCmd /\ pend.cmd = "program"
    <3>1. pc = "cmd" /\ pc' = pend.then /\ UNCHANGED <<k, changed, after>>
      BY <2>2 DEF PostCmd, At, Goto, locals
    <3>2. after = "verified" /\ k \in 1..Len(changed) /\ (pend.then = "wait" => k = Len(changed))
      BY <1>0, <2>2, <3>1 DEF MailInv, AheadInv, Posting
    <3> QED BY <1>3, <3>1, <3>2
  <2>3. CASE StageNext /\ k > 1 /\ pc' = "wait" /\ after' = "post"
    <3>1. k' = k
      BY <2>3 DEF StageNext, locals
    <3>2. k # 1
      <4>1. ~(1 > 1)
        OBVIOUS
      <4> QED BY <2>3, <4>1
    <3> QED BY <2>3, <3>1, <3>2
  <2>4. CASE StubNext
    BY <1>3, <2>4, StubRests DEF AheadInv
  <2> QED BY <2>1, <2>2, <2>3, <2>4, AheadFrom
<1> QED BY <1>1, <1>2, <1>3 DEF AheadInv

\* The image is in the flash when every sector it covers holds its part.
LEMMA SectorsExact ==
  ASSUME FlashInv, op # None, op.kind = "incremental", \A s \in Covered(op) : Sector(s) = ImageSector(op, s)
  PROVE  Array!Holds(flash, job)
<1>1. op \in Ops /\ job.image = Image(op)
  BY DEF FlashInv, ControlInv, JobInv
<1>2. \A a \in DOMAIN Image(op) : flash[a] = Image(op)[a]
  BY <1>1, HoldsBySector
<1> QED BY <1>1, <1>2 DEF Array!Holds

\* So it is when every sector on the list is written.
LEMMA ListExact ==
  ASSUME FlashInv, DoneInv, Following, op # None, \A i \in DOMAIN changed : Written(i)
  PROVE  Array!Holds(flash, job)
<1>1. op.kind = "incremental"
  BY DEF FlashInv, ControlInv, Following, Listed, ChangedPcs, RomPcs, StubPcs
<1>2. ASSUME NEW s \in Covered(op) PROVE Sector(s) = ImageSector(op, s)
  BY DEF DoneInv, Written
<1> QED BY <1>1, <1>2, SectorsExact

\* All of the list counts as written.
LEMMA PastExact ==
  ASSUME FlashInv, DoneInv, Following, op # None, Past = Len(changed)
  PROVE  Array!Holds(flash, job)
<1>1. changed \in Seq(job.sectors)
  BY DEF FlashInv, ListInv, Following
<1>2. DOMAIN changed = 1..Len(changed) /\ Len(changed) \in Nat
  BY <1>1, LenProperties
<1>3. \A i \in DOMAIN changed : i <= Len(changed)
  BY <1>2
<1>4. \A i \in DOMAIN changed : Written(i)
  BY <1>3 DEF DoneInv
<1> QED BY <1>4, ListExact

\* The digests of the sectors on the list are those of the image, or none differs.
LEMMA DigestsExact ==
  ASSUME FlashInv, DoneInv, Digests, ~(k + Range1 <= LastSector(op)),
         \/ verifying /\ ~(\E i \in DOMAIN changed : changed[i] \in Bad(AllDigests))
         \/ ~verifying /\ Bad(AllDigests) = {}
  PROVE  Array!Holds(flash, job)
<1>1. pc = "digests"
  BY DEF Digests, At
<1>2. /\ op \in Ops /\ op # None /\ op.kind = "incremental"
      /\ \A s \in Covered(op) \ Bad(AllDigests) : Sector(s) = ImageSector(op, s)
  BY <1>1, DigestsAre DEF FlashInv
<1>3. ASSUME NEW s \in Covered(op) PROVE Sector(s) = ImageSector(op, s)
  <2>1. CASE s \notin Bad(AllDigests)
    BY <1>2, <2>1
  <2>2. CASE s \in Bad(AllDigests)
    <3>1. verifying /\ \A i \in DOMAIN changed : changed[i] # s
      BY <2>2
    <3>2. Following
      BY <1>1, <3>1 DEF Following, Listed, StubPcs, Quitting, Posting
    <3> QED BY <1>3, <3>1, <3>2 DEF DoneInv
  <2> QED BY <2>1, <2>2
<1> QED BY <1>2, <1>3, SectorsExact

\* Every step keeps a try that has not failed one that ends with the image in the flash,
\* whether it has looked or not.
LEMMA ExactStep ==
  ASSUME FlashInv, DoneInv, ExactInv, Next
  PROVE  ExactInv'
<1>0. ControlInv /\ MailInv /\ ListInv
  BY DEF FlashInv
<1>1. CASE ByRom
  BY <1>0, <1>1, StubOff DEF ExactInv, Quitting, Posting, StubPcs
<1>2. ASSUME Quitting', ~failed', HostNext \/ StubNext
      PROVE  /\ Array!Holds(flash', job')
             /\ stub'.pc \in {"poll", "off"} /\ mail'.cmd \in {"idle", "quit"}
  <2>1. CASE Quitting /\ ~failed /\ job' = job /\ flash' = flash
    <3>1. /\ Array!Holds(flash, job)
          /\ stub.pc \in {"poll", "off"} /\ mail.cmd \in {"idle", "quit"}
      BY <1>2, <2>1 DEF ExactInv
    <3>2. Array!Holds(flash', job')
      BY <2>1, <3>1
    <3>3. CASE StubNext
      <4>1. Fetch
        BY <3>1, <3>3 DEF StubNext, CrcSector, StubUnlock, StubErase, StubWrite, ReportErr, ReportStatus, Running
      <4>2. mail'.cmd = "idle" /\ stub'.pc = "off"
        BY <1>0, <3>1, <4>1, FetchIs DEF MailInv
      <4> QED BY <3>2, <4>2
    <3>4. CASE PostArgs
      <4>1. mail'.cmd = mail.cmd /\ stub' = stub
        BY <1>0, <3>4 DEF PostArgs, MailInv, MailTypes, Mails
      <4> QED BY <3>1, <3>2, <4>1
    <3>5. CASE PostCmd
      <4>1. mail'.cmd = pend.cmd /\ stub' = stub
        BY <1>0, <3>5 DEF PostCmd, MailInv, MailTypes, Mails
      <4>2. pend.cmd = "quit"
        BY <2>1 DEF Quitting
      <4> QED BY <3>1, <3>2, <4>1, <4>2
    <3>6. CASE HostNext /\ ~PostArgs /\ ~PostCmd
      <4>1. pc \in {"args", "cmd", "trap"} /\ pend.cmd = "quit"
        BY <2>1 DEF Quitting, Posting
      <4>2. EndRaises \/ Trapped \/ TrapExpires
        BY <3>6, <4>1 DEF HostNext, StubBegin, StubBeginRaises, Wait, WaitExpires, TryRaises, DiffRange, Digests,
          StageNext, PostSector, AllPosted, At
      <4>3. pc' = "idle"
        BY <4>2 DEF EndRaises, Trapped, TrapExpires, Return
      <4> QED BY <1>2, <4>3 DEF Quitting, Posting
    <3> QED BY <1>2, <3>3, <3>4, <3>5, <3>6
  <2>2. CASE Digests
    <3>1. pc = "digests" /\ op # None /\ Idle /\ UNCHANGED <<flash, job, mail, stub>>
      <4>1. pc = "digests" /\ op # None /\ UNCHANGED <<flash, mail, stub>>
        BY <2>2 DEF Digests, At, target
      <4>2. job' = job
        BY <1>0, <4>1, SameJob
      <4> QED BY <1>0, <4>1, <4>2 DEF MailInv
    <3>2. k + Range1 <= LastSector(op) => pc' = "diff"
      BY <2>2 DEF Digests, Goto
    <3>3. ~(k + Range1 <= LastSector(op))
      BY <1>2, <3>2 DEF Quitting, Posting
    <3>4. verifying => Quit(\E i \in DOMAIN changed : changed[i] \in Bad(AllDigests))
      BY <2>2, <3>3, Zenon DEF Digests, Bad, AllDigests
    <3>5. ~verifying /\ Bad(AllDigests) # {} => pc' = "stage next"
      BY <2>2, <3>3, Zenon DEF Digests, Bad, AllDigests, Goto
    <3>6. ~verifying => Bad(AllDigests) = {}
      BY <1>2, <3>5 DEF Quitting, Posting
    <3>7. verifying => ~(\E i \in DOMAIN changed : changed[i] \in Bad(AllDigests))
      BY <1>2, <3>4, Zenon DEF Quit
    <3>8. Array!Holds(flash, job)
      BY <2>2, <3>3, <3>6, <3>7, DigestsExact
    <3>9. Array!Holds(flash', job')
      BY <3>1, <3>8
    <3> QED BY <3>1, <3>9 DEF Idle
  <2>3. CASE AllPosted
    <3>1. pc = "verified" /\ op # None /\ job' = job /\ UNCHANGED <<flash, mail, stub>>
      BY <1>0, <2>3, SameJob DEF AllPosted, At, target
    <3>2. after = "verified" /\ Idle
      BY <1>0, <3>1 DEF MailInv
    <3>3. Following /\ Past = Len(changed)
      BY <3>1, <3>2 DEF Following, Listed, StubPcs, Quitting, Posting, Past
    <3>4. Array!Holds(flash, job)
      BY <3>1, <3>3, PastExact
    <3>5. Array!Holds(flash', job')
      BY <3>1, <3>4
    <3> QED BY <3>1, <3>2, <3>5 DEF Idle
  <2>4. CASE StubNext
    <3>1. Quitting /\ ~failed /\ job' = job
      <4>1. UNCHANGED <<pc, pend, failed, job>>
        BY <2>4, StubRests
      <4>2. Quitting
        BY <1>2, <4>1 DEF Quitting, Posting
      <4>3. failed' = failed
        BY <4>1
      <4>4. ~failed
        BY <1>2, <4>3, Zenon
      <4> QED BY <4>1, <4>2, <4>4
    <3>2. stub.pc \in {"poll", "off"}
      BY <3>1 DEF ExactInv
    <3>3. flash' = flash
      BY <2>4, <3>2 DEF StubNext, Fetch, CrcSector, StubUnlock, StubErase, StubWrite, ReportErr, ReportStatus, Running
    <3> QED BY <2>1, <3>1, <3>3
  <2>5. CASE HostNext /\ ~Digests /\ ~AllPosted
    <3>1. pc' # "idle"
      BY <1>2 DEF Quitting, Posting
    <3>2. ~Quit(TRUE)
      BY <1>2, Zenon DEF Quit
    <3>3. PostArgs \/ PostCmd
      <4>1. ~PostSector /\ ~DiffRange
        <5>1. PostSector => pend'.cmd = "program"
          BY PostIs, Zenon DEF PostSector
        <5>2. DiffRange => pend'.cmd = "crc"
          BY PostIs, Zenon DEF DiffRange
        <5> QED BY <1>2, <5>1, <5>2 DEF Quitting
      <4>2. ~WaitExpires /\ ~TryRaises /\ ~StubBeginRaises /\ ~EndRaises /\ ~Trapped /\ ~TrapExpires
        BY <3>1, <3>2 DEF WaitExpires, TryRaises, StubBeginRaises, EndRaises, Trapped, TrapExpires, Return
      <4>3. ~StubBegin /\ ~StageNext /\ ~Wait
        BY <1>0, <1>2, <3>2 DEF StubBegin, StageNext, Wait, Goto, Quitting, Posting, MailInv, MailTypes
      <4> QED BY <2>5, <4>1, <4>2, <4>3 DEF HostNext
    <3>4. Quitting /\ job' = job /\ flash' = flash /\ failed' = failed
      BY <1>2, <3>3 DEF PostArgs, PostCmd, At, Goto, Quitting, Posting, target
    <3>5. ~failed
      BY <1>2, <3>4, Zenon
    <3> QED BY <2>1, <3>4, <3>5
  <2> QED BY <1>2, <2>2, <2>3, <2>4, <2>5
<1>3. HostNext \/ StubNext =>
        (Quitting' /\ ~failed' =>
           /\ Array!Holds(flash', job')
           /\ stub'.pc \in {"poll", "off"} /\ mail'.cmd \in {"idle", "quit"})
  BY <1>2
<1> QED BY <1>1, <1>3 DEF Next, ExactInv

\* The image is in the flash after a step when every sector it covers then holds its part.
LEMMA SectorsNext ==
  ASSUME NEW o \in Ops, o.kind = "incremental",
         \A s \in Covered(o) : Sector(s)' = ImageSector(o, s)
  PROVE  \A a \in DOMAIN Image(o) : flash'[a] = Image(o)[a]
<1> SUFFICES ASSUME NEW a \in DOMAIN Image(o) PROVE flash'[a] = Image(o)[a]
  OBVIOUS
<1>1. a \in Nat /\ SectorOf(a) \in Covered(o)
  BY ImageIs DEF Addr
<1>2. PICK s : s = SectorOf(a)
  OBVIOUS
<1>3. s \in Nat /\ s * W <= a /\ a <= s * W + W - 1 /\ s * W \in Nat
  BY <1>1, <1>2, SectorIs, Sizes
<1>4. PICK b \in Nat : b = s * W
  BY <1>3
<1>5. PICK i \in 1..W : b + i - 1 = a
  <2>1. a - b + 1 \in 1..W /\ b + (a - b + 1) - 1 = a
    BY <1>1, <1>3, <1>4, Sizes
  <2> QED BY <2>1
<1>6. Sector(s)'[i] = ImageSector(o, s)[i]
  BY <1>1, <1>2
<1>7. Sector(s)'[i] = flash'[a] /\ ImageSector(o, s)[i] = Image(o)[a]
  BY <1>4, <1>5 DEF Sector, Content, ImageSector
<1> QED BY <1>6, <1>7

\* An operation of flash_write has its image where every word of its data is.
LEMMA WordsExact ==
  ASSUME FlashInv, op # None, op.kind # "incremental", NEW f,
         \A i \in 1..Len(op.data) : f[op.at + i - 1] = op.data[i]
  PROVE  Array!Holds(f, job)
<1>1. op \in Ops /\ job.image = Image(op)
  BY DEF FlashInv, ControlInv, JobInv
<1>2. Padded(op) = op.data /\ Len(op.data) \in Nat /\ op.at \in Nat
  BY <1>1, PaddedIs
<1>3. ASSUME NEW at \in Nat, NEW n \in Nat, NEW a \in at..(at + n - 1)
      PROVE  a - at + 1 \in 1..n /\ at + (a - at + 1) - 1 = a
  BY <1>3
<1>4. ASSUME NEW a \in DOMAIN Image(op) PROVE f[a] = Image(op)[a]
  <2>1. a \in op.at..(op.at + Len(op.data) - 1) /\ Image(op)[a] = op.data[a - op.at + 1]
    BY <1>1, <1>2, ImageIs
  <2>2. a - op.at + 1 \in 1..Len(op.data) /\ op.at + (a - op.at + 1) - 1 = a
    BY <1>2, <1>3, <2>1
  <2>3. f[op.at + (a - op.at + 1) - 1] = op.data[a - op.at + 1]
    BY <2>2
  <2> QED BY <2>1, <2>2, <2>3
<1> QED BY <1>1, <1>4 DEF Array!Holds

\* The last sector of the list has been written by the ROM.
LEMMA LastExact ==
  ASSUME FlashInv, CalmInv, AheadInv, DoneInv, ReadInv, Next, faults = 0, faults' = 0,
         Overwrite \/ WriteSector, op' = None, result' # "raised"
  PROVE  Array!Holds(flash', job)
<1>0. op # None /\ op \in Ops /\ op.kind = "incremental" /\ job.image = Image(op) /\ ListInv /\ k \in Nat
  BY DEF FlashInv, ControlInv, DataInv, JobInv, Overwrite, WriteSector, At, RomPcs
<1>1. pc \in {"overwrite", "write"}
  BY DEF Overwrite, WriteSector, At
<1>2. Following /\ Past = k - 1 /\ k \in 1..Len(changed)
  <2>1. Following /\ Past = k - 1
    BY <1>1 DEF Following, Listed, ChangedPcs, Quitting, Posting, Past, Diffing, CrcPost, CrcWait
  <2> QED BY <1>0, <1>1, <2>1 DEF ListInv, ChangedPcs
<1>3. ~(k < Len(changed))
  <2>1. NextSector
    BY Zenon DEF Overwrite, WriteSector, Return
  <2>2. op' = op => FALSE
    BY <1>0
  <2> QED BY <2>1, <2>2, Zenon DEF NextSector, Goto
<1>4. /\ Past \in Int /\ DOMAIN changed = 1..Len(changed) /\ Len(changed) \in Nat
      /\ \A s : Settled(s) => Sector(s)' = Sector(s)
  BY <1>0, <1>2, SettledKept
<1>5. /\ \A s \in Covered(op) : (\A i \in DOMAIN changed : changed[i] # s) => Sector(s) = ImageSector(op, s)
      /\ \A i \in DOMAIN changed : i <= Past => Sector(changed[i]) = ImageSector(op, changed[i])
  BY <1>2 DEF DoneInv, Written
<1>6. ASSUME NEW s \in Covered(op) PROVE Sector(s)' = ImageSector(op, s)
  <2>1. CASE s = This
    BY <2>1, RomWrites
  <2>2. CASE s # This
    <3>1. ASSUME NEW i \in DOMAIN changed, changed[i] = s PROVE i <= Past
      <4>1. i # k
        BY <2>2, <3>1 DEF This
      <4> QED BY <1>2, <1>3, <1>4, <3>1, <4>1
    <3>2. Settled(s)
      BY <3>1 DEF Settled
    <3>3. Sector(s) = ImageSector(op, s)
      BY <1>5, <3>1
    <3> QED BY <1>4, <3>2, <3>3
  <2> QED BY <2>1, <2>2
<1>7. \A a \in DOMAIN Image(op) : flash'[a] = Image(op)[a]
  BY <1>0, <1>6, SectorsNext
<1> QED BY <1>0, <1>7 DEF Array!Holds

\* At the start there is nothing to say, and no fault.
LEMMA CleanInitial ==
  ASSUME Init
  PROVE  Clean
<1> USE SpiflashAssumption DEF Init, BaseInit, StubInit
<1>1. CalmInv
  BY DEF CalmInv, Off, NoMail
<1>2. WholeInv /\ ReadInv
  BY DEF WholeInv, ReadInv
<1>3. DoneInv
  BY DEF DoneInv, Following, Listed, ChangedPcs, StubPcs
<1>4. AheadInv /\ ExactInv
  BY DEF AheadInv, Posting, Ahead, ExactInv, Quitting
<1> QED BY <1>1, <1>2, <1>3, <1>4 DEF Clean, CleanInv

\* As long as no call goes wrong every step keeps the invariant of a run without a fault.
LEMMA CleanStep ==
  ASSUME FlashInv, Clean, [Next]_vars
  PROVE  Clean'
<1>1. CASE Next
  <2>1. faults' \in Nat /\ faults' >= faults
    BY <1>1, FaultsGrow DEF Clean
  <2>2. ASSUME faults' = 0 PROVE CleanInv'
    <3>1. faults = 0 /\ faults' = 0
      BY <2>1, <2>2 DEF Clean
    <3>2. CalmInv /\ WholeInv /\ DoneInv /\ ReadInv /\ AheadInv /\ ExactInv
      BY <3>1 DEF Clean, CleanInv
    <3>3. CalmInv' /\ WholeInv' /\ ReadInv'
      BY <1>1, <3>1, <3>2, CalmStep, WholeStep, ReadStep
    <3>4. DoneInv' /\ AheadInv' /\ ExactInv'
      BY <1>1, <3>1, <3>2, DoneStep, AheadStep, ExactStep
    <3> QED BY <3>3, <3>4 DEF CleanInv
  <2> QED BY <2>1, <2>2 DEF Clean
<1>2. CASE UNCHANGED vars
  <2> USE <1>2 DEF vars, base, target, locals, stubVars
  <2>1. CalmInv => CalmInv'
    BY DEF CalmInv
  <2>2. WholeInv => WholeInv'
    BY DEF WholeInv, Blank
  <2>3. DoneInv => DoneInv'
    <3>1. (Following <=> Following') /\ Past' = Past
      BY DEF Following, Listed, Quitting, Posting, Past, Diffing, CrcPost, CrcWait
    <3> QED BY <3>1 DEF DoneInv, Written, Sector, Content
  <2>4. ReadInv => ReadInv'
    BY ZenonT(60) DEF ReadInv, Blank, This, Img, Sector, Content
  <2>5. AheadInv => AheadInv'
    <3>1. (Ahead <=> Ahead') /\ Latest' = Latest
      BY DEF Ahead, Latest
    <3>2. Sent => Sent'
      BY <3>1 DEF Sent, Programming, Idle, Blank, Written, Sector, Content
    <3> QED BY <3>1, <3>2 DEF AheadInv, Posting
  <2>6. ExactInv => ExactInv'
    BY DEF ExactInv, Quitting, Posting
  <2>7. faults' = faults
    OBVIOUS
  <2> QED BY <2>1, <2>2, <2>3, <2>4, <2>5, <2>6, <2>7 DEF Clean, CleanInv
<1> QED BY <1>1, <1>2

\* It holds in every reachable state.
LEMMA CleanInvariant == Spec => []Clean
BY CleanInitial, CleanStep, FlashInvariant, PTL DEF Spec

\* For every flash, every size and every operation, verified or not, written whole or only
\* where it differs, with the ROM or with the stub, from a chip that is protected or not:
\* unless a call has gone wrong, an operation that returns leaves exactly its image.
\* flash_write and flash_incremental of debug.py, flash_write of xtensa.py.
THEOREM CleanRuns == Spec => CleanRunExact
<1>1. ASSUME FlashInv, Clean, Next, result' = "ok", result = None, faults' = 0
      PROVE  Array!Holds(flash', job)
  <2>0. ControlInv /\ MailInv /\ "ok" # None
    <3>1. ControlInv /\ MailInv
      BY <1>1 DEF FlashInv
    <3>2. "ok" # None
      BY SpiflashAssumption
    <3> QED BY <3>1, <3>2
  <2>1. faults = 0 /\ faults' = 0
    BY <1>1, FaultsGrow DEF Clean
  <2>2. CalmInv /\ WholeInv /\ DoneInv /\ ReadInv /\ AheadInv /\ ExactInv
    BY <1>1, <2>1 DEF Clean, CleanInv
  <2>3. op # None /\ op' = None
    <3>1. op # None
      BY <1>1, <2>0, NoOperation DEF Start, Host
    <3> QED BY <1>1, <2>0, <3>1, SameJob
  <2>4. result' # "raised" /\ result' # "abandoned" /\ result' # result
    BY <1>1, <2>0
  <2>5. CASE ByRom
    <3>1. ProgramNext \/ VerifyNext \/ XtensaVerify \/ CrcNext \/ Overwrite \/ WriteSector \/ CrcVerify
      BY <2>4, <2>5, Zenon DEF ByRom, RomNext, Start, GateRead, FlashInit, Raise, Unlock, EraseNext, XtensaErase,
        Calibrate, SectorRead, UnlockRun, StageSector, EraseEnds, Goto, Return
    <3>2. CASE ProgramNext
      <4>1. pc = "program" /\ ~protected
        BY <2>2, <3>2 DEF ProgramNext, At, CalmInv
      <4>2. flash' \in AfterProgram("ok", op.at + k, Chunk) /\ ~(k + W < Len(op.data))
        <5>1. flash' \in AfterProgram("ok", op.at + k, Chunk)
          BY <2>1, <3>2, NoFault DEF ProgramNext
        <5>2. ~(k + W < Len(op.data))
          BY <2>4, <3>2, Zenon DEF ProgramNext, NextChunk, Goto, Return
        <5> QED BY <5>1, <5>2
      <4>3. /\ op \in Ops /\ op.kind # "incremental" /\ k \in Nat /\ k < Len(op.data)
            /\ \A i \in 1..Len(op.data) :
                 flash'[op.at + i - 1] = IF i <= k + Len(Chunk) THEN op.data[i] ELSE Bits
        BY <1>1, <2>2, <4>1, <4>2, ChunkWritten
      <4>4. k + Len(Chunk) = Len(op.data) /\ Len(op.data) \in Nat
        BY <4>2, <4>3, ChunkIs, DataIs
      <4>5. \A i \in 1..Len(op.data) : i <= k + Len(Chunk)
        BY <4>4
      <4>6. \A i \in 1..Len(op.data) : flash'[op.at + i - 1] = op.data[i]
        BY <4>3, <4>5
      <4> QED BY <1>1, <2>3, <4>3, <4>6, WordsExact
    <3>3. CASE VerifyNext \/ XtensaVerify
      <4>1. pc = "verify" /\ op.kind # "incremental" /\ flash' = flash
        BY <3>3 DEF VerifyNext, XtensaVerify, At, target
      <4>2. \A i \in 1..Len(op.data) : flash[op.at + i - 1] = op.data[i]
        BY <2>2, <4>1 DEF WholeInv
      <4> QED BY <1>1, <2>3, <4>1, <4>2, WordsExact
    <3>4. CASE CrcNext
      <4> DEFINE digests == Append(crcs, buf'["A"])
      <4>1. ~(k < LastSector(op)) /\ Differing(digests) = {}
        BY <2>4, <3>4, Zenon DEF CrcNext, Goto
      <4> HIDE DEF digests
      <4>2. /\ op.kind = "incremental" /\ flash' = flash
            /\ \A s \in Covered(op) \ Differing(digests) : Sector(s) = ImageSector(op, s)
        BY <1>1, <2>1, <2>2, <3>4, <4>1, CrcClean DEF digests
      <4>3. Array!Holds(flash, job)
        BY <1>1, <2>3, <4>1, <4>2, SectorsExact
      <4> QED BY <4>2, <4>3
    <3>5. CASE Overwrite \/ WriteSector
      BY <1>1, <2>1, <2>2, <2>3, <2>4, <3>5, LastExact
    <3>6. CASE CrcVerify
      <4>1. pc = "crc verify" /\ flash' = flash
        BY <3>6 DEF CrcVerify, At
      <4>2. Following /\ Past = Len(changed)
        BY <4>1 DEF Following, Listed, ChangedPcs, Quitting, Posting, Past
      <4>3. Array!Holds(flash, job)
        BY <1>1, <2>2, <2>3, <4>2, PastExact
      <4> QED BY <4>1, <4>3
    <3> QED BY <3>1, <3>2, <3>3, <3>4, <3>5, <3>6
  <2>6. CASE HostNext
    <3>1. Trapped
      BY <2>4, <2>6, Zenon DEF HostNext, StubBegin, StubBeginRaises, PostArgs, PostCmd, Wait, WaitExpires, Quit, Post,
        TryRaises, EndRaises, DiffRange, Digests, StageNext, PostSector, AllPosted, TrapExpires,
        Goto, Return
    <3>2. pc = "trap" /\ ~failed /\ flash' = flash
      BY <2>4, <3>1, Zenon DEF Trapped, At, Return, target
    <3>3. Quitting
      BY <2>0, <3>2, Zenon DEF Quitting, MailInv
    <3>4. Array!Holds(flash, job)
      BY <2>2, <3>2, <3>3 DEF ExactInv
    <3> QED BY <3>2, <3>4
  <2>7. CASE StubNext
    BY <2>4, <2>7, StubRests
  <2> QED BY <1>1, <2>5, <2>6, <2>7 DEF Next
<1>2. FlashInv /\ Clean /\ [Next]_vars
        => [result' = "ok" /\ result = None /\ faults' = 0 => Array!Holds(flash', job)]_vars
  BY <1>1
<1> QED BY <1>2, FlashInvariant, CleanInvariant, PTL DEF Spec, CleanRunExact
====
