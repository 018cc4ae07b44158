---------------------------- MODULE SystemBusProofs ----------------------------
(***************************************************************************)
(* Proofs about SystemBus, for memories, calls and words of every number.  *)
(***************************************************************************)
EXTENDS SystemBus, SequenceTheorems, TLAPS

Config == [auto: BOOLEAN, onAddr: BOOLEAN, onData: BOOLEAN]
Access ==
  [op: {"nop", "getData", "getCs"}]
    \cup [op: {"arm"}, cfg: Config, clear: BOOLEAN]
    \cup [op: {"addr", "data"}, value: Nat]
Call ==
  [kind: {"none", "read32", "write32", "read", "write"}, addr: 0..Size - 1, n: 0..MaxWords]

\* The types of the variables, without the length of the result.
VarsInv ==
  /\ dm \in DebugModule /\ sticky \in BOOLEAN
  /\ pc \in {"ready", "batch", "stream", "closing", "single"}
  /\ call \in Call /\ sent \in Nat
  /\ caps \in Seq(Nat \X BOOLEAN) /\ todo \in Seq(Access)
  /\ then \in {"return", "closing", "raise"} /\ ret \in {"none", "ok", "raise"}
  /\ got \in Seq(Nat) /\ result \in Seq(Nat)
  /\ calls \in 0..MaxCalls /\ busies \in 0..MaxBusy
  /\ before \in [0..Size - 1 -> Nat]
  /\ pending \in BOOLEAN /\ repeated \in BOOLEAN /\ missed \in BOOLEAN

(***************************************************************************)
(* A sequence of accesses is performed in order; these say how far it is.  *)
(***************************************************************************)
\* What is left of the accesses `plan`.
LeftOf(plan) ==
  /\ Len(todo) <= Len(plan)
  /\ \A i \in 1..Len(todo) : todo[i] = plan[Len(plan) - Len(todo) + i]

\* The accesses of write_mem32, and those of read_mem's slow path with the clearing of
\* errors before it.
Write32 == <<Arm(Off), PutAddr(call.addr), PutData(Word(1))>>
Read32 == <<Arm(Cfg(FALSE, TRUE, FALSE)), PutAddr(call.addr), GetData>>
ClearAndSlowRead == <<ClearErrors, Arm(Off)>> \o SlowRead
ClearUp == <<ClearErrors, Arm(Off)>>

\* After k accesses of a write (configuration, address, words): as long as no access
\* has failed, the bus has written or is writing the words so far, each to its place.
WriteProgress(d, k) ==
  /\ k <= 1 => d.bus = "none"
  /\ k >= 1 => ~d.cfg.onAddr /\ (d.cfg.auto \/ call.n = 1)
  /\ k >= 2 /\ ~Faulty(d) =>
       /\ d.bus = "none" =>
            /\ k - 2 < call.n => d.addr = call.addr + (k - 2)
            /\ \A i \in 1..k - 2 : /\ call.addr + i - 1 < Size
                                   /\ d.mem[call.addr + i - 1] = Word(i)
       /\ d.bus # "none" =>
            /\ d.bus = "write" /\ k >= 3
            /\ d.addr = call.addr + (k - 3) /\ d.data = Word(k - 2)
            /\ \A i \in 1..k - 3 : /\ call.addr + i - 1 < Size
                                   /\ d.mem[call.addr + i - 1] = Word(i)

\* After k accesses of a read (configuration, address, reads of SBDATA0): as long as
\* no access has failed, the next word is in SBDATA0 or on its way there, and the
\* last access has returned the word before it.
ReadProgress(d, k) ==
  /\ k <= 1 => d.bus = "none"
  /\ k >= 1 => d.cfg = Prefetch
  /\ k >= 2 /\ ~Faulty(d) =>
       /\ d.bus = "none" => /\ d.addr = call.addr + (k - 1)
                            /\ d.data = d.mem[call.addr + (k - 2)]
       /\ d.bus # "none" => d.bus = "read" /\ d.addr = call.addr + (k - 2)
  /\ k >= 3 /\ ~Faulty(d) => d.out = d.mem[call.addr + (k - 3)]

\* The words of a write that is complete.
Written == \A i \in 1..call.n : call.addr + i - 1 < Size /\ dm.mem[call.addr + i - 1] = Word(i)

\* The first k words of a read.
Gathered(s, k) == \A i \in 1..k : s[i] = dm.mem[call.addr + i - 1]

\* The captures of the batch hold the words.
Captured ==
  \A i \in 1..call.n : 3 + i <= Len(caps) => caps[3 + i][1] = dm.mem[call.addr + i - 1]

(***************************************************************************)
(* The inductive invariant, by what the call is doing                      *)
(***************************************************************************)
\* A write in progress goes to a word of the call that asked for it.
TargetInv == dm.bus = "write" => Writing /\ dm.addr \in Target

CallInv ==
  /\ pc # "ready" => call.kind # "none"
  /\ call.kind # "none" => call.n >= 1
  /\ call.kind \in {"read32", "write32"} => call.n = 1
  /\ pc = "ready" => dm.bus = "none"

BatchInv ==
  pc = "batch" =>
    /\ call.kind = "read"
    /\ sent = Len(caps) /\ sent <= call.n + 7
    /\ sticky /\ sent >= 1 => caps[sent][2]
    /\ ~sticky =>
         /\ sent <= call.n + 3 => ReadProgress(dm, sent)
         /\ sent <= call.n + 4 /\ ~Faulty(dm) => Captured
         /\ sent = call.n + 5 /\ dm.out = 0 => Captured
         /\ sent >= call.n + 6 /\ caps[call.n + 6][1] = 0 => Captured

StreamInv ==
  pc = "stream" =>
    /\ call.kind = "write"
    /\ sent <= call.n + 2
    /\ ~sticky => WriteProgress(dm, sent)
    /\ ~missed /\ caps = <<>>

ClosingInv ==
  pc = "closing" =>
    /\ call.kind = "write"
    /\ dm.bus = "none"
    /\ ~Faulty(dm) => Written
    /\ sent = Len(caps) /\ sent <= 3
    /\ ~missed =>
         /\ ~sticky
         /\ sent = 1 /\ dm.out = 0 => Written
         /\ sent >= 2 /\ caps[2][1] = 0 => Written

SingleInv ==
  pc = "single" =>
    \/ /\ call.kind = "read32" /\ then = "return"
       /\ LeftOf(Read32)
    \/ /\ call.kind = "write32" /\ then = "return"
       /\ LeftOf(Write32) /\ WriteProgress(dm, 3 - Len(todo))
    \/ /\ call.kind = "write" /\ then = "closing"
       /\ LeftOf(WriteStream) /\ WriteProgress(dm, call.n + 2 - Len(todo))
       /\ ~sticky /\ ~missed
    \/ /\ call.kind = "write" /\ then = "raise"
       /\ LeftOf(ClearUp)
    \/ /\ call.kind = "read" /\ then = "return"
       /\ LeftOf(ClearAndSlowRead)
       /\ Len(todo) >= call.n + 3 => dm.bus = "none"
       /\ ~pending /\ Len(todo) = call.n + 4 => ~Faulty(dm)
       /\ ~repeated /\ Len(todo) <= call.n + 3 /\ Len(todo) >= 1 =>
            ReadProgress(dm, call.n + 3 - Len(todo))
       /\ Mapped /\ ~repeated /\ ~pending =>
            /\ Len(todo) <= call.n + 4 /\ Len(todo) >= 2 => ~Faulty(dm)
            /\ Gathered(got, Len(got))

\* How many words the singles of a read have returned.
GotInv ==
  /\ pc \in {"batch", "stream", "closing"} => got = <<>>
  /\ pc = "single" /\ call.kind = "read" =>
       /\ Len(todo) >= call.n + 1 => Len(got) = 0
       /\ Len(todo) \in 1..call.n + 1 => Len(got) = call.n + 1 - Len(todo)
       /\ Len(todo) = 0 => Len(got) = call.n
  /\ pc = "single" /\ call.kind = "read32" =>
       /\ Len(todo) >= 1 => Len(got) = 0
       /\ Len(todo) = 0 => Len(got) = 1
  /\ pc = "single" /\ Writing => got = <<>>

BusInv ==
  /\ VarsInv /\ OnlyTargetWritten /\ TargetInv /\ CallInv
  /\ BatchInv /\ StreamInv /\ ClosingInv /\ SingleInv /\ GotInv
  /\ ReadExact /\ WriteExact /\ Len(result) <= MaxWords

-----------------------------------------------------------------------------
(***************************************************************************)
(* The debug module: what one access, and the end of a bus access, does.   *)
(***************************************************************************)
LEMMA AccessTypes ==
  /\ Off \in Config /\ Prefetch \in Config /\ Autoincrement \in Config
  /\ Nop \in Access /\ GetData \in Access /\ GetCs \in Access /\ ClearErrors \in Access
  /\ \A c \in Config : Arm(c) \in Access
  /\ \A m \in Nat : PutAddr(m) \in Access /\ PutData(m) \in Access
BY DEF Access, Config, Off, Cfg, Prefetch, Autoincrement, Nop, GetData, GetCs, ClearErrors, Arm,
       PutAddr, PutData

\* The device after one access, the mark that it may still be in flight included.
After(d, x, b) == [Performed(d, x) EXCEPT !.flying = b]

\* What an access that does nothing leaves of the debug module.
LEMMA AfterNop ==
  ASSUME NEW d \in DebugModule, NEW b \in BOOLEAN
  PROVE  LET e == After(d, Nop, b) IN
         /\ e \in DebugModule /\ e.mem = d.mem /\ e.bus = d.bus /\ e.addr = d.addr /\ e.data = d.data
         /\ e.cfg = d.cfg /\ e.out = d.out /\ (Faulty(e) <=> Faulty(d))
BY DEF After, Performed, DebugModule, Nop, Faulty

\* What writing the control register does to it.
LEMMA AfterArm ==
  ASSUME NEW d \in DebugModule, NEW b \in BOOLEAN, NEW x \in Access, x.op = "arm"
  PROVE  LET e == After(d, x, b) IN
         /\ e \in DebugModule /\ e.mem = d.mem /\ e.bus = d.bus /\ e.addr = d.addr /\ e.data = d.data
         /\ e.cfg = x.cfg /\ e.out = d.out /\ (Faulty(e) <=> Faulty(d) /\ ~x.clear)
BY ZenonT(60) DEF After, Performed, DebugModule, Access, Config, Faulty

\* What writing the address does: a read begins if it is armed for one, unless the bus is busy.
LEMMA AfterAddr ==
  ASSUME NEW d \in DebugModule, NEW b \in BOOLEAN, NEW a \in Nat
  PROVE  LET e == After(d, PutAddr(a), b) IN
         /\ e \in DebugModule /\ e.mem = d.mem /\ e.data = d.data /\ e.cfg = d.cfg /\ e.out = d.out
         /\ d.bus # "none" => Faulty(e) /\ e.bus = d.bus /\ e.addr = d.addr
         /\ d.bus = "none" =>
              /\ e.addr = a /\ (Faulty(e) <=> Faulty(d))
              /\ e.bus = IF d.cfg.onAddr /\ ~Faulty(d) THEN "read" ELSE "none"
BY ZenonT(60) DEF After, Performed, DebugModule, PutAddr, Start, Faulty

\* What writing data does: a write begins, unless the bus is busy or at fault.
LEMMA AfterData ==
  ASSUME NEW d \in DebugModule, NEW b \in BOOLEAN, NEW w \in Nat
  PROVE  LET e == After(d, PutData(w), b) IN
         /\ e \in DebugModule /\ e.mem = d.mem /\ e.addr = d.addr /\ e.cfg = d.cfg /\ e.out = d.out
         /\ d.bus # "none" => Faulty(e) /\ e.bus = d.bus
         /\ d.bus = "none" =>
              /\ e.data = w /\ (Faulty(e) <=> Faulty(d))
              /\ e.bus = IF Faulty(d) THEN "none" ELSE "write"
BY DEF After, Performed, DebugModule, PutData, Start, Faulty

\* What reading data does: the last word comes, and a next read begins if it is armed for one.
LEMMA AfterGetData ==
  ASSUME NEW d \in DebugModule, NEW b \in BOOLEAN
  PROVE  LET e == After(d, GetData, b) IN
         /\ e \in DebugModule /\ e.mem = d.mem /\ e.addr = d.addr /\ e.cfg = d.cfg /\ e.data = d.data
         /\ Faulty(d) => Faulty(e) /\ e.bus = d.bus
         /\ d.bus # "none" => e.bus = d.bus /\ Faulty(e)
         /\ d.bus = "none" =>
              /\ Faulty(e) <=> Faulty(d)
              /\ e.bus = IF d.cfg.onData /\ ~Faulty(d) THEN "read" ELSE "none"
              /\ e.out = d.data
BY ZenonT(60) DEF After, Performed, DebugModule, GetData, Start, Faulty

\* What reading the control register does: it tells whether there is a fault.
LEMMA AfterGetCs ==
  ASSUME NEW d \in DebugModule, NEW b \in BOOLEAN
  PROVE  LET e == After(d, GetCs, b) IN
         /\ e \in DebugModule /\ e.mem = d.mem /\ e.bus = d.bus /\ e.addr = d.addr /\ e.data = d.data
         /\ e.cfg = d.cfg /\ (Faulty(e) <=> Faulty(d)) /\ (e.out = 0 <=> ~Faulty(d))
<1> DEFINE e == After(d, GetCs, b)
<1>1. e = [[d EXCEPT !.out = IF Faulty(d) THEN 1 ELSE 0] EXCEPT !.flying = b]
  BY DEF After, Performed, GetCs
<1>2. ASSUME NEW v \in Nat, e = [[d EXCEPT !.out = v] EXCEPT !.flying = b]
      PROVE  /\ e \in DebugModule /\ e.mem = d.mem /\ e.bus = d.bus /\ e.addr = d.addr /\ e.data = d.data
             /\ e.cfg = d.cfg /\ (Faulty(e) <=> Faulty(d)) /\ e.out = v
  BY <1>2 DEF DebugModule, Faulty
<1> HIDE DEF e
<1>3. CASE Faulty(d)
  <2>1. e = [[d EXCEPT !.out = 1] EXCEPT !.flying = b]
    BY <1>1, <1>3
  <2>2. /\ e \in DebugModule /\ e.mem = d.mem /\ e.bus = d.bus /\ e.addr = d.addr /\ e.data = d.data
        /\ e.cfg = d.cfg /\ (Faulty(e) <=> Faulty(d)) /\ e.out = 1
    BY <1>2, <2>1
  <2> QED BY <1>3, <2>2 DEF e
<1>4. CASE ~Faulty(d)
  <2>1. e = [[d EXCEPT !.out = 0] EXCEPT !.flying = b]
    BY <1>1, <1>4
  <2>2. /\ e \in DebugModule /\ e.mem = d.mem /\ e.bus = d.bus /\ e.addr = d.addr /\ e.data = d.data
        /\ e.cfg = d.cfg /\ (Faulty(e) <=> Faulty(d)) /\ e.out = 0
    BY <1>2, <2>1
  <2> QED BY <1>4, <2>2 DEF e
<1> QED BY <1>3, <1>4

\* What the end of a bus access does: at most one word of memory changes, the one addressed.
LEMMA AfterFinished ==
  ASSUME NEW d \in DebugModule
  PROVE  LET e == Finished(d) IN
         /\ e \in DebugModule /\ e.bus = "none" /\ e.cfg = d.cfg /\ e.out = d.out
         /\ Faulty(d) => Faulty(e)
         /\ d.bus # "write" => e.mem = d.mem
         /\ \A a \in 0..Size - 1 : e.mem[a] # d.mem[a] => d.bus = "write" /\ a = d.addr
         /\ ~Faulty(e) /\ d.bus # "none" =>
              /\ d.addr < Size /\ ~Faulty(d)
              /\ d.bus = "write" => e.mem[d.addr] = d.data
              /\ d.bus = "read" => e.data = d.mem[d.addr]
              /\ d.cfg.auto => e.addr = d.addr + 1
         /\ Faulty(e) => Faulty(d) \/ (d.bus # "none" /\ d.addr >= Size)
<1> USE BusAssumption DEF DebugModule, Faulty
<1>1. CASE d.bus = "none"
  BY <1>1 DEF Finished
<1>2. CASE d.bus # "none" /\ d.addr >= Size
  <2>1. Finished(d) = [d EXCEPT !.bus = "none", !.err = TRUE]
    BY <1>2 DEF Finished
  <2> QED BY <1>2, <2>1
<1>3. CASE d.bus # "none" /\ ~(d.addr >= Size)
  <2> DEFINE e == Finished(d)
  <2>1. d.addr \in 0..Size - 1 /\ d.addr < Size
    BY <1>3
  <2>2. ASSUME NEW m \in [0..Size - 1 -> Nat], NEW w \in Nat, NEW a \in Nat,
               e = [d EXCEPT !.bus = "none", !.data = w, !.mem = m, !.addr = a]
        PROVE  /\ e \in DebugModule /\ e.bus = "none" /\ e.cfg = d.cfg /\ e.out = d.out
               /\ e.err = d.err /\ e.raced = d.raced
               /\ e.mem = m /\ e.data = w /\ e.addr = a
    BY <2>2
  <2> DEFINE a == IF d.cfg.auto THEN d.addr + 1 ELSE d.addr
  <2>3. a \in Nat /\ (d.cfg.auto => a = d.addr + 1)
    OBVIOUS
  <2>4. CASE d.bus = "read"
    <3>1. e = [d EXCEPT !.bus = "none", !.data = d.mem[d.addr], !.mem = d.mem, !.addr = a]
      BY <1>3, <2>4 DEF Finished
    <3>2. d.mem[d.addr] \in Nat /\ d.mem \in [0..Size - 1 -> Nat]
      BY <2>1
    <3> HIDE DEF e, a
    <3>3. /\ e \in DebugModule /\ e.bus = "none" /\ e.cfg = d.cfg /\ e.out = d.out
          /\ e.err = d.err /\ e.raced = d.raced
          /\ e.mem = d.mem /\ e.data = d.mem[d.addr] /\ e.addr = a
      BY <2>2, <2>3, <3>1, <3>2
    <3> QED BY <1>3, <2>1, <2>3, <2>4, <3>3 DEF e
  <2>5. CASE d.bus = "write"
    <3> DEFINE m == [d.mem EXCEPT ![d.addr] = d.data]
    <3>1. e = [d EXCEPT !.bus = "none", !.data = d.data, !.mem = m, !.addr = a]
      BY <1>3, <2>5 DEF Finished
    <3>2. m \in [0..Size - 1 -> Nat] /\ m[d.addr] = d.data /\ d.data \in Nat
          /\ \A k \in 0..Size - 1 : m[k] # d.mem[k] => k = d.addr
      BY <2>1
    <3> HIDE DEF e, a, m
    <3>3. /\ e \in DebugModule /\ e.bus = "none" /\ e.cfg = d.cfg /\ e.out = d.out
          /\ e.err = d.err /\ e.raced = d.raced
          /\ e.mem = m /\ e.data = d.data /\ e.addr = a
      BY <2>2, <2>3, <3>1, <3>2
    <3> QED BY <1>3, <2>1, <2>3, <2>5, <3>2, <3>3 DEF e
  <2> QED BY <1>3, <2>4, <2>5
<1> QED BY <1>1, <1>2, <1>3

(***************************************************************************)
(* The sequences of accesses, by position                                  *)
(***************************************************************************)
LEMMA WordType == ASSUME VarsInv, NEW i \in Nat PROVE Word(i) \in Nat
<1>1. calls \in Nat /\ MaxWords \in Nat /\ Size \in Nat
  BY BusAssumption DEF VarsInv
<1>2. calls * MaxWords \in Nat
  BY <1>1
<1> QED BY <1>1, <1>2 DEF Word

\* The arguments of a call.
LEMMA CallType ==
  ASSUME VarsInv
  PROVE  /\ call.addr \in Nat /\ call.addr < Size /\ call.n \in Nat /\ call.n <= MaxWords
         /\ call.kind \in {"none", "read32", "write32", "read", "write"}
         /\ Size \in Nat /\ MaxWords \in Nat
BY BusAssumption DEF VarsInv, Call

\* The accesses of a streamed write.
LEMMA WriteStreamIs ==
  ASSUME VarsInv
  PROVE  /\ WriteStream \in Seq(Access) /\ Len(WriteStream) = call.n + 2
         /\ WriteStream[1] = Arm(Autoincrement) /\ WriteStream[2] = PutAddr(call.addr)
         /\ \A i \in 1..call.n : WriteStream[i + 2] = PutData(Word(i))
<1> DEFINE front == <<Arm(Autoincrement), PutAddr(call.addr)>>
<1>1. Words \in Seq(Access) /\ Len(Words) = call.n /\ \A i \in 1..call.n : Words[i] = PutData(Word(i))
  <2>1. \A i \in 1..call.n : PutData(Word(i)) \in Access
    BY AccessTypes, WordType, CallType
  <2>2. call.n \in Nat
    BY CallType
  <2> QED BY <2>1, <2>2 DEF Words
<1>2. front \in Seq(Access) /\ Len(front) = 2 /\ front[1] = Arm(Autoincrement) /\ front[2] = PutAddr(call.addr)
  BY AccessTypes, CallType
<1> HIDE DEF front
<1>3. front \o Words \in Seq(Access) /\ Len(front \o Words) = Len(front) + Len(Words)
      /\ \A i \in 1..Len(front) + Len(Words) :
           (front \o Words)[i] = IF i <= Len(front) THEN front[i] ELSE Words[i - Len(front)]
  <2> HIDE DEF Words, Access
  <2> QED BY <1>1, <1>2, ConcatProperties, Zenon
<1>4. WriteStream = front \o Words
  BY DEF WriteStream, front
<1>5. \A i \in 1..call.n : i + 2 \in 1..Len(front) + Len(Words) /\ ~(i + 2 <= Len(front)) /\ (i + 2) - Len(front) = i
  BY <1>1, <1>2, CallType
<1>6. 1 \in 1..Len(front) + Len(Words) /\ 2 \in 1..Len(front) + Len(Words) /\ 1 <= Len(front) /\ 2 <= Len(front)
  BY <1>1, <1>2, CallType
<1> QED BY <1>1, <1>2, <1>3, <1>4, <1>5, <1>6, CallType
\* The accesses of a read one word at a time.
LEMMA SlowReadIs ==
  ASSUME VarsInv
  PROVE  /\ SlowRead \in Seq(Access) /\ Len(SlowRead) = call.n + 3
         /\ SlowRead[1] = Arm(Prefetch) /\ SlowRead[2] = PutAddr(call.addr)
         /\ \A i \in 3..call.n + 2 : SlowRead[i] = GetData
         /\ SlowRead[call.n + 3] = Arm(Off)
<1> DEFINE front == <<Arm(Prefetch), PutAddr(call.addr)>>
           gets == [i \in 1..call.n |-> GetData]
           both == front \o gets
           last == <<Arm(Off)>>
<1>1. gets \in Seq(Access) /\ Len(gets) = call.n /\ \A i \in 1..call.n : gets[i] = GetData
  BY AccessTypes, CallType
<1>2. front \in Seq(Access) /\ Len(front) = 2 /\ front[1] = Arm(Prefetch) /\ front[2] = PutAddr(call.addr)
  BY AccessTypes, CallType
<1>3. last \in Seq(Access) /\ Len(last) = 1 /\ last[1] = Arm(Off)
  BY AccessTypes
<1>4. SlowRead = both \o last
  BY DEF SlowRead
<1> HIDE DEF front, gets, both, last
<1>5. both \in Seq(Access) /\ Len(both) = Len(front) + Len(gets)
      /\ \A i \in 1..Len(front) + Len(gets) :
           both[i] = IF i <= Len(front) THEN front[i] ELSE gets[i - Len(front)]
  BY <1>1, <1>2, ConcatProperties, Zenon DEF both
<1>6. SlowRead \in Seq(Access) /\ Len(SlowRead) = Len(both) + Len(last)
      /\ \A i \in 1..Len(both) + Len(last) :
           SlowRead[i] = IF i <= Len(both) THEN both[i]
                         ELSE last[i - Len(both)]
  <2>0. both \in Seq(Access) /\ last \in Seq(Access)
    BY <1>3, <1>5
  <2>1. both \o last \in Seq(Access) /\ Len(both \o last) = Len(both) + Len(last)
        /\ \A i \in 1..Len(both) + Len(last) :
             (both \o last)[i] = IF i <= Len(both) THEN both[i] ELSE last[i - Len(both)]
    BY <2>0, ConcatProperties, Zenon
  <2> QED BY <1>4, <2>1, Zenon
<1>7. ASSUME NEW i \in 3..call.n + 2 PROVE SlowRead[i] = GetData
  <2>1. i \in 1..Len(front) + Len(gets) /\ ~(i <= Len(front)) /\ i - Len(front) \in 1..call.n
        /\ i \in 1..Len(both) + Len(last) /\ i <= Len(both)
    BY <1>1, <1>2, <1>3, <1>5, CallType, SMTT(30)
  <2> QED BY <1>1, <1>5, <1>6, <2>1
<1>8. SlowRead[1] = Arm(Prefetch) /\ SlowRead[2] = PutAddr(call.addr)
  <2>1. \A i \in 1..2 : i \in 1..Len(front) + Len(gets) /\ i <= Len(front)
        /\ i \in 1..Len(both) + Len(last) /\ i <= Len(both)
    BY <1>1, <1>2, <1>3, <1>5, CallType
  <2>2. \A i \in 1..2 : SlowRead[i] = front[i]
    BY <1>5, <1>6, <2>1
  <2> QED BY <1>2, <2>2
<1>9. SlowRead[call.n + 3] = Arm(Off)
  <2>1. call.n + 3 \in 1..Len(both) + Len(last) /\ ~(call.n + 3 <= Len(both))
        /\ (call.n + 3) - Len(both) = 1
    BY <1>1, <1>2, <1>3, <1>5, CallType
  <2> QED BY <1>3, <1>6, <2>1
<1>10. Len(SlowRead) = call.n + 3
  BY <1>1, <1>2, <1>3, <1>5, <1>6, CallType
<1> QED BY <1>6, <1>7, <1>8, <1>9, <1>10

\* The same after the errors are cleared.
LEMMA ClearAndSlowReadIs ==
  ASSUME VarsInv
  PROVE  /\ ClearAndSlowRead \in Seq(Access) /\ Len(ClearAndSlowRead) = call.n + 5
         /\ ClearAndSlowRead[1] = ClearErrors /\ ClearAndSlowRead[2] = Arm(Off)
         /\ ClearAndSlowRead[3] = Arm(Prefetch) /\ ClearAndSlowRead[4] = PutAddr(call.addr)
         /\ \A i \in 5..call.n + 4 : ClearAndSlowRead[i] = GetData
         /\ ClearAndSlowRead[call.n + 5] = Arm(Off)
<1> DEFINE whole == ClearAndSlowRead
           front == <<ClearErrors, Arm(Off)>>
<1>1. front \in Seq(Access) /\ Len(front) = 2 /\ front[1] = ClearErrors /\ front[2] = Arm(Off)
  BY AccessTypes
<1>2. whole = front \o SlowRead
  BY DEF ClearAndSlowRead
<1> HIDE DEF whole, front
<1>3. whole \in Seq(Access) /\ Len(whole) = Len(front) + Len(SlowRead)
      /\ \A i \in 1..Len(front) + Len(SlowRead) :
           whole[i] = IF i <= Len(front) THEN front[i] ELSE SlowRead[i - Len(front)]
  BY <1>1, <1>2, SlowReadIs, ConcatProperties, Zenon
<1>4. \A i \in 3..call.n + 5 : whole[i] = SlowRead[i - 2]
  BY <1>1, <1>3, SlowReadIs, CallType
<1>5. whole[1] = ClearErrors /\ whole[2] = Arm(Off)
  <2>1. \A i \in 1..2 : i \in 1..Len(front) + Len(SlowRead) /\ i <= Len(front)
    BY <1>1, SlowReadIs, CallType
  <2> QED BY <1>1, <1>3, <2>1
<1>6. whole[3] = Arm(Prefetch) /\ whole[4] = PutAddr(call.addr) /\ whole[call.n + 5] = Arm(Off)
  <2>1. 3 \in 3..call.n + 5 /\ 4 \in 3..call.n + 5 /\ call.n + 5 \in 3..call.n + 5
        /\ 3 - 2 = 1 /\ 4 - 2 = 2 /\ (call.n + 5) - 2 = call.n + 3
    BY CallType
  <2> QED BY <1>4, <2>1, SlowReadIs
<1>7. \A i \in 5..call.n + 4 : whole[i] = GetData
  <2>1. \A i \in 5..call.n + 4 : i \in 3..call.n + 5 /\ i - 2 \in 3..call.n + 2
    BY CallType
  <2> QED BY <1>4, <2>1, SlowReadIs
<1>8. Len(whole) = call.n + 5
  BY <1>1, <1>3, SlowReadIs, CallType
<1> QED BY <1>3, <1>5, <1>6, <1>7, <1>8 DEF whole

\* Behind the clearing it is the slow read.
LEMMA ClearAndSlowReadTail ==
  ASSUME VarsInv
  PROVE  \A i \in 1..call.n + 3 : ClearAndSlowRead[i + 2] = SlowRead[i]
<1> SUFFICES ASSUME NEW i \in 1..call.n + 3 PROVE ClearAndSlowRead[i + 2] = SlowRead[i]
  OBVIOUS
<1>1. call.n \in Nat
  BY CallType
<1>2. CASE i = 1
  BY <1>2, SlowReadIs, ClearAndSlowReadIs
<1>3. CASE i = 2
  BY <1>3, SlowReadIs, ClearAndSlowReadIs
<1>4. CASE i \in 3..call.n + 2
  <2>1. i + 2 \in 5..call.n + 4
    BY <1>1, <1>4
  <2> QED BY <1>4, <2>1, SlowReadIs, ClearAndSlowReadIs
<1>5. CASE i = call.n + 3
  <2>1. i + 2 = call.n + 5
    BY <1>1, <1>5
  <2> QED BY <1>5, <2>1, SlowReadIs, ClearAndSlowReadIs
<1> QED BY <1>1, <1>2, <1>3, <1>4, <1>5

\* The accesses of a batched read.
LEMMA ReadBatchIs ==
  ASSUME VarsInv
  PROVE  /\ ReadBatch \in Seq(Access) /\ Len(ReadBatch) = call.n + 7
         /\ ReadBatch[1] = Arm(Prefetch) /\ ReadBatch[2] = PutAddr(call.addr)
         /\ \A i \in 3..call.n + 3 : ReadBatch[i] = GetData
         /\ ReadBatch[call.n + 4] = Nop /\ ReadBatch[call.n + 5] = GetCs
         /\ ReadBatch[call.n + 6] = Nop /\ ReadBatch[call.n + 7] = Arm(Off)
<1> DEFINE front == <<Arm(Prefetch), PutAddr(call.addr)>>
           gets == [i \in 1..call.n + 1 |-> GetData]
           both == front \o gets
           last == <<Nop, GetCs, Nop, Arm(Off)>>
<1>1. gets \in Seq(Access) /\ Len(gets) = call.n + 1 /\ \A i \in 1..call.n + 1 : gets[i] = GetData
  BY AccessTypes, CallType
<1>2. front \in Seq(Access) /\ Len(front) = 2 /\ front[1] = Arm(Prefetch) /\ front[2] = PutAddr(call.addr)
  BY AccessTypes, CallType
<1>3. last \in Seq(Access) /\ Len(last) = 4
      /\ last[1] = Nop /\ last[2] = GetCs /\ last[3] = Nop /\ last[4] = Arm(Off)
  BY AccessTypes
<1>4. ReadBatch = both \o last
  BY DEF ReadBatch
<1> HIDE DEF front, gets, both, last
<1>5. both \in Seq(Access) /\ Len(both) = Len(front) + Len(gets)
      /\ \A i \in 1..Len(front) + Len(gets) :
           both[i] = IF i <= Len(front) THEN front[i] ELSE gets[i - Len(front)]
  BY <1>1, <1>2, ConcatProperties, Zenon DEF both
<1>6. ReadBatch \in Seq(Access) /\ Len(ReadBatch) = Len(both) + Len(last)
      /\ \A i \in 1..Len(both) + Len(last) :
           ReadBatch[i] = IF i <= Len(both) THEN both[i]
                          ELSE last[i - Len(both)]
  <2>0. both \in Seq(Access) /\ last \in Seq(Access)
    BY <1>3, <1>5
  <2>1. both \o last \in Seq(Access) /\ Len(both \o last) = Len(both) + Len(last)
        /\ \A i \in 1..Len(both) + Len(last) :
             (both \o last)[i] = IF i <= Len(both) THEN both[i] ELSE last[i - Len(both)]
    BY <2>0, ConcatProperties, Zenon
  <2> QED BY <1>4, <2>1, Zenon
<1>7. ASSUME NEW i \in 3..call.n + 3 PROVE ReadBatch[i] = GetData
  <2>0. Len(front) = 2 /\ Len(gets) = call.n + 1 /\ Len(both) = 2 + (call.n + 1) /\ Len(last) = 4
        /\ call.n \in Nat
    BY <1>1, <1>2, <1>3, <1>5, CallType
  <2>1. i \in 1..Len(front) + Len(gets) /\ ~(i <= Len(front)) /\ i - Len(front) \in 1..call.n + 1
        /\ i \in 1..Len(both) + Len(last) /\ i <= Len(both)
    <3>1. ASSUME NEW n \in Nat, NEW j \in 3..n + 3
          PROVE  /\ j \in 1..2 + (n + 1) /\ ~(j <= 2) /\ j - 2 \in 1..n + 1
                 /\ j \in 1..(2 + (n + 1)) + 4 /\ j <= 2 + (n + 1)
      OBVIOUS
    <3>2. /\ i \in 1..2 + (call.n + 1) /\ ~(i <= 2) /\ i - 2 \in 1..call.n + 1
          /\ i \in 1..(2 + (call.n + 1)) + 4 /\ i <= 2 + (call.n + 1)
      BY <2>0, <3>1, Zenon
    <3> QED BY <2>0, <3>2, Zenon
  <2> QED BY <1>1, <1>5, <1>6, <2>1
<1>8. ReadBatch[1] = Arm(Prefetch) /\ ReadBatch[2] = PutAddr(call.addr)
  <2>1. \A i \in 1..2 : i \in 1..Len(front) + Len(gets) /\ i <= Len(front)
        /\ i \in 1..Len(both) + Len(last) /\ i <= Len(both)
    BY <1>1, <1>2, <1>3, <1>5, CallType, SMTT(30)
  <2>2. \A i \in 1..2 : ReadBatch[i] = front[i]
    BY <1>5, <1>6, <2>1
  <2> QED BY <1>2, <2>2
<1>9. \A i \in 1..4 : ReadBatch[call.n + 3 + i] = last[i]
  <2>0. Len(both) = call.n + 3 /\ Len(last) = 4 /\ call.n \in Nat
    BY <1>1, <1>2, <1>3, <1>5, CallType
  <2> SUFFICES ASSUME NEW i \in 1..4 PROVE ReadBatch[call.n + 3 + i] = last[i]
    OBVIOUS
  <2>1. ASSUME NEW n \in Nat PROVE n + 3 + i \in 1..(n + 3) + 4 /\ ~(n + 3 + i <= n + 3) /\ (n + 3 + i) - (n + 3) = i
    OBVIOUS
  <2>2. /\ call.n + 3 + i \in 1..Len(both) + Len(last) /\ ~(call.n + 3 + i <= Len(both))
        /\ (call.n + 3 + i) - Len(both) = i
    BY <2>0, <2>1, Zenon
  <2> QED BY <1>6, <2>2, Zenon
<1>10. /\ ReadBatch[call.n + 4] = Nop /\ ReadBatch[call.n + 5] = GetCs
       /\ ReadBatch[call.n + 6] = Nop /\ ReadBatch[call.n + 7] = Arm(Off)
  <2>1. /\ call.n + 3 + 1 = call.n + 4 /\ call.n + 3 + 2 = call.n + 5
        /\ call.n + 3 + 3 = call.n + 6 /\ call.n + 3 + 4 = call.n + 7
    BY CallType
  <2>2. 1 \in 1..4 /\ 2 \in 1..4 /\ 3 \in 1..4 /\ 4 \in 1..4
    OBVIOUS
  <2> QED BY <1>3, <1>9, <2>1, <2>2
<1>11. Len(ReadBatch) = call.n + 7
  <2>1. Len(both) = call.n + 3 /\ Len(last) = 4 /\ call.n \in Nat
    BY <1>1, <1>2, <1>3, <1>5, CallType
  <2>2. Len(ReadBatch) = Len(both) + Len(last)
    BY <1>6
  <2> QED BY <2>1, <2>2
<1> QED BY <1>6, <1>7, <1>8, <1>10, <1>11
-----------------------------------------------------------------------------
(***************************************************************************)
(* One access, or the end of a bus access, keeps a write and a read in     *)
(* progress on track.                                                      *)
(***************************************************************************)
LEMMA WriteAccess ==
  ASSUME VarsInv, NEW d \in DebugModule, NEW b \in BOOLEAN, NEW k \in Nat, k < call.n + 2,
         WriteProgress(d, k), NEW x \in Access,
         k = 0 => x.op = "arm" /\ ~x.cfg.onAddr /\ (x.cfg.auto \/ call.n = 1),
         k = 1 => x = PutAddr(call.addr),
         k >= 2 => x = PutData(Word(k - 1))
  PROVE  LET e == After(d, x, b) IN
         /\ e \in DebugModule /\ e.mem = d.mem
         /\ WriteProgress(e, k + 1)
         /\ e.bus = "write" => e.addr \in Target \/ (d.bus = "write" /\ e.addr = d.addr)
<1> DEFINE e == After(d, x, b)
<1>0. call.addr \in Nat /\ call.n \in Nat
  BY CallType
<1>1. CASE k = 0
  <2>1. /\ e \in DebugModule /\ e.mem = d.mem /\ e.bus = d.bus /\ e.cfg = x.cfg
    BY <1>1, AfterArm
  <2>2. e.bus = "none"
    BY <1>1, <2>1 DEF WriteProgress
  <2> QED BY <1>1, <2>1, <2>2 DEF WriteProgress
<1>2. CASE k = 1
  <2>1. d.bus = "none" /\ ~d.cfg.onAddr /\ (d.cfg.auto \/ call.n = 1)
    BY <1>2 DEF WriteProgress
  <2>2. /\ e \in DebugModule /\ e.mem = d.mem /\ e.cfg = d.cfg /\ e.bus = "none" /\ e.addr = call.addr
    <3>1. /\ e \in DebugModule /\ e.mem = d.mem /\ e.cfg = d.cfg
          /\ e.addr = call.addr
          /\ e.bus = IF d.cfg.onAddr /\ ~Faulty(d) THEN "read" ELSE "none"
      <4>1. x = PutAddr(call.addr) /\ call.addr \in Nat
        BY <1>0, <1>2
      <4>2. d.bus = "none"
        BY <2>1
      <4> QED BY <4>1, <4>2, AfterAddr
    <3> HIDE DEF e
    <3> QED BY <2>1, <3>1
  <2> HIDE DEF e
  <2>3. WriteProgress(e, 2)
    BY <1>0, <2>1, <2>2 DEF WriteProgress
  <2> QED BY <1>2, <2>2, <2>3 DEF e
<1>3. CASE k >= 2
  <2>1. Word(k - 1) \in Nat /\ x = PutData(Word(k - 1))
    BY <1>3, WordType
  <2>2. /\ e \in DebugModule /\ e.mem = d.mem /\ e.addr = d.addr /\ e.cfg = d.cfg
        /\ d.bus # "none" => Faulty(e) /\ e.bus = d.bus
        /\ d.bus = "none" =>
             /\ e.data = Word(k - 1) /\ (Faulty(e) <=> Faulty(d))
             /\ e.bus = IF Faulty(d) THEN "none" ELSE "write"
    BY <2>1, AfterData, SMTT(30)
  <2> HIDE DEF e
  <2>3. ~e.cfg.onAddr /\ (e.cfg.auto \/ call.n = 1)
    BY <1>3, <2>2 DEF WriteProgress
  <2>4. CASE Faulty(e)
    <3>1. e.bus = "write" => d.bus = "write" /\ e.addr = d.addr
      BY <2>2, <2>4
    <3>2. WriteProgress(e, k + 1)
      BY <1>3, <2>3, <2>4 DEF WriteProgress
    <3> QED BY <2>2, <3>1, <3>2 DEF e
  <2>5. CASE ~Faulty(e)
    <3>1. d.bus = "none" /\ ~Faulty(d) /\ e.bus = "write" /\ e.data = Word(k - 1)
      BY <2>2, <2>5
    <3>2. d.addr = call.addr + (k - 2)
          /\ \A i \in 1..k - 2 : call.addr + i - 1 < Size /\ d.mem[call.addr + i - 1] = Word(i)
      BY <1>0, <1>3, <3>1 DEF WriteProgress
    <3>3. (k + 1) - 3 = k - 2 /\ (k + 1) - 2 = k - 1 /\ k + 1 >= 3
      BY <1>3
    <3>4. WriteProgress(e, k + 1)
      BY <2>2, <2>3, <3>1, <3>2, <3>3 DEF WriteProgress
    <3>5. e.addr \in Target
      BY <1>0, <1>3, <2>2, <3>2 DEF Target
    <3> QED BY <2>2, <3>4, <3>5 DEF e
  <2> QED BY <2>4, <2>5
<1> QED BY <1>1, <1>2, <1>3

\* A bus access that ends keeps the progress of a write.
LEMMA WriteSettles ==
  ASSUME VarsInv, NEW d \in DebugModule, NEW k \in Nat, k <= call.n + 2, WriteProgress(d, k)
  PROVE  WriteProgress(Finished(d), k)
<1> DEFINE e == Finished(d)
<1>0. call.addr \in Nat /\ call.n \in Nat /\ Size \in Nat
  BY CallType
<1>1. /\ e \in DebugModule /\ e.bus = "none" /\ e.cfg = d.cfg
      /\ Faulty(d) => Faulty(e)
      /\ \A a \in 0..Size - 1 : e.mem[a] # d.mem[a] => d.bus = "write" /\ a = d.addr
      /\ ~Faulty(e) /\ d.bus # "none" =>
           /\ d.addr < Size
           /\ d.bus = "write" => e.mem[d.addr] = d.data
           /\ d.cfg.auto => e.addr = d.addr + 1
  BY AfterFinished
<1>2. d.bus = "none" => e = d
  BY DEF Finished
<1> HIDE DEF e
<1>3. CASE d.bus = "none"
  BY <1>2, <1>3 DEF e
<1>4. CASE d.bus # "none" /\ Faulty(e)
  <2>1. k >= 2
    BY <1>4 DEF WriteProgress
  <2> QED BY <1>1, <1>4, <2>1 DEF WriteProgress, e
<1>5. CASE d.bus # "none" /\ ~Faulty(e)
  <2>1. k >= 3 /\ ~d.cfg.onAddr /\ (d.cfg.auto \/ call.n = 1)
        /\ d.bus = "write" /\ d.addr = call.addr + (k - 3) /\ d.data = Word(k - 2)
        /\ \A i \in 1..k - 3 : call.addr + i - 1 < Size /\ d.mem[call.addr + i - 1] = Word(i)
    BY <1>1, <1>5 DEF WriteProgress
  <2>2. k - 2 < call.n => e.addr = call.addr + (k - 2)
    BY <1>0, <1>1, <1>5, <2>1
  <2>3. ASSUME NEW i \in 1..k - 2
        PROVE  call.addr + i - 1 < Size /\ e.mem[call.addr + i - 1] = Word(i)
    <3>1. CASE i = k - 2
      <4>1. call.addr + i - 1 = d.addr
        BY <1>0, <2>1, <3>1
      <4> QED BY <1>1, <1>5, <2>1, <3>1, <4>1
    <3>2. CASE i # k - 2
      <4>1. i \in 1..k - 3
        BY <3>2
      <4>2. call.addr + i - 1 < Size /\ d.mem[call.addr + i - 1] = Word(i)
        BY <2>1, <4>1
      <4>3. call.addr + i - 1 \in 0..Size - 1 /\ call.addr + i - 1 # d.addr
        BY <1>0, <2>1, <4>1, <4>2
      <4> QED BY <1>1, <4>2, <4>3
    <3> QED BY <3>1, <3>2
  <2>4. WriteProgress(e, k)
    BY <1>1, <2>1, <2>2, <2>3 DEF WriteProgress
  <2> QED BY <2>4 DEF e
<1> QED BY <1>3, <1>4, <1>5

\* One more access of a read is one more step of its progress.
LEMMA ReadAccess ==
  ASSUME VarsInv, NEW d \in DebugModule, NEW b \in BOOLEAN, NEW k \in Nat,
         ReadProgress(d, k), NEW x \in Access,
         k = 0 => x = Arm(Prefetch),
         k = 1 => x = PutAddr(call.addr),
         k >= 2 => x = GetData
  PROVE  LET e == After(d, x, b) IN
         /\ e \in DebugModule /\ e.mem = d.mem
         /\ ReadProgress(e, k + 1)
         /\ e.bus = "write" => d.bus = "write" /\ e.addr = d.addr
         /\ Faulty(d) => Faulty(e)
<1> DEFINE e == After(d, x, b)
<1>0. call.addr \in Nat /\ Prefetch.auto /\ Prefetch.onAddr /\ Prefetch.onData
  BY CallType DEF Prefetch, Cfg
<1>1. CASE k = 0
  <2>1. x.op = "arm" /\ x.cfg = Prefetch /\ ~x.clear
    BY <1>1 DEF Arm
  <2>2. /\ e \in DebugModule /\ e.mem = d.mem /\ e.bus = d.bus /\ e.cfg = Prefetch /\ e.addr = d.addr
        /\ (Faulty(e) <=> Faulty(d))
    BY <2>1, AfterArm
  <2> HIDE DEF e
  <2>3. ReadProgress(e, 1)
    BY <1>1, <2>2 DEF ReadProgress
  <2> QED BY <1>1, <2>2, <2>3 DEF e
<1>2. CASE k = 1
  <2>1. d.bus = "none" /\ d.cfg = Prefetch
    BY <1>2 DEF ReadProgress
  <2>2. /\ e \in DebugModule /\ e.mem = d.mem /\ e.cfg = d.cfg /\ e.addr = call.addr
        /\ (Faulty(e) <=> Faulty(d))
        /\ e.bus = IF d.cfg.onAddr /\ ~Faulty(d) THEN "read" ELSE "none"
    BY <1>0, <1>2, <2>1, AfterAddr
  <2> HIDE DEF e
  <2>3. ReadProgress(e, 2)
    BY <1>0, <2>1, <2>2 DEF ReadProgress
  <2> QED BY <1>2, <2>1, <2>2, <2>3 DEF e
<1>3. CASE k >= 2
  <2>1. /\ e \in DebugModule /\ e.mem = d.mem /\ e.addr = d.addr /\ e.cfg = d.cfg /\ e.data = d.data
        /\ Faulty(d) => Faulty(e) /\ e.bus = d.bus
        /\ d.bus # "none" => e.bus = d.bus /\ Faulty(e)
        /\ d.bus = "none" =>
             /\ Faulty(e) <=> Faulty(d)
             /\ e.bus = IF d.cfg.onData /\ ~Faulty(d) THEN "read" ELSE "none"
             /\ e.out = d.data
    BY <1>3, AfterGetData
  <2> HIDE DEF e
  <2>2. d.cfg = Prefetch
    BY <1>3 DEF ReadProgress
  <2>3. CASE Faulty(e)
    <3>1. ReadProgress(e, k + 1)
      BY <1>3, <2>1, <2>2, <2>3 DEF ReadProgress
    <3> QED BY <1>0, <2>1, <2>2, <3>1 DEF e
  <2>4. CASE ~Faulty(e)
    <3>1. d.bus = "none" /\ ~Faulty(d) /\ e.bus = "read" /\ e.out = d.data
      BY <1>0, <2>1, <2>2, <2>4
    <3>2. d.addr = call.addr + (k - 1) /\ d.data = d.mem[call.addr + (k - 2)]
      BY <1>3, <3>1 DEF ReadProgress
    <3>3. (k + 1) - 2 = k - 1 /\ (k + 1) - 3 = k - 2
      BY <1>3
    <3>4. ReadProgress(e, k + 1)
      BY <1>3, <2>1, <2>2, <3>1, <3>2, <3>3 DEF ReadProgress
    <3> QED BY <2>1, <3>1, <3>4 DEF e
  <2> QED BY <2>3, <2>4
<1> QED BY <1>1, <1>2, <1>3

\* A bus access that ends keeps the progress of a read.
LEMMA ReadSettles ==
  ASSUME VarsInv, NEW d \in DebugModule, NEW k \in Nat, ReadProgress(d, k), d.bus # "write"
  PROVE  ReadProgress(Finished(d), k)
<1> DEFINE e == Finished(d)
<1>0. call.addr \in Nat /\ Prefetch.auto
  BY CallType DEF Prefetch, Cfg
<1>1. /\ e.bus = "none" /\ e.cfg = d.cfg /\ e.out = d.out /\ e.mem = d.mem
      /\ Faulty(d) => Faulty(e)
      /\ ~Faulty(e) /\ d.bus # "none" =>
           /\ d.bus = "read" => e.data = d.mem[d.addr]
           /\ d.cfg.auto => e.addr = d.addr + 1
  BY AfterFinished
<1>2. d.bus = "none" => e = d
  BY DEF Finished
<1> HIDE DEF e
<1>3. CASE d.bus = "none"
  BY <1>2, <1>3 DEF e
<1>4. CASE d.bus # "none"
  <2>1. k >= 2 /\ d.cfg = Prefetch
    BY <1>4 DEF ReadProgress
  <2>2. CASE Faulty(e)
    <3>1. ReadProgress(e, k)
      BY <1>1, <2>1, <2>2 DEF ReadProgress
    <3> QED BY <3>1 DEF e
  <2>3. CASE ~Faulty(e)
    <3>1. d.bus = "read" /\ d.addr = call.addr + (k - 2) /\ ~Faulty(d)
      BY <1>1, <1>4, <2>1, <2>3 DEF ReadProgress
    <3>2. e.data = e.mem[call.addr + (k - 2)] /\ e.addr = call.addr + (k - 1)
      BY <1>0, <1>1, <2>1, <2>3, <3>1
    <3>3. k >= 3 => e.out = e.mem[call.addr + (k - 3)]
      BY <1>1, <3>1 DEF ReadProgress
    <3>4. ReadProgress(e, k)
      BY <1>1, <2>1, <3>2, <3>3 DEF ReadProgress
    <3> QED BY <3>4 DEF e
  <2> QED BY <2>2, <2>3
<1> QED BY <1>3, <1>4
\* An access that writes no word never makes the bus write.
LEMMA AfterOther ==
  ASSUME NEW d \in DebugModule, NEW b \in BOOLEAN, NEW x \in Access, x.op # "data"
  PROVE  LET e == After(d, x, b) IN
         /\ e \in DebugModule /\ e.mem = d.mem
         /\ e.bus = "write" => d.bus = "write" /\ e.addr = d.addr
         /\ d.bus = "none" /\ ~Faulty(d) => ~Faulty(e)
<1>1. x.op \in {"nop", "getData", "getCs", "arm", "addr"}
  BY DEF Access
<1>2. CASE x.op = "nop"
  <2>1. x = Nop
    BY <1>2 DEF Access, Nop
  <2> QED BY <2>1, AfterNop
<1>3. CASE x.op = "getData"
  <2>1. x = GetData
    BY <1>3 DEF Access, GetData
  <2> QED BY <2>1, AfterGetData
<1>4. CASE x.op = "getCs"
  <2>1. x = GetCs
    BY <1>4 DEF Access, GetCs
  <2> QED BY <2>1, AfterGetCs
<1>5. CASE x.op = "arm"
  BY <1>5, AfterArm
<1>6. CASE x.op = "addr"
  <2>1. x.value \in Nat /\ x = PutAddr(x.value)
    BY <1>6 DEF Access, PutAddr
  <2> QED BY <2>1, AfterAddr
<1> QED BY <1>1, <1>2, <1>3, <1>4, <1>5, <1>6

\* A dmi_read that is retried performs its read twice; it writes nothing either.
LEMMA ReadTwice ==
  ASSUME NEW d \in DebugModule, d.bus = "none", NEW x \in Access, x.op \in Reads
  PROVE  LET e == [Performed(Finished(Performed(d, x)), x) EXCEPT !.flying = FALSE] IN
         e \in DebugModule /\ e.mem = d.mem /\ e.bus # "write"
<1>1. x.op = "getData" \/ x.op = "getCs"
  BY DEF Reads
<1>2. ASSUME NEW c \in DebugModule, c.bus = "none"
      PROVE  LET e == Performed(c, x) IN e \in DebugModule /\ e.mem = c.mem /\ e.bus # "write"
  BY <1>1, <1>2 DEF Performed, DebugModule, Start, Faulty
<1> DEFINE one == Performed(d, x)  two == Finished(one)  three == Performed(two, x)
<1>3. one \in DebugModule /\ one.mem = d.mem /\ one.bus # "write"
  BY <1>2
<1>4. two \in DebugModule /\ two.mem = one.mem /\ two.bus = "none"
  BY <1>3, AfterFinished
<1>5. three \in DebugModule /\ three.mem = two.mem /\ three.bus # "write"
  BY <1>2, <1>4
<1> HIDE DEF one, two, three
<1>6. LET e == [three EXCEPT !.flying = FALSE] IN e \in DebugModule /\ e.mem = three.mem /\ e.bus = three.bus
  BY <1>5 DEF DebugModule
<1> QED BY <1>3, <1>4, <1>5, <1>6 DEF one, two, three

-----------------------------------------------------------------------------
(***************************************************************************)
(* The steps                                                               *)
(***************************************************************************)
LEMMA SameMemory ==
  ASSUME BusInv, UNCHANGED <<call, before>>, dm'.mem = dm.mem,
         dm'.bus = "write" => Writing /\ dm'.addr \in Target
  PROVE  OnlyTargetWritten' /\ TargetInv'
BY DEF BusInv, OnlyTargetWritten, TargetInv, Writing, Target

\* Nothing is on the bus at first.
LEMMA InitBus == Init => BusInv
<1> SUFFICES ASSUME Init PROVE BusInv
  OBVIOUS
<1> USE BusAssumption DEF Init
<1>1. /\ <<>> \in Seq(Nat \X BOOLEAN) /\ <<>> \in Seq(Access) /\ <<>> \in Seq(Nat) /\ Len(<<>>) = 0
  BY EmptySeq
<1>2. dm \in DebugModule /\ dm.mem \in [0..Size - 1 -> Nat]
  BY DEF DebugModule, Off, Cfg
<1>3. VarsInv
  <2>1. call \in Call
    BY DEF Call
  <2>2. caps \in Seq(Nat \X BOOLEAN) /\ todo \in Seq(Access) /\ got \in Seq(Nat) /\ result \in Seq(Nat)
    BY <1>1
  <2>3. before \in [0..Size - 1 -> Nat]
    BY <1>2
  <2> QED BY <1>2, <2>1, <2>2, <2>3 DEF VarsInv
<1>4. dm.bus = "none"
  OBVIOUS
<1>5. OnlyTargetWritten /\ TargetInv /\ CallInv /\ ReadExact /\ WriteExact
  BY DEF OnlyTargetWritten, TargetInv, CallInv, ReadExact, WriteExact, Returned
<1>6. BatchInv /\ StreamInv /\ ClosingInv /\ SingleInv /\ GotInv
  BY DEF BatchInv, StreamInv, ClosingInv, SingleInv, GotInv
<1> QED BY <1>1, <1>3, <1>5, <1>6 DEF BusInv
\* A call begins on an idle bus.
LEMMA BeginBus ==
  ASSUME BusInv, NEW kind, NEW a \in 0..Size - 1, NEW n \in 1..MaxWords, NEW stage, NEW accesses,
         Begin(kind, a, n, stage, accesses), accesses \in Seq(Access),
         \/ kind = "read" /\ stage = "batch"
         \/ kind = "write" /\ stage = "stream"
         \/ kind = "read32" /\ stage = "single" /\ n = 1 /\ accesses = Read32'
         \/ kind = "write32" /\ stage = "single" /\ n = 1 /\ accesses = Write32'
  PROVE  BusInv'
<1> USE BusAssumption
<1>1. /\ call' = [kind |-> kind, addr |-> a, n |-> n] /\ pc' = stage /\ todo' = accesses /\ then' = "return"
      /\ sent' = 0 /\ caps' = <<>> /\ got' = <<>> /\ ret' = "none" /\ result' = <<>>
      /\ before' = dm.mem /\ pending' = FALSE /\ repeated' = FALSE /\ missed' = FALSE
      /\ dm' = dm /\ sticky' = sticky /\ busies' = busies /\ calls' = calls + 1 /\ calls < MaxCalls
      /\ dm.bus = "none"
  BY DEF Begin
<1>2. call'.kind = kind /\ call'.addr = a /\ call'.n = n /\ call' \in Call
  BY <1>1 DEF Call
<1>3. VarsInv'
  <2>1. <<>> \in Seq(Nat \X BOOLEAN) /\ <<>> \in Seq(Nat)
    BY EmptySeq
  <2>2. dm.mem \in [0..Size - 1 -> Nat]
    BY DEF BusInv, VarsInv, DebugModule
  <2>3. calls' \in 0..MaxCalls
    BY <1>1 DEF BusInv, VarsInv
  <2> QED BY <1>1, <1>2, <2>1, <2>2, <2>3 DEF BusInv, VarsInv
<1>4. OnlyTargetWritten' /\ TargetInv' /\ CallInv' /\ ReadExact' /\ WriteExact'
  BY <1>1, <1>2 DEF OnlyTargetWritten, TargetInv, CallInv, ReadExact, WriteExact, Returned
<1>5. ClosingInv'
  BY <1>1 DEF ClosingInv
<1>6. Len(<<>>) = 0
  BY EmptySeq
<1>7. BatchInv'
  <2>1. ReadProgress(dm, 0)'
    BY <1>1 DEF ReadProgress
  <2>2. Captured'
    BY <1>1, <1>2, <1>6 DEF Captured
  <2> QED BY <1>1, <1>2, <1>6, <2>1, <2>2 DEF BatchInv
<1>8. WriteProgress(dm, 0)'
  BY <1>1 DEF WriteProgress
<1>9. StreamInv'
  BY <1>1, <1>2, <1>8 DEF StreamInv
<1>10. (Len(todo') = 3 /\ LeftOf(todo)' /\ 3 - Len(todo') = 0) \/ kind \in {"read", "write"}
  <2> SUFFICES ASSUME kind \notin {"read", "write"}
               PROVE  Len(todo') = 3 /\ LeftOf(todo)' /\ 3 - Len(todo') = 0
    OBVIOUS
  <2>1. Len(todo') = 3
    BY <1>1 DEF Read32, Write32
  <2>2. ASSUME NEW i \in 1..Len(todo') PROVE todo'[i] = todo'[Len(todo') - Len(todo') + i]
    <3>1. Len(todo') - Len(todo') + i = i
      BY <2>1
    <3> QED BY <3>1
  <2> QED BY <2>1, <2>2 DEF LeftOf
<1>11. SingleInv'
  <2> SUFFICES ASSUME stage = "single" PROVE SingleInv'
    BY <1>1 DEF SingleInv
  <2>1. CASE kind = "read32"
    BY <1>1, <1>2, <1>10, <2>1 DEF SingleInv
  <2>2. CASE kind = "write32"
    <3>1. todo' = Write32' /\ LeftOf(todo)' /\ 3 - Len(todo') = 0
      BY <1>1, <1>10, <2>2
    <3>2. LeftOf(Write32)'
      BY <3>1 DEF LeftOf
    <3>3. WriteProgress(dm, 3 - Len(todo))'
      BY <1>8, <3>1 DEF WriteProgress
    <3> QED BY <1>1, <1>2, <2>2, <3>2, <3>3 DEF SingleInv
  <2> QED BY <2>1, <2>2
<1>12. GotInv'
  BY <1>1, <1>2, <1>6, <1>10, SMTT(30) DEF GotInv, Writing
<1>13. Len(result') <= MaxWords
  BY <1>1, <1>6
<1> QED BY <1>3, <1>4, <1>5, <1>7, <1>9, <1>11, <1>12, <1>13 DEF BusInv

\* A call begins with nothing of its own done.
LEMMA CallsBus == ASSUME BusInv, Calls PROVE BusInv'
<1> USE BusAssumption
<1>0. calls \in Nat
  BY DEF BusInv, VarsInv
<1>1. PICK a \in 0..Size - 1 :
        \/ ReadMem32(a) \/ WriteMem32(a)
        \/ \E n \in 1..MaxWords : ReadMem(a, n) \/ WriteMem(a, n)
  BY DEF Calls
<1>2. 1 \in 1..MaxWords /\ a \in Nat /\ <<>> \in Seq(Access)
  BY EmptySeq
<1>3. CASE ReadMem32(a)
  <2> DEFINE accesses == <<Arm(Cfg(FALSE, TRUE, FALSE)), PutAddr(a), GetData>>
  <2>1. Begin("read32", a, 1, "single", accesses)
    BY <1>3 DEF ReadMem32
  <2>2. accesses \in Seq(Access)
    <3>1. Cfg(FALSE, TRUE, FALSE) \in Config
      BY DEF Config, Cfg
    <3>2. Arm(Cfg(FALSE, TRUE, FALSE)) \in Access /\ PutAddr(a) \in Access /\ GetData \in Access
      BY <1>2, <3>1, AccessTypes
    <3>3. ASSUME NEW x \in Access PROVE <<x, PutAddr(a), GetData>> \in Seq(Access)
      BY <3>2
    <3> QED BY <3>2, <3>3, Zenon
  <2>3. accesses = Read32'
    BY <2>1 DEF Read32, Begin
  <2> HIDE DEF accesses
  <2> QED BY <1>2, <2>1, <2>2, <2>3, BeginBus
<1>4. CASE WriteMem32(a)
  <2> DEFINE accesses == <<Arm(Off), PutAddr(a), PutData(Size + (calls + 1) * MaxWords + 1)>>
  <2>1. Begin("write32", a, 1, "single", accesses)
    BY <1>4 DEF WriteMem32
  <2>2. accesses \in Seq(Access)
    <3>1. (calls + 1) * MaxWords \in Nat
      BY <1>0
    <3>2. Size + (calls + 1) * MaxWords + 1 \in Nat
      BY <3>1
    <3> DEFINE w == Size + (calls + 1) * MaxWords + 1
    <3> HIDE DEF w
    <3>3. Arm(Off) \in Access /\ PutAddr(a) \in Access /\ (w \in Nat => PutData(w) \in Access)
      BY <1>2, AccessTypes
    <3>4. w \in Nat => <<Arm(Off), PutAddr(a), PutData(w)>> \in Seq(Access)
      BY <3>3
    <3> QED BY <3>2, <3>4 DEF w
  <2>3. accesses = Write32'
    BY <2>1 DEF Write32, Word, Begin
  <2> HIDE DEF accesses
  <2> QED BY <1>2, <2>1, <2>2, <2>3, BeginBus
<1>5. ASSUME NEW n \in 1..MaxWords, ReadMem(a, n) \/ WriteMem(a, n) PROVE BusInv'
  BY <1>2, <1>5, BeginBus DEF ReadMem, WriteMem
<1> QED BY <1>1, <1>3, <1>4, <1>5
\* A scan is performed as a whole, or ignored.
LEMMA ScanDoes ==
  ASSUME NEW x, Scan(x)
  PROVE  \/ ~sticky /\ dm' = After(dm, x, x # Nop) /\ UNCHANGED <<sticky, busies>>
         \/ sticky' = TRUE /\ dm' = dm /\ (busies' = busies \/ (busies < MaxBusy /\ busies' = busies + 1))
BY DEF Scan, After

\* All of a plan is left of it at first.
LEMMA LeftOfAll ==
  \A plan : Len(plan) \in Nat => Len(plan) <= Len(plan)
                             /\ \A i \in 1..Len(plan) : plan[i] = plan[Len(plan) - Len(plan) + i]
<1> SUFFICES ASSUME NEW plan, Len(plan) \in Nat
             PROVE  /\ Len(plan) <= Len(plan)
                    /\ \A i \in 1..Len(plan) : plan[i] = plan[Len(plan) - Len(plan) + i]
  OBVIOUS
<1>1. \A i \in 1..Len(plan) : Len(plan) - Len(plan) + i = i
  OBVIOUS
<1>2. Len(plan) <= Len(plan)
  OBVIOUS
<1> QED BY <1>1, <1>2, Zenon

\* A scan of the write stream moves the write on.
LEMMA StreamScanBus == ASSUME BusInv, StreamScan PROVE BusInv'
<1> DEFINE x == WriteStream[sent + 1]  k == sent
<1>1. /\ pc = "stream" /\ sent < Len(WriteStream) /\ Scan(x) /\ sent' = sent + 1
      /\ UNCHANGED <<pc, call, caps, todo, then, got, ret, result, calls, history>>
  BY DEF StreamScan
<1>2. VarsInv /\ call.kind = "write" /\ sent \in Nat /\ sent < call.n + 2 /\ call.n \in Nat
      /\ (~sticky => WriteProgress(dm, sent)) /\ ~missed /\ caps = <<>>
  BY <1>1, WriteStreamIs, CallType DEF BusInv, StreamInv, VarsInv
<1>3. \/ ~sticky /\ dm' = After(dm, x, x # Nop) /\ UNCHANGED <<sticky, busies>>
      \/ sticky' = TRUE /\ dm' = dm /\ (busies' = busies \/ (busies < MaxBusy /\ busies' = busies + 1))
  BY <1>1, ScanDoes
<1>4. /\ x \in Access
      /\ sent = 0 => x = Arm(Autoincrement)
      /\ sent = 1 => x = PutAddr(call.addr)
      /\ sent >= 2 => x = PutData(Word(sent - 1))
  <2>1. sent + 1 \in 1..Len(WriteStream)
    BY <1>2, WriteStreamIs
  <2>2. x \in Access
    BY <1>2, <2>1, WriteStreamIs, ElementOfSeq
  <2>3. sent >= 2 => sent - 1 \in 1..call.n /\ (sent - 1) + 2 = sent + 1
    BY <1>2
  <2>4. CASE sent = 0
    BY <1>2, <2>2, <2>4, WriteStreamIs
  <2>5. CASE sent = 1
    BY <1>2, <2>2, <2>5, WriteStreamIs
  <2>6. CASE sent >= 2
    <3>1. WriteStream[(sent - 1) + 2] = PutData(Word(sent - 1))
      BY <1>2, <2>3, <2>6, WriteStreamIs
    <3>2. x = PutData(Word(sent - 1))
      BY <2>3, <2>6, <3>1
    <3> QED BY <2>2, <2>6, <3>2
  <2> QED BY <1>2, <2>4, <2>5, <2>6
<1> HIDE DEF x
<1>5. /\ dm' \in DebugModule /\ dm'.mem = dm.mem
      /\ ~sticky' => WriteProgress(dm', sent + 1)
      /\ dm'.bus = "write" => dm'.addr \in Target \/ (dm.bus = "write" /\ dm'.addr = dm.addr)
  <2>1. CASE ~sticky /\ dm' = After(dm, x, x # Nop)
    <3>1. sent = 0 => x.op = "arm" /\ ~x.cfg.onAddr /\ (x.cfg.auto \/ call.n = 1)
      BY <1>4 DEF Arm, Autoincrement, Cfg
    <3>2. dm \in DebugModule /\ (x # Nop) \in BOOLEAN /\ WriteProgress(dm, sent)
      BY <1>2, <2>1 DEF VarsInv
    <3> QED BY <1>2, <1>4, <2>1, <3>1, <3>2, WriteAccess
  <2>2. CASE sticky' = TRUE /\ dm' = dm
    BY <1>2, <2>2 DEF VarsInv
  <2> QED BY <1>3, <2>1, <2>2
<1>6. dm'.bus = "write" => Writing /\ dm'.addr \in Target
  BY <1>2, <1>5 DEF BusInv, TargetInv, Writing
<1>7. OnlyTargetWritten' /\ TargetInv'
  BY <1>1, <1>5, <1>6, SameMemory DEF history
<1>8. VarsInv'
  <2>1. busies' \in 0..MaxBusy
    BY <1>2, <1>3, BusAssumption DEF VarsInv
  <2>2. sticky' \in BOOLEAN
    BY <1>2, <1>3 DEF VarsInv
  <2> QED BY <1>1, <1>2, <1>5, <2>1, <2>2 DEF VarsInv, history
<1>9. StreamInv'
  <2>1. ~sticky' => WriteProgress(dm, sent)'
    BY <1>1, <1>5 DEF WriteProgress, Word
  <2> QED BY <1>1, <1>2, <2>1 DEF StreamInv, history
<1>10. CallInv' /\ GotInv' /\ ReadExact' /\ WriteExact' /\ Len(result') <= MaxWords
  BY <1>1 DEF BusInv, CallInv, GotInv, Writing, ReadExact, WriteExact, Returned
<1>11. BatchInv' /\ ClosingInv' /\ SingleInv'
  BY <1>1 DEF BatchInv, ClosingInv, SingleInv
<1> QED BY <1>7, <1>8, <1>9, <1>10, <1>11 DEF BusInv

\* The end of the stream leaves every word on its way.
LEMMA StreamDoneBus == ASSUME BusInv, StreamDone PROVE BusInv'
<1>1. /\ pc = "stream" /\ sent = Len(WriteStream) /\ dm.bus = "none" /\ sticky' = FALSE
      /\ UNCHANGED <<dm, call, caps, got, ret, result, calls, busies, history>>
  BY DEF StreamDone
<1>2. VarsInv /\ call.kind = "write" /\ sent = call.n + 2 /\ call.n \in Nat
      /\ (~sticky => WriteProgress(dm, sent)) /\ ~missed /\ caps = <<>>
  BY <1>1, WriteStreamIs, CallType DEF BusInv, StreamInv, VarsInv
<1>3. \/ sticky /\ pc' = "single" /\ todo' = WriteStream /\ then' = "closing" /\ sent' = sent
      \/ ~sticky /\ pc' = "closing" /\ sent' = 0 /\ UNCHANGED <<todo, then>>
  BY DEF StreamDone, Singly, SlowWrite
<1>4. OnlyTargetWritten' /\ TargetInv' /\ got = <<>>
  BY <1>1, SameMemory DEF BusInv, TargetInv, history, GotInv, Writing, Target
<1>5. VarsInv'
  <2>1. todo' \in Seq(Access)
    BY <1>2, <1>3, WriteStreamIs DEF VarsInv
  <2>2. sent' \in Nat /\ then' \in {"return", "closing", "raise"}
        /\ pc' \in {"ready", "batch", "stream", "closing", "single"}
    BY <1>2, <1>3 DEF VarsInv
  <2> QED BY <1>1, <1>2, <2>1, <2>2 DEF VarsInv, history
<1>6. CASE sticky
  <2>1. pc' = "single" /\ todo' = WriteStream /\ then' = "closing"
    BY <1>3, <1>6
  <2>2. WriteStream' = WriteStream /\ Len(todo') = call.n + 2 /\ call.n + 2 - Len(todo') = 0
    BY <1>1, <1>2, <2>1, WriteStreamIs DEF WriteStream, Words, Word
  <2>3. LeftOf(WriteStream)'
    <3>1. todo' = WriteStream' /\ Len(todo') \in Nat
      BY <1>2, <2>1, <2>2
    <3> QED BY <3>1, LeftOfAll DEF LeftOf
  <2>4. WriteProgress(dm, call.n + 2 - Len(todo))'
    BY <1>1, <2>2 DEF WriteProgress
  <2>5. SingleInv'
    BY <1>1, <1>2, <2>1, <2>3, <2>4 DEF SingleInv, history
  <2>6. CallInv' /\ GotInv' /\ ReadExact' /\ WriteExact' /\ Len(result') <= MaxWords
    BY <1>1, <1>2, <1>4, <2>1 DEF BusInv, CallInv, GotInv, Writing, ReadExact, WriteExact, Returned
  <2>7. BatchInv' /\ ClosingInv' /\ StreamInv'
    BY <2>1 DEF BatchInv, ClosingInv, StreamInv
  <2> QED BY <1>4, <1>5, <2>5, <2>6, <2>7 DEF BusInv
<1>7. CASE ~sticky
  <2>1. pc' = "closing" /\ sent' = 0
    BY <1>3, <1>7
  <2>2. ~Faulty(dm) => Written
    <3>1. (call.n + 2) - 2 = call.n
      BY <1>2
    <3> QED BY <1>1, <1>2, <1>7, <3>1 DEF WriteProgress, Written
  <2>3. ~Faulty(dm)' => Written'
    BY <1>1, <2>2 DEF Written, Word, Faulty
  <2>4. Len(caps') = 0
    BY <1>1, <1>2, EmptySeq
  <2>5. ClosingInv'
    BY <1>1, <1>2, <2>1, <2>3, <2>4 DEF ClosingInv, history
  <2>6. CallInv' /\ GotInv' /\ ReadExact' /\ WriteExact' /\ Len(result') <= MaxWords
    BY <1>1, <1>2, <1>4, <2>1 DEF BusInv, CallInv, GotInv, Writing, ReadExact, WriteExact, Returned
  <2>7. BatchInv' /\ SingleInv' /\ StreamInv'
    BY <2>1 DEF BatchInv, SingleInv, StreamInv
  <2> QED BY <1>4, <1>5, <2>5, <2>6, <2>7 DEF BusInv
<1> QED BY <1>6, <1>7

\* The scan that closes a write looks for an error of it.
LEMMA ClosingScanBus == ASSUME BusInv, ClosingScan PROVE BusInv'
<1> DEFINE x == Closing[sent + 1]
<1>1. /\ pc = "closing" /\ sent < Len(Closing) /\ Scan(x) /\ sent' = sent + 1
      /\ caps' = Append(caps, <<dm.out, sticky'>>)
      /\ missed' = (missed \/ sticky')
      /\ UNCHANGED <<pc, call, todo, then, got, ret, result, calls, before, pending, repeated>>
  BY DEF ClosingScan
<1>2. /\ VarsInv /\ call.kind = "write" /\ dm.bus = "none" /\ (~Faulty(dm) => Written)
      /\ sent = Len(caps) /\ sent \in Nat
      /\ ~missed =>
           /\ ~sticky
           /\ sent = 1 /\ dm.out = 0 => Written
           /\ sent >= 2 /\ caps[2][1] = 0 => Written
  BY <1>1 DEF BusInv, ClosingInv, VarsInv
<1>3. \/ ~sticky /\ dm' = After(dm, x, x # Nop) /\ UNCHANGED <<sticky, busies>>
      \/ sticky' = TRUE /\ dm' = dm /\ (busies' = busies \/ (busies < MaxBusy /\ busies' = busies + 1))
  BY <1>1, ScanDoes
<1>4. /\ sent \in {0, 1, 2} /\ x \in Access /\ x.op # "data"
      /\ sent = 0 => x = GetCs
      /\ sent = 1 => x = Nop
      /\ sent = 2 => x = Arm(Off)
  <2>1. Len(Closing) = 3
    BY DEF Closing
  <2>2. sent \in {0, 1, 2}
    BY <1>1, <1>2, <2>1
  <2>3. CASE sent = 0
    <3>1. x = GetCs
      BY <2>3 DEF Closing
    <3> QED BY <2>3, <3>1, AccessTypes DEF GetCs
  <2>4. CASE sent = 1
    <3>1. x = Nop
      BY <2>4 DEF Closing
    <3> QED BY <2>4, <3>1, AccessTypes DEF Nop
  <2>5. CASE sent = 2
    <3>1. x = Arm(Off)
      BY <2>5 DEF Closing
    <3>2. x \in Access
      BY <3>1, AccessTypes
    <3>3. x.op = "arm"
      BY <3>1 DEF Arm
    <3> QED BY <2>5, <3>1, <3>2, <3>3
  <2> QED BY <2>2, <2>3, <2>4, <2>5
<1> HIDE DEF x
<1>5. /\ dm' \in DebugModule /\ dm'.mem = dm.mem /\ dm'.bus = "none"
      /\ Faulty(dm') <=> Faulty(dm)
      /\ sent = 0 /\ ~sticky' /\ dm'.out = 0 => ~Faulty(dm)
  <2>1. CASE ~sticky /\ dm' = After(dm, x, x # Nop)
    <3> DEFINE b == x # Nop
    <3>1. dm \in DebugModule /\ b \in BOOLEAN /\ dm' = After(dm, x, b)
      BY <1>2, <2>1 DEF VarsInv
    <3> HIDE DEF b
    <3>2. CASE sent = 0
      <4>1. dm' = After(dm, GetCs, b)
        BY <1>4, <3>1, <3>2
      <4> QED BY <1>2, <3>1, <3>2, <4>1, AfterGetCs
    <3>3. CASE sent = 1
      <4>1. dm' = After(dm, Nop, b)
        BY <1>4, <3>1, <3>3
      <4> QED BY <1>2, <3>1, <3>3, <4>1, AfterNop
    <3>4. CASE sent = 2
      <4>1. x.op = "arm" /\ ~x.clear
        BY <1>4, <3>4 DEF Arm
      <4> QED BY <1>2, <1>4, <2>1, <3>1, <3>4, <4>1, AfterArm
    <3> QED BY <1>4, <3>2, <3>3, <3>4
  <2>2. CASE sticky' = TRUE /\ dm' = dm
    BY <1>2, <2>2 DEF VarsInv
  <2> QED BY <1>3, <2>1, <2>2
<1>6. OnlyTargetWritten' /\ TargetInv'
  BY <1>1, <1>5, SameMemory
<1>7. sticky' \in BOOLEAN /\ dm.out \in Nat /\ (~missed' => ~missed /\ ~sticky')
  BY <1>1, <1>2, <1>3 DEF VarsInv, DebugModule
<1>8. /\ caps' \in Seq(Nat \X BOOLEAN) /\ Len(caps') = Len(caps) + 1
      /\ caps'[Len(caps) + 1] = <<dm.out, sticky'>>
      /\ \A i \in 1..Len(caps) : caps'[i] = caps[i]
  <2>1. caps \in Seq(Nat \X BOOLEAN) /\ <<dm.out, sticky'>> \in Nat \X BOOLEAN
    BY <1>2, <1>7 DEF VarsInv
  <2> QED BY <1>1, <2>1, AppendProperties
<1>9. VarsInv'
  <2>1. busies' \in 0..MaxBusy /\ missed' \in BOOLEAN
    BY <1>1, <1>2, <1>3, <1>7, BusAssumption DEF VarsInv
  <2> QED BY <1>1, <1>2, <1>5, <1>7, <1>8, <2>1 DEF VarsInv
<1>10. Written => Written'
  BY <1>1, <1>5 DEF Written, Word
<1>11. ClosingInv'
  <2>1. ~Faulty(dm)' => Written'
    BY <1>2, <1>5, <1>10 DEF Faulty
  <2>2. ASSUME ~missed', sent' = 1, dm'.out = 0 PROVE Written'
    BY <1>1, <1>2, <1>5, <1>7, <1>10, <2>2
  <2>3. ASSUME ~missed', sent' >= 2, caps'[2][1] = 0 PROVE Written'
    <3>1. CASE sent = 1
      <4>1. caps'[2] = <<dm.out, sticky'>>
        BY <1>2, <1>8, <3>1
      <4>2. dm.out = 0
        BY <2>3, <4>1
      <4> QED BY <1>2, <1>7, <1>10, <2>3, <3>1, <4>2
    <3>2. CASE sent = 2
      <4>1. caps'[2] = caps[2]
        BY <1>2, <1>8, <3>2
      <4> QED BY <1>2, <1>7, <1>10, <2>3, <3>2, <4>1
    <3> QED BY <1>1, <1>4, <2>3, <3>1, <3>2
  <2>4. sent' = Len(caps') /\ sent' <= 3 /\ call'.kind = "write" /\ dm'.bus = "none"
    <3>1. sent + 1 = Len(caps')
      BY <1>2, <1>8
    <3>2. sent + 1 <= 3
      BY <1>4
    <3> QED BY <1>1, <1>2, <1>5, <3>1, <3>2
  <2> QED BY <1>7, <2>1, <2>2, <2>3, <2>4 DEF ClosingInv
<1>12. CallInv' /\ GotInv' /\ ReadExact' /\ WriteExact' /\ Len(result') <= MaxWords
  BY <1>1 DEF BusInv, CallInv, GotInv, Writing, ReadExact, WriteExact, Returned
<1>13. BatchInv' /\ SingleInv' /\ StreamInv'
  BY <1>1 DEF BatchInv, SingleInv, StreamInv
<1> QED BY <1>6, <1>9, <1>11, <1>12, <1>13 DEF BusInv

\* A write that closes without an error is whole; another is written again.
LEMMA ClosingDoneBus == ASSUME BusInv, ClosingDone PROVE BusInv'
<1>1. /\ pc = "closing" /\ sent = Len(Closing)
      /\ UNCHANGED <<dm, sticky, call, sent, caps, got, result, calls, busies, history>>
  BY DEF ClosingDone
<1>2. VarsInv /\ call.kind = "write" /\ dm.bus = "none"
      /\ (~missed => ~sticky /\ (sent >= 2 /\ caps[2][1] = 0 => Written))
  BY <1>1 DEF BusInv, ClosingInv
<1>3. \/ pc' = "single" /\ todo' = ClearUp /\ then' = "raise" /\ ret' = ret
      \/ caps[2][1] = 0 /\ pc' = "ready" /\ ret' = "ok" /\ UNCHANGED <<todo, then>>
  BY DEF ClosingDone, Singly, ClearUp
<1>4. OnlyTargetWritten' /\ TargetInv' /\ got = <<>>
  BY <1>1, <1>2, SameMemory DEF BusInv, history, GotInv
<1>5. ClearUp \in Seq(Access) /\ Len(ClearUp) \in Nat
  BY AccessTypes DEF ClearUp
<1>6. VarsInv'
  <2>1. todo' \in Seq(Access) /\ then' \in {"return", "closing", "raise"} /\ ret' \in {"none", "ok", "raise"}
        /\ pc' \in {"ready", "batch", "stream", "closing", "single"}
    BY <1>2, <1>3, <1>5 DEF VarsInv
  <2> QED BY <1>1, <1>2, <2>1 DEF VarsInv, history
<1>7. BatchInv' /\ StreamInv' /\ ClosingInv'
  BY <1>3 DEF BatchInv, StreamInv, ClosingInv
<1>8. CASE pc' = "single" /\ todo' = ClearUp /\ then' = "raise"
  <2>1. LeftOf(ClearUp)'
    BY <1>5, <1>8, LeftOfAll DEF LeftOf, ClearUp
  <2>2. SingleInv'
    BY <1>1, <1>2, <1>8, <2>1 DEF SingleInv
  <2>3. CallInv' /\ GotInv' /\ ReadExact' /\ WriteExact' /\ Len(result') <= MaxWords
    BY <1>1, <1>2, <1>4, <1>8 DEF BusInv, CallInv, GotInv, Writing, ReadExact, WriteExact, Returned
  <2> QED BY <1>4, <1>6, <1>7, <2>2, <2>3 DEF BusInv
<1>9. CASE caps[2][1] = 0 /\ pc' = "ready" /\ ret' = "ok"
  <2>1. ~missed => Written
    <3>1. sent >= 2
      BY <1>1 DEF Closing
    <3> QED BY <1>2, <1>9, <3>1
  <2>2. Written => Mapped
    <3>1. call.n \in Nat /\ call.n >= 1 /\ call.addr \in Nat /\ Size \in Nat
      BY <1>1, <1>2, CallType DEF BusInv, CallInv
    <3>2. call.n \in 1..call.n
      BY <3>1
    <3> QED BY <3>1, <3>2 DEF Written, Mapped
  <2>3. WriteExact'
    BY <1>1, <2>1, <2>2 DEF WriteExact, Written, Mapped, Word, history
  <2>4. CallInv' /\ GotInv' /\ ReadExact' /\ Len(result') <= MaxWords
    BY <1>1, <1>2, <1>9 DEF BusInv, CallInv, GotInv, Writing, ReadExact, Returned
  <2>5. SingleInv'
    BY <1>9 DEF SingleInv
  <2> QED BY <1>4, <1>6, <1>7, <2>3, <2>4, <2>5 DEF BusInv
<1> QED BY <1>3, <1>8, <1>9
\* The bus finishing an access keeps the invariant.
LEMMA SettleBus == ASSUME BusInv, Settle PROVE BusInv'
<1>1. /\ dm.bus # "none" /\ dm' = Finished(dm)
      /\ UNCHANGED <<sticky, pc, call, sent, caps, todo, then, got, ret, result, calls, busies, history>>
  BY DEF Settle
<1>2. VarsInv /\ dm \in DebugModule
  BY DEF BusInv, VarsInv
<1>3. /\ dm' \in DebugModule /\ dm'.bus = "none" /\ dm'.out = dm.out
      /\ Faulty(dm) => Faulty(dm')
      /\ dm.bus # "write" => dm'.mem = dm.mem
      /\ \A a \in 0..Size - 1 : dm'.mem[a] # dm.mem[a] => dm.bus = "write" /\ a = dm.addr
      /\ Faulty(dm') => Faulty(dm) \/ (dm.bus # "none" /\ dm.addr >= Size)
  BY <1>1, <1>2, AfterFinished
<1>4. VarsInv'
  BY <1>1, <1>2, <1>3 DEF VarsInv, history
<1>5. OnlyTargetWritten'
  <2> SUFFICES ASSUME NEW a \in 0..Size - 1, dm'.mem[a] # before[a] PROVE Writing /\ a \in Target
    BY <1>1 DEF OnlyTargetWritten, Writing, Target, history
  <2>1. CASE dm'.mem[a] # dm.mem[a]
    BY <1>3, <2>1 DEF BusInv, TargetInv
  <2>2. CASE dm'.mem[a] = dm.mem[a]
    BY <2>2 DEF BusInv, OnlyTargetWritten
  <2> QED BY <2>1, <2>2
<1>6. TargetInv'
  BY <1>3 DEF TargetInv
<1>7. pc # "ready" /\ pc # "closing"
  BY <1>1 DEF BusInv, CallInv, ClosingInv
<1>8. CallInv' /\ GotInv' /\ ReadExact' /\ WriteExact' /\ Len(result') <= MaxWords
  BY <1>1, <1>7 DEF BusInv, CallInv, GotInv, Writing, ReadExact, WriteExact, Returned
<1>9. call.kind \in {"read", "read32"} => dm.bus # "write"
  BY DEF BusInv, TargetInv, Writing
<1>10. call.n \in Nat /\ call.addr \in Nat /\ sent \in Nat
  BY <1>2, CallType DEF VarsInv
<1>11. StreamInv'
  <2> SUFFICES ASSUME pc = "stream" PROVE StreamInv'
    BY <1>1 DEF StreamInv
  <2>1. ~sticky => WriteProgress(dm', sent)
    BY <1>1, <1>2, <1>10, WriteSettles DEF BusInv, StreamInv
  <2>2. ~sticky => WriteProgress(dm, sent)'
    BY <1>1, <2>1 DEF WriteProgress, Word
  <2> QED BY <1>1, <2>2 DEF BusInv, StreamInv, history
<1>12. BatchInv'
  <2> SUFFICES ASSUME pc = "batch" PROVE BatchInv'
    BY <1>1 DEF BatchInv
  <2>1. call.kind = "read" /\ dm'.mem = dm.mem
    BY <1>3, <1>9 DEF BusInv, BatchInv
  <2>2. ~sticky /\ sent <= call.n + 3 => ReadProgress(dm', sent)
    BY <1>1, <1>2, <1>9, <1>10, <2>1, ReadSettles DEF BusInv, BatchInv
  <2>3. ~sticky /\ sent <= call.n + 3 => ReadProgress(dm, sent)'
    BY <1>1, <2>2 DEF ReadProgress
  <2>4. Captured => Captured'
    BY <1>1, <2>1 DEF Captured
  <2>5. /\ ~sticky /\ sent <= call.n + 4 /\ ~Faulty(dm)' => Captured'
        /\ ~sticky /\ sent = call.n + 5 /\ dm'.out = 0 => Captured'
        /\ ~sticky /\ sent >= call.n + 6 /\ caps[call.n + 6][1] = 0 => Captured'
    <3>1. Faulty(dm)' <=> Faulty(dm')
      BY DEF Faulty
    <3> QED BY <1>3, <2>4, <3>1 DEF BusInv, BatchInv
  <2> QED BY <1>1, <2>1, <2>3, <2>5 DEF BusInv, BatchInv
<1>13. ClosingInv'
  BY <1>1, <1>7 DEF ClosingInv
<1>14. SingleInv'
  <2> SUFFICES ASSUME pc = "single" PROVE SingleInv'
    BY <1>1 DEF SingleInv
  <2>a. Len(todo) \in Nat
    BY <1>2, LenProperties DEF VarsInv
  <2>1. CASE call.kind = "read32" /\ then = "return" /\ LeftOf(Read32)
    BY <1>1, <2>1 DEF SingleInv, LeftOf, Read32
  <2>2. CASE /\ call.kind = "write32" /\ then = "return"
             /\ LeftOf(Write32) /\ WriteProgress(dm, 3 - Len(todo))
    <3>1. call.n = 1 /\ Len(todo) <= 3
      BY <2>2 DEF BusInv, CallInv, LeftOf, Write32
    <3>2. WriteProgress(dm', 3 - Len(todo))
      BY <1>1, <1>2, <2>a, <2>2, <3>1, WriteSettles
    <3>3. WriteProgress(dm, 3 - Len(todo))'
      BY <1>1, <3>2 DEF WriteProgress, Word
    <3>4. LeftOf(Write32)'
      BY <1>1, <2>2 DEF LeftOf, Write32, Word
    <3> QED BY <1>1, <2>2, <3>3, <3>4 DEF SingleInv
  <2>3. CASE /\ call.kind = "write" /\ then = "closing"
             /\ LeftOf(WriteStream) /\ WriteProgress(dm, call.n + 2 - Len(todo))
             /\ ~sticky /\ ~missed
    <3>1. Len(todo) <= call.n + 2
      BY <1>2, <2>3, WriteStreamIs DEF LeftOf
    <3>2. WriteProgress(dm', call.n + 2 - Len(todo))
      BY <1>1, <1>2, <1>10, <2>a, <2>3, <3>1, WriteSettles
    <3>3. WriteProgress(dm, call.n + 2 - Len(todo))'
      BY <1>1, <3>2 DEF WriteProgress, Word
    <3>4. LeftOf(WriteStream)'
      BY <1>1, <2>3 DEF LeftOf, WriteStream, Words, Word
    <3> QED BY <1>1, <2>3, <3>3, <3>4 DEF SingleInv, history
  <2>4. CASE call.kind = "write" /\ then = "raise" /\ LeftOf(ClearUp)
    BY <1>1, <2>4 DEF SingleInv, LeftOf, ClearUp
  <2>5. CASE /\ call.kind = "read" /\ then = "return"
             /\ LeftOf(ClearAndSlowRead)
             /\ Len(todo) >= call.n + 3 => dm.bus = "none"
             /\ ~repeated /\ Len(todo) <= call.n + 3 /\ Len(todo) >= 1 =>
                  ReadProgress(dm, call.n + 3 - Len(todo))
             /\ Mapped /\ ~repeated /\ ~pending =>
                  /\ Len(todo) <= call.n + 4 /\ Len(todo) >= 2 => ~Faulty(dm)
                  /\ Gathered(got, Len(got))
    <3>1. Len(todo) <= call.n + 2 /\ dm'.mem = dm.mem /\ dm.bus = "read"
      BY <1>1, <1>2, <1>3, <1>9, <1>10, <2>a, <2>5 DEF DebugModule
    <3>2. ~repeated /\ Len(todo) >= 1 => ReadProgress(dm', call.n + 3 - Len(todo))
      BY <1>1, <1>2, <1>10, <2>a, <2>5, <3>1, ReadSettles
    <3>3. ~repeated /\ Len(todo) >= 1 => ReadProgress(dm, call.n + 3 - Len(todo))'
      BY <1>1, <3>2 DEF ReadProgress
    <3>4. LeftOf(ClearAndSlowRead)'
      BY <1>1, <2>5 DEF LeftOf, ClearAndSlowRead, SlowRead
    <3>5. ASSUME Mapped, ~repeated, ~pending, Len(todo) >= 2 PROVE ~Faulty(dm')
      <4>1. ~Faulty(dm) /\ ReadProgress(dm, call.n + 3 - Len(todo))
        BY <1>10, <2>a, <2>5, <3>1, <3>5
      <4>2. call.n + 3 - Len(todo) >= 2
        BY <1>10, <2>a, <3>1, <3>1, <4>1 DEF ReadProgress
      <4>3. dm.addr = call.addr + ((call.n + 3 - Len(todo)) - 2)
        <5>1. ASSUME NEW k, ReadProgress(dm, k), k >= 2 PROVE dm.addr = call.addr + (k - 2)
          BY <3>1, <4>1, <5>1 DEF ReadProgress
        <5> QED BY <4>1, <4>2, <5>1, Zenon
      <4>4. dm.addr < Size
        BY <1>2, <1>10, <2>a, <3>5, <4>2, <4>3, CallType DEF Mapped
      <4> QED BY <1>2, <1>3, <4>1, <4>4, CallType DEF DebugModule
    <3>6. Gathered(got, Len(got)) => Gathered(got, Len(got))'
      BY <1>1, <3>1 DEF Gathered
    <3>7. (Mapped <=> Mapped') /\ (Faulty(dm)' <=> Faulty(dm'))
      BY <1>1 DEF Mapped, Faulty
    <3>8. ~(Len(todo') >= call.n + 3)
      BY <1>1, <1>10, <2>a, <3>1
    <3> QED BY <1>1, <1>10, <2>a, <2>5, <3>1, <3>3, <3>4, <3>5, <3>6, <3>7, <3>8 DEF SingleInv, history
  <2> QED BY <2>1, <2>2, <2>3, <2>4, <2>5 DEF BusInv, SingleInv
<1> QED BY <1>4, <1>5, <1>6, <1>8, <1>11, <1>12, <1>13, <1>14 DEF BusInv
\* The words of a read are the ones memory held when it began.
LEMMA WordsAreContent ==
  ASSUME BusInv, call.kind = "read", Mapped, NEW s \in Seq(Nat), Len(s) = call.n,
         \A i \in 1..call.n : s[i] = dm.mem[call.addr + i - 1]
  PROVE  s = Content
<1>1. call.addr \in Nat /\ call.n \in Nat /\ Size \in Nat /\ call.addr + call.n <= Size
  BY CallType DEF BusInv, Mapped
<1>2. ASSUME NEW i \in 1..call.n PROVE s[i] = before[call.addr + i - 1] /\ before[call.addr + i - 1] \in Nat
  <2>1. call.addr + i - 1 \in 0..Size - 1
    BY <1>1
  <2>2. dm.mem[call.addr + i - 1] = before[call.addr + i - 1]
    BY <2>1 DEF BusInv, OnlyTargetWritten, Writing
  <2> QED BY <2>1, <2>2 DEF BusInv, VarsInv
<1>3. Content \in Seq(Nat) /\ Len(Content) = call.n /\ \A i \in 1..call.n : Content[i] = before[call.addr + i - 1]
  <2>1. \A i \in 1..call.n : before[call.addr + i - 1] \in Nat
    BY <1>2
  <2>2. Content \in [1..call.n -> Nat] /\ \A i \in 1..call.n : Content[i] = before[call.addr + i - 1]
    BY <2>1 DEF Content
  <2>3. ASSUME NEW n \in Nat, NEW f \in [1..n -> Nat] PROVE f \in Seq(Nat) /\ Len(f) = n
    OBVIOUS
  <2> QED BY <1>1, <2>2, <2>3, Zenon
<1> QED BY <1>1, <1>2, <1>3, SeqEqual

\* A scan of a batched read moves the read on.
LEMMA BatchScanBus == ASSUME BusInv, BatchScan PROVE BusInv'
<1> DEFINE x == ReadBatch[sent + 1]  b == x # Nop
<1>1. /\ pc = "batch" /\ sent < Len(ReadBatch) /\ Scan(x) /\ sent' = sent + 1
      /\ caps' = Append(caps, <<dm.out, sticky'>>)
      /\ UNCHANGED <<pc, call, todo, then, got, ret, result, calls, history>>
  BY DEF BatchScan
<1>2. /\ VarsInv /\ dm \in DebugModule /\ call.kind = "read" /\ sent = Len(caps) /\ sent \in Nat
      /\ ~sticky =>
           /\ sent <= call.n + 3 => ReadProgress(dm, sent)
           /\ sent <= call.n + 4 /\ ~Faulty(dm) => Captured
           /\ sent = call.n + 5 /\ dm.out = 0 => Captured
           /\ sent >= call.n + 6 /\ caps[call.n + 6][1] = 0 => Captured
  BY <1>1 DEF BusInv, BatchInv, VarsInv
<1>3. call.n \in Nat /\ call.addr \in Nat /\ sent < call.n + 7
  BY <1>1, <1>2, CallType, ReadBatchIs
<1>4. \/ ~sticky /\ dm' = After(dm, x, b) /\ UNCHANGED <<sticky, busies>>
      \/ sticky' = TRUE /\ dm' = dm /\ (busies' = busies \/ (busies < MaxBusy /\ busies' = busies + 1))
  BY <1>1, ScanDoes
<1>5. /\ x \in Access
      /\ sent = 0 => x = Arm(Prefetch)
      /\ sent = 1 => x = PutAddr(call.addr)
      /\ sent \in 2..call.n + 2 => x = GetData
      /\ sent = call.n + 3 => x = Nop
      /\ sent = call.n + 4 => x = GetCs
      /\ sent = call.n + 5 => x = Nop
      /\ sent = call.n + 6 => x = Arm(Off)
  <2>1. sent + 1 \in 1..Len(ReadBatch)
    BY <1>1, <1>2, ReadBatchIs
  <2>2. x \in Access
    BY <1>2, <2>1, ReadBatchIs, ElementOfSeq
  <2>3. CASE sent = 0
    BY <1>2, <1>3, <2>2, <2>3, ReadBatchIs, SMTT(30)
  <2>4. CASE sent = 1
    BY <1>2, <1>3, <2>2, <2>4, ReadBatchIs
  <2>5. CASE sent \in 2..call.n + 2
    <3>1. sent + 1 \in 3..call.n + 3
      BY <1>3, <2>5
    <3>2. x = GetData
      BY <1>2, <3>1, ReadBatchIs
    <3> QED BY <1>3, <2>2, <2>5, <3>2
  <2>6. CASE sent = call.n + 3
    <3>1. sent + 1 = call.n + 4
      BY <1>3, <2>6
    <3>2. x = Nop
      BY <1>2, <3>1, ReadBatchIs
    <3> QED BY <1>3, <2>2, <2>6, <3>2
  <2>7. CASE sent = call.n + 4
    <3>1. sent + 1 = call.n + 5
      BY <1>3, <2>7
    <3>2. x = GetCs
      BY <1>2, <3>1, ReadBatchIs
    <3> QED BY <1>3, <2>2, <2>7, <3>2
  <2>8. CASE sent = call.n + 5
    <3>1. sent + 1 = call.n + 6
      BY <1>3, <2>8
    <3>2. x = Nop
      BY <1>2, <3>1, ReadBatchIs
    <3> QED BY <1>3, <2>2, <2>8, <3>2
  <2>9. CASE sent = call.n + 6
    <3>1. sent + 1 = call.n + 7
      BY <1>3, <2>9
    <3>2. x = Arm(Off)
      BY <1>2, <3>1, ReadBatchIs
    <3> QED BY <1>3, <2>2, <2>9, <3>2
  <2>10. ASSUME NEW m \in Nat, NEW n \in Nat, m < n + 7
         PROVE  \/ m = 0 \/ m = 1 \/ m \in 2..n + 2 \/ m = n + 3 \/ m = n + 4 \/ m = n + 5 \/ m = n + 6
    BY <2>10
  <2> HIDE DEF x
  <2> QED BY <1>2, <1>3, <2>3, <2>4, <2>5, <2>6, <2>7, <2>8, <2>9, <2>10, Zenon
<1>a. b \in BOOLEAN
  OBVIOUS
<1> HIDE DEF x, b
\* What the scan, when it is not ignored, does at each position.
<1>6. ASSUME ~sticky, dm' = After(dm, x, b)
      PROVE  /\ dm' \in DebugModule /\ dm'.mem = dm.mem
             /\ dm'.bus = "write" => dm.bus = "write" /\ dm'.addr = dm.addr
             /\ Faulty(dm) => Faulty(dm')
             /\ sent <= call.n + 2 => ReadProgress(dm', sent + 1)
             /\ sent = call.n + 4 /\ dm'.out = 0 => ~Faulty(dm)
  <2>1. CASE sent <= call.n + 2
    <3>1. /\ sent = 0 => x = Arm(Prefetch)
          /\ sent = 1 => x = PutAddr(call.addr)
          /\ sent >= 2 => x = GetData
      BY <1>2, <1>3, <1>5, <2>1
    <3>2. ReadProgress(dm, sent)
      BY <1>2, <1>3, <1>6, <2>1
    <3>3. ~(sent = call.n + 4)
      BY <1>3, <2>1
    <3> QED BY <1>2, <1>5, <1>6, <1>a, <3>1, <3>2, <3>3, ReadAccess
  <2>2. CASE x = Nop /\ (sent = call.n + 3 \/ sent = call.n + 5)
    <3>1. dm' = After(dm, Nop, b)
      BY <1>6, <2>2
    <3>2. ~(sent = call.n + 4) /\ ~(sent <= call.n + 2)
      BY <1>3, <2>2
    <3> QED BY <1>2, <1>a, <3>1, <3>2, AfterNop
  <2>3. CASE sent = call.n + 4
    <3>1. dm' = After(dm, GetCs, b)
      BY <1>5, <1>6, <2>3
    <3>2. ~(sent <= call.n + 2)
      BY <1>3, <2>3
    <3> QED BY <1>2, <1>a, <3>1, <3>2, AfterGetCs
  <2>4. CASE sent = call.n + 6
    <3>1. x.op = "arm" /\ ~x.clear
      BY <1>5, <2>4 DEF Arm
    <3>2. ~(sent = call.n + 4) /\ ~(sent <= call.n + 2)
      BY <1>3, <2>4
    <3> QED BY <1>2, <1>5, <1>6, <1>a, <3>1, <3>2, AfterArm
  <2>5. \/ sent <= call.n + 2 \/ sent = call.n + 3 \/ sent = call.n + 4
        \/ sent = call.n + 5 \/ sent = call.n + 6
    <3>1. ASSUME NEW m \in Nat, NEW n \in Nat, m < n + 7
          PROVE  m <= n + 2 \/ m = n + 3 \/ m = n + 4 \/ m = n + 5 \/ m = n + 6
      BY <3>1
    <3> QED BY <1>2, <1>3, <3>1, Zenon
  <2> QED BY <1>5, <2>1, <2>2, <2>3, <2>4, <2>5
<1>7. /\ dm' \in DebugModule /\ dm'.mem = dm.mem
      /\ dm'.bus = "write" => dm.bus = "write" /\ dm'.addr = dm.addr
  BY <1>2, <1>4, <1>6
<1>8. OnlyTargetWritten' /\ TargetInv'
  BY <1>1, <1>7, SameMemory DEF BusInv, TargetInv, history
<1>9. sticky' \in BOOLEAN /\ dm.out \in Nat
  BY <1>2, <1>4 DEF VarsInv, DebugModule
<1>10. /\ caps' \in Seq(Nat \X BOOLEAN) /\ Len(caps') = sent + 1
       /\ caps'[sent + 1] = <<dm.out, sticky'>>
       /\ \A i \in 1..sent : caps'[i] = caps[i]
  <2>1. caps \in Seq(Nat \X BOOLEAN) /\ <<dm.out, sticky'>> \in Nat \X BOOLEAN
    BY <1>2, <1>9 DEF VarsInv
  <2> QED BY <1>1, <1>2, <2>1, AppendProperties
<1>11. VarsInv'
  <2>1. busies' \in 0..MaxBusy
    BY <1>2, <1>4, BusAssumption DEF VarsInv
  <2> QED BY <1>1, <1>2, <1>7, <1>9, <1>10, <2>1 DEF VarsInv, history
\* The capture of this scan, where it is one of the words.
<1>12. ASSUME ~sticky', Captured, sent <= call.n + 2 => ~Faulty(dm) PROVE Captured'
  <2> SUFFICES ASSUME NEW i \in 1..call.n, 3 + i <= sent + 1
               PROVE  caps'[3 + i][1] = dm.mem[call.addr + i - 1]
    BY <1>1, <1>7, <1>10 DEF Captured
  <2>1. CASE 3 + i <= sent
    <3>1. 3 + i \in 1..sent /\ 3 + i <= Len(caps)
      BY <1>2, <1>3, <2>1
    <3> QED BY <1>10, <1>12, <3>1 DEF Captured
  <2>2. CASE 3 + i = sent + 1
    <3>1. sent = i + 2 /\ sent <= call.n + 2 /\ sent >= 3 /\ sent <= call.n + 3
      BY <1>2, <1>3, <2>2
    <3>2. ~sticky /\ ~Faulty(dm)
      BY <1>4, <1>12, <3>1
    <3>3. ReadProgress(dm, sent)
      BY <1>2, <3>1, <3>2
    <3>4. dm.out = dm.mem[call.addr + (sent - 3)]
      BY <3>1, <3>2, <3>3 DEF ReadProgress
    <3>5. call.addr + (sent - 3) = call.addr + i - 1
      BY <1>3, <3>1
    <3> QED BY <1>10, <2>2, <3>4, <3>5
  <2> QED BY <1>2, <2>1, <2>2
<1>13. BatchInv'
  <2>1. sticky' => caps'[sent'][2]
    BY <1>1, <1>10
  <2>2. ~sticky' => ~sticky /\ dm' = After(dm, x, b)
    BY <1>4
  <2>3. ASSUME ~sticky', sent' <= call.n + 3 PROVE ReadProgress(dm, sent)'
    <3>1. sent <= call.n + 2
      BY <1>1, <1>2, <1>3, <2>3
    <3>2. ReadProgress(dm', sent + 1)
      BY <1>6, <2>2, <2>3, <3>1
    <3> QED BY <1>1, <3>2 DEF ReadProgress
  <2>4. ASSUME ~sticky', sent' <= call.n + 4, ~Faulty(dm') PROVE Captured'
    <3>1. sent <= call.n + 4 /\ ~Faulty(dm)
      BY <1>1, <1>2, <1>3, <1>6, <2>2, <2>4
    <3> QED BY <1>2, <1>12, <2>2, <2>4, <3>1
  <2>5. ASSUME ~sticky', sent' = call.n + 5, dm'.out = 0 PROVE Captured'
    <3>1. sent = call.n + 4 /\ sent <= call.n + 4
      BY <1>1, <1>2, <1>3, <2>5
    <3>2. ~Faulty(dm)
      BY <1>6, <2>2, <2>5, <3>1
    <3> QED BY <1>2, <1>12, <2>2, <2>5, <3>1, <3>2
  <2>6. ASSUME ~sticky', sent' >= call.n + 6, caps'[call.n + 6][1] = 0 PROVE Captured'
    <3>1. ~(sent <= call.n + 2)
      BY <1>1, <1>2, <1>3, <2>6
    <3>2. CASE sent = call.n + 5
      <4>1. call.n + 6 = sent + 1
        BY <1>3, <3>2
      <4>2. dm.out = 0
        BY <1>10, <2>6, <4>1
      <4> QED BY <1>2, <1>12, <2>2, <2>6, <3>1, <3>2, <4>2
    <3>3. CASE sent >= call.n + 6
      <4>1. call.n + 6 \in 1..sent
        BY <1>2, <1>3, <3>3
      <4>2. caps[call.n + 6][1] = 0
        BY <1>10, <2>6, <4>1
      <4> QED BY <1>2, <1>12, <2>2, <2>6, <3>1, <3>3, <4>2
    <3> QED BY <1>1, <1>2, <1>3, <2>6, <3>2, <3>3
  <2>7. sent' = Len(caps') /\ sent' <= call.n + 7 /\ call' = call
    BY <1>1, <1>2, <1>3, <1>10
  <2>8. Faulty(dm)' <=> Faulty(dm')
    BY DEF Faulty
  <2> QED BY <1>2, <2>1, <2>3, <2>4, <2>5, <2>6, <2>7, <2>8 DEF BatchInv
<1>14. CallInv' /\ GotInv' /\ ReadExact' /\ WriteExact' /\ Len(result') <= MaxWords
  BY <1>1 DEF BusInv, CallInv, GotInv, Writing, ReadExact, WriteExact, Returned
<1>15. ClosingInv' /\ SingleInv' /\ StreamInv'
  BY <1>1 DEF ClosingInv, SingleInv, StreamInv
<1> QED BY <1>8, <1>11, <1>13, <1>14, <1>15 DEF BusInv
\* A batch without an error has the words it returns; another is read again slowly.
LEMMA BatchDoneBus == ASSUME BusInv, BatchDone PROVE BusInv'
<1> DEFINE busyBurst == \E i \in 2..Len(caps) : caps[i][2]
<1>1. /\ pc = "batch" /\ sent = Len(ReadBatch) /\ dm.bus = "none"
      /\ UNCHANGED <<dm, sticky, call, sent, caps, got, calls, busies, before, repeated, missed>>
  BY DEF BatchDone
<1>2. /\ VarsInv /\ call.kind = "read" /\ sent = Len(caps) /\ sent = call.n + 7 /\ call.n \in Nat
      /\ call.n >= 1 /\ call.addr \in Nat /\ got = <<>>
      /\ sticky => caps[sent][2]
      /\ ~sticky /\ caps[call.n + 6][1] = 0 => Captured
  <2>1. VarsInv /\ call.kind = "read" /\ sent = Len(caps) /\ got = <<>> /\ call.n >= 1
        /\ (sticky /\ sent >= 1 => caps[sent][2])
        /\ (~sticky /\ sent >= call.n + 6 /\ caps[call.n + 6][1] = 0 => Captured)
    BY <1>1 DEF BusInv, BatchInv, GotInv, CallInv
  <2>2. sent = call.n + 7 /\ call.n \in Nat /\ call.addr \in Nat
    BY <1>1, <2>1, CallType, ReadBatchIs
  <2> QED BY <2>1, <2>2
<1>3. \/ /\ busyBurst /\ pc' = "single" /\ todo' = <<Arm(Off)>> \o SlowRead /\ then' = "return"
         /\ pending' = Faulty(dm) /\ UNCHANGED <<ret, result>>
      \/ /\ ~busyBurst /\ pc' = "single" /\ todo' = ClearUp \o SlowRead /\ then' = "return"
         /\ UNCHANGED <<pending, ret, result>>
      \/ /\ ~busyBurst /\ caps[call.n + 6][1] = 0 /\ pc' = "ready" /\ ret' = "ok" /\ result' = Slots
         /\ UNCHANGED <<pending, todo, then>>
  BY DEF BatchDone, Singly, ClearUp
<1> HIDE DEF busyBurst
<1>4. OnlyTargetWritten' /\ TargetInv'
  BY <1>1, SameMemory DEF BusInv
<1>5. BatchInv' /\ StreamInv' /\ ClosingInv'
  BY <1>3 DEF BatchInv, StreamInv, ClosingInv
<1>6. Len(ClearAndSlowRead) = call.n + 5 /\ ClearAndSlowRead' = ClearAndSlowRead
  BY <1>1, <1>2, ClearAndSlowReadIs DEF ClearAndSlowRead, SlowRead
\* Both slow paths are the clearing of errors and the slow read, or all but its start.
<1>7. ASSUME pc' = "single", then' = "return", todo' \in Seq(Access),
             Len(todo') \in {call.n + 4, call.n + 5}, pending' \in BOOLEAN, UNCHANGED <<ret, result>>,
             LeftOf(ClearAndSlowRead)',
             ~pending' /\ Len(todo') = call.n + 4 => ~Faulty(dm)
      PROVE  BusInv'
  <2>1. VarsInv'
    BY <1>1, <1>2, <1>7 DEF VarsInv
  <2>2. Len(got) = 0
    BY <1>2, EmptySeq
  <2>3. Gathered(got, Len(got))'
    BY <1>1, <2>2 DEF Gathered
  <2>4. Len(todo') >= call.n + 3 /\ ~(Len(todo') <= call.n + 3) /\ (Len(todo') <= call.n + 4 => Len(todo') = call.n + 4)
    BY <1>2, <1>7
  <2>5. (~pending' /\ Len(todo') = call.n + 4 => ~Faulty(dm)')
    BY <1>1, <1>7 DEF Faulty
  <2>6. SingleInv'
    BY <1>1, <1>2, <1>7, <2>3, <2>4, <2>5 DEF SingleInv
  <2>7. GotInv'
    <3>1. Len(todo') >= call.n + 1 /\ ~(Len(todo') \in 1..call.n + 1) /\ Len(todo') # 0
      BY <1>2, <1>7
    <3> QED BY <1>1, <1>2, <1>7, <2>2, <3>1 DEF GotInv, Writing
  <2>8. CallInv' /\ ReadExact' /\ WriteExact' /\ Len(result') <= MaxWords
    BY <1>1, <1>2, <1>7 DEF BusInv, CallInv, ReadExact, WriteExact, Returned
  <2> QED BY <1>4, <1>5, <2>1, <2>6, <2>7, <2>8 DEF BusInv
<1>8. CASE /\ pc' = "single" /\ todo' = <<Arm(Off)>> \o SlowRead /\ then' = "return"
           /\ pending' = Faulty(dm) /\ UNCHANGED <<ret, result>>
  <2> DEFINE one == <<Arm(Off)>>
  <2>1. one \in Seq(Access) /\ Len(one) = 1 /\ one[1] = Arm(Off) /\ todo' = one \o SlowRead
    BY <1>8, AccessTypes
  <2> HIDE DEF one
  <2>2. SlowRead \in Seq(Access) /\ Len(SlowRead) = call.n + 3
    BY <1>2, SlowReadIs
  <2>3. /\ todo' \in Seq(Access) /\ Len(todo') = Len(one) + Len(SlowRead)
        /\ \A i \in 1..Len(one) + Len(SlowRead) :
             todo'[i] = IF i <= Len(one) THEN one[i] ELSE SlowRead[i - Len(one)]
    <3>1. one \in Seq(Access) /\ SlowRead \in Seq(Access)
      BY <2>1, <2>2
    <3>2. /\ one \o SlowRead \in Seq(Access) /\ Len(one \o SlowRead) = Len(one) + Len(SlowRead)
          /\ \A i \in 1..Len(one) + Len(SlowRead) :
               (one \o SlowRead)[i] = IF i <= Len(one) THEN one[i] ELSE SlowRead[i - Len(one)]
      BY <3>1, ConcatProperties, Zenon
    <3> QED BY <2>1, <3>2, Zenon
  <2>4. Len(todo') = call.n + 4
    BY <1>2, <2>1, <2>2, <2>3
  <2>5. ASSUME NEW i \in 1..call.n + 4 PROVE todo'[i] = ClearAndSlowRead[i + 1]
    <3>0. Len(one) = 1 /\ Len(one) + Len(SlowRead) = call.n + 4
      BY <1>2, <2>1, <2>2
    <3>1. CASE i = 1
      <4>1. 1 \in 1..Len(one) + Len(SlowRead) /\ 1 <= Len(one)
        BY <1>2, <3>0
      <4>2. todo'[1] = Arm(Off)
        BY <2>1, <2>3, <4>1
      <4>3. ClearAndSlowRead[2] = Arm(Off)
        BY <1>2, ClearAndSlowReadIs
      <4> QED BY <3>1, <4>2, <4>3
    <3>2. CASE i # 1
      <4>1. i - 1 \in 1..call.n + 3 /\ ~(i <= 1) /\ i \in 1..Len(one) + Len(SlowRead)
        BY <1>2, <3>0, <3>2
      <4>2. todo'[i] = SlowRead[i - 1]
        BY <2>1, <2>3, <4>1
      <4>3. ClearAndSlowRead[(i - 1) + 2] = SlowRead[i - 1] /\ (i - 1) + 2 = i + 1
        BY <1>2, <4>1, ClearAndSlowReadTail
      <4> QED BY <4>2, <4>3
    <3> QED BY <3>1, <3>2
  <2>6. LeftOf(ClearAndSlowRead)'
    <3>1. \A i \in 1..Len(todo') : (call.n + 5) - (call.n + 4) + i = i + 1
      BY <1>2, <2>4
    <3>2. call.n + 4 <= call.n + 5
      BY <1>2
    <3>3. \A i \in 1..Len(todo') : todo'[i] = ClearAndSlowRead[(call.n + 5) - (call.n + 4) + i]
      BY <2>4, <2>5, <3>1
    <3> QED BY <1>6, <2>4, <3>2, <3>3, Zenon DEF LeftOf
  <2>7. pending' \in BOOLEAN /\ (~pending' => ~Faulty(dm))
    BY <1>8 DEF Faulty
  <2> QED BY <1>7, <1>8, <2>3, <2>4, <2>6, <2>7
<1>9. CASE /\ pc' = "single" /\ todo' = ClearUp \o SlowRead /\ then' = "return"
           /\ UNCHANGED <<pending, ret, result>>
  <2>1. todo' = ClearAndSlowRead /\ todo' \in Seq(Access) /\ Len(todo') = call.n + 5
    BY <1>2, <1>9, ClearAndSlowReadIs DEF ClearAndSlowRead, ClearUp
  <2>2. LeftOf(ClearAndSlowRead)'
    BY <1>2, <1>6, <2>1, LeftOfAll DEF LeftOf
  <2>3. pending' \in BOOLEAN /\ ~(Len(todo') = call.n + 4)
    BY <1>2, <1>9, <2>1 DEF VarsInv
  <2> QED BY <1>7, <1>9, <2>1, <2>2, <2>3
<1>10. CASE /\ ~busyBurst /\ caps[call.n + 6][1] = 0 /\ pc' = "ready" /\ ret' = "ok" /\ result' = Slots
            /\ UNCHANGED <<pending, todo, then>>
  <2>1. ~sticky
    <3>1. Len(caps) \in 2..Len(caps)
      BY <1>2
    <3> QED BY <1>2, <1>10, <3>1 DEF busyBurst
  <2>2. Captured
    BY <1>2, <1>10, <2>1
  <2>3. ASSUME NEW i \in 1..call.n
        PROVE  caps[3 + i][1] \in Nat /\ caps[3 + i][1] = dm.mem[call.addr + i - 1]
    <3>1. 3 + i \in 1..Len(caps) /\ 3 + i <= Len(caps)
      BY <1>2
    <3>2. caps[3 + i] \in Nat \X BOOLEAN
      BY <1>2, <3>1, ElementOfSeq DEF VarsInv
    <3> QED BY <2>2, <3>1, <3>2 DEF Captured
  <2>4. Slots \in Seq(Nat) /\ Len(Slots) = call.n /\ \A i \in 1..call.n : Slots[i] = caps[3 + i][1]
    <3>1. Slots \in [1..call.n -> Nat] /\ \A i \in 1..call.n : Slots[i] = caps[3 + i][1]
      BY <2>3 DEF Slots
    <3>2. ASSUME NEW n \in Nat, NEW f \in [1..n -> Nat] PROVE f \in Seq(Nat) /\ Len(f) = n
      OBVIOUS
    <3> QED BY <1>2, <3>1, <3>2, Zenon
  <2>5. Mapped => Slots = Content
    BY <1>2, <2>3, <2>4, WordsAreContent
  <2>6. ReadExact'
    BY <1>1, <1>10, <2>5 DEF ReadExact, Mapped, Content
  <2>7. VarsInv' /\ Len(result') <= MaxWords
    BY <1>1, <1>2, <1>10, <2>4, CallType DEF VarsInv
  <2>8. CallInv' /\ GotInv' /\ WriteExact'
    BY <1>1, <1>2, <1>10 DEF BusInv, CallInv, GotInv, WriteExact, Returned
  <2>9. SingleInv'
    BY <1>10 DEF SingleInv
  <2> QED BY <1>4, <1>5, <2>6, <2>7, <2>8, <2>9 DEF BusInv
<1> QED BY <1>3, <1>8, <1>9, <1>10
\* The first of the accesses left is the next of the plan, and the others are left.
LEMMA NextOfPlan ==
  ASSUME NEW plan \in Seq(Access), todo \in Seq(Access), todo # <<>>, LeftOf(plan)
  PROVE  /\ Len(todo) \in Nat /\ Len(todo) >= 1 /\ Len(plan) \in Nat /\ Len(todo) <= Len(plan)
         /\ Head(todo) \in Access /\ Head(todo) = plan[Len(plan) - Len(todo) + 1]
         /\ Tail(todo) \in Seq(Access) /\ Len(Tail(todo)) = Len(todo) - 1
         /\ \A i \in 1..Len(Tail(todo)) : Tail(todo)[i] = plan[Len(plan) - Len(Tail(todo)) + i]
<1>1. Len(todo) \in Nat /\ Len(todo) >= 1 /\ Len(plan) \in Nat
  BY EmptySeq, LenProperties
<1>2. Head(todo) = todo[1] /\ todo[1] \in Access
  BY <1>1, ElementOfSeq
<1>3. /\ Tail(todo) \in Seq(Access) /\ Len(Tail(todo)) = Len(todo) - 1
      /\ \A i \in 1..(Len(todo) - 1) : Tail(todo)[i] = todo[i + 1]
  BY <1>1, HeadTailProperties
<1>4. Len(todo) <= Len(plan) /\ todo[1] = plan[Len(plan) - Len(todo) + 1]
  BY <1>1 DEF LeftOf
<1>5. ASSUME NEW i \in 1..Len(Tail(todo)) PROVE Tail(todo)[i] = plan[Len(plan) - Len(Tail(todo)) + i]
  <2>1. i \in 1..(Len(todo) - 1) /\ i + 1 \in 1..Len(todo)
    BY <1>1, <1>3
  <2>2. todo[i + 1] = plan[Len(plan) - Len(todo) + (i + 1)]
    BY <2>1 DEF LeftOf
  <2>3. Len(plan) - Len(todo) + (i + 1) = Len(plan) - Len(Tail(todo)) + i
    BY <1>1, <1>3, <2>1
  <2> QED BY <1>3, <2>1, <2>2, <2>3
<1> QED BY <1>1, <1>2, <1>3, <1>4, <1>5

\* What one access keeps of everything but its own call's progress.
LEMMA SingleKeeps ==
  ASSUME BusInv, Single, Head(todo) \in Access, Tail(todo) \in Seq(Access),
         dm' \in DebugModule, dm'.mem = dm.mem, dm'.bus = "write" => Writing /\ dm'.addr \in Target,
         SingleInv', GotInv'
  PROVE  BusInv'
<1>1. /\ pc = "single" /\ todo' = Tail(todo) /\ sticky' = FALSE
      /\ got' \in {got, Append(got, dm'.out)}
      /\ repeated' \in {repeated, TRUE} /\ (busies' = busies \/ (busies < MaxBusy /\ busies' = busies + 1))
      /\ UNCHANGED <<pc, call, sent, caps, then, ret, result, calls, before, pending, missed>>
  BY DEF Single
<1>2. VarsInv /\ dm'.out \in Nat
  BY DEF BusInv, DebugModule
<1>3. got' \in Seq(Nat)
  <2>1. got \in Seq(Nat)
    BY <1>2 DEF VarsInv
  <2>2. Append(got, dm'.out) \in Seq(Nat)
    BY <1>2, <2>1, AppendProperties
  <2>3. got' = got \/ got' = Append(got, dm'.out)
    BY <1>1
  <2> QED BY <2>1, <2>2, <2>3
<1>4. busies' \in 0..MaxBusy /\ repeated' \in BOOLEAN
  <2>1. busies \in 0..MaxBusy /\ repeated \in BOOLEAN
    BY <1>2 DEF VarsInv
  <2>2. busies' \in 0..MaxBusy
    <3>1. busies' = busies \/ (busies < MaxBusy /\ busies' = busies + 1)
      BY <1>1
    <3> QED BY <2>1, <3>1, BusAssumption
  <2>3. repeated' \in BOOLEAN
    <3>1. repeated' = repeated \/ repeated' = TRUE
      BY <1>1
    <3> QED BY <2>1, <3>1
  <2> QED BY <2>2, <2>3
<1>5. VarsInv'
  BY <1>1, <1>2, <1>3, <1>4 DEF VarsInv
<1>6. OnlyTargetWritten' /\ TargetInv'
  BY <1>1, SameMemory
<1>7. CallInv' /\ ReadExact' /\ WriteExact' /\ Len(result') <= MaxWords
  BY <1>1 DEF BusInv, CallInv, ReadExact, WriteExact, Returned
<1>8. BatchInv' /\ StreamInv' /\ ClosingInv'
  BY <1>1 DEF BatchInv, StreamInv, ClosingInv
<1> QED BY <1>5, <1>6, <1>7, <1>8 DEF BusInv

\* One access of a write: not a read, so it is performed once.
LEMMA SingleWrites ==
  ASSUME BusInv, Single, Head(todo) \in Access, Head(todo).op \notin Reads
  PROVE  \E b \in BOOLEAN : dm' = After(dm, Head(todo), b) /\ got' = got
BY DEF Single, After

\* One access of a read: performed once, or twice.
LEMMA SingleReads ==
  ASSUME BusInv, Single, Head(todo) \in Access, Head(todo).op # "data"
  PROVE  /\ dm' \in DebugModule /\ dm'.mem = dm.mem /\ dm'.bus # "write"
         /\ got' = IF Head(todo).op \in Reads THEN Append(got, dm'.out) ELSE got
         /\ repeated => repeated'
         /\ ~repeated' => \E b \in BOOLEAN : dm' = After(dm, Head(todo), b)
         /\ Head(todo).op \notin Reads => \E b \in BOOLEAN : dm' = After(dm, Head(todo), b)
<1> DEFINE x == Head(todo)
<1>1. dm \in DebugModule /\ dm.bus = "none" /\ repeated \in BOOLEAN
  BY DEF BusInv, VarsInv, Single
<1>2. \/ dm' = After(dm, x, x.op \notin Reads) /\ repeated' = repeated
      \/ /\ x.op \in Reads /\ repeated' = TRUE
         /\ dm' = [Performed(Finished(Performed(dm, x)), x) EXCEPT !.flying = FALSE]
  BY DEF Single, After
<1>3. got' = IF x.op \in Reads THEN Append(got, dm'.out) ELSE got
  BY DEF Single
<1> HIDE DEF x
<1>4. CASE dm' = After(dm, x, x.op \notin Reads) /\ repeated' = repeated
  <2>1. PICK b \in BOOLEAN : dm' = After(dm, x, b)
    BY <1>4
  <2>2. dm' \in DebugModule /\ dm'.mem = dm.mem /\ dm'.bus # "write"
    BY <1>1, <2>1, AfterOther DEF x
  <2> QED BY <1>3, <1>4, <2>1, <2>2 DEF x
<1>5. CASE /\ x.op \in Reads /\ repeated' = TRUE
           /\ dm' = [Performed(Finished(Performed(dm, x)), x) EXCEPT !.flying = FALSE]
  <2>1. dm' \in DebugModule /\ dm'.mem = dm.mem /\ dm'.bus # "write"
    BY <1>1, <1>5, ReadTwice DEF x
  <2> QED BY <1>3, <1>5, <2>1 DEF x
<1> QED BY <1>2, <1>4, <1>5

\* One access of a sequence that writes the words of the call.
LEMMA SingleWordAccess ==
  ASSUME BusInv, Single, Writing, NEW plan \in Seq(Access), Len(plan) = call.n + 2, LeftOf(plan),
         plan[1].op = "arm", ~plan[1].cfg.onAddr, plan[1].cfg.auto \/ call.n = 1,
         plan[2] = PutAddr(call.addr), \A i \in 1..call.n : plan[i + 2] = PutData(Word(i)),
         WriteProgress(dm, call.n + 2 - Len(todo))
  PROVE  /\ dm' \in DebugModule /\ dm'.mem = dm.mem
         /\ dm'.bus = "write" => dm'.addr \in Target
         /\ WriteProgress(dm', call.n + 2 - (Len(todo) - 1))
         /\ got' = got
<1> DEFINE x == Head(todo)  k == call.n + 2 - Len(todo)
<1>1. VarsInv /\ dm \in DebugModule /\ dm.bus = "none" /\ todo # <<>> /\ todo \in Seq(Access)
  BY DEF BusInv, VarsInv, Single
<1>2. /\ Len(todo) \in Nat /\ Len(todo) >= 1 /\ Len(todo) <= call.n + 2 /\ call.n \in Nat
      /\ x \in Access /\ x = plan[call.n + 2 - Len(todo) + 1]
  BY <1>1, NextOfPlan, CallType, SMTT(30)
<1>3. k \in Nat /\ k < call.n + 2 /\ k + 1 = call.n + 2 - (Len(todo) - 1) /\ x = plan[k + 1]
  BY <1>2
<1>4. WriteProgress(dm, k)
  OBVIOUS
<1> HIDE DEF x, k
<1>5. k >= 2 => x = PutData(Word(k - 1))
  <2>1. k >= 2 => k - 1 \in 1..call.n /\ (k - 1) + 2 = k + 1
    BY <1>2, <1>3
  <2> QED BY <1>3, <2>1
<1>6. /\ k = 0 => x.op = "arm" /\ ~x.cfg.onAddr /\ (x.cfg.auto \/ call.n = 1)
      /\ k = 1 => x = PutAddr(call.addr)
  BY <1>3
<1>7. x.op \notin Reads
  <2>1. k = 0 \/ k = 1 \/ k >= 2
    BY <1>3
  <2> QED BY <1>5, <1>6, <2>1 DEF Reads, PutAddr, PutData
<1>8. PICK b \in BOOLEAN : dm' = After(dm, x, b) /\ got' = got
  BY <1>2, <1>7, SingleWrites DEF x
<1>9. LET e == After(dm, x, b) IN
       /\ e \in DebugModule /\ e.mem = dm.mem /\ WriteProgress(e, k + 1)
       /\ e.bus = "write" => e.addr \in Target \/ (dm.bus = "write" /\ e.addr = dm.addr)
  BY <1>1, <1>2, <1>3, <1>4, <1>5, <1>6, WriteAccess
<1>10. dm' \in DebugModule /\ dm'.mem = dm.mem /\ WriteProgress(dm', k + 1)
       /\ (dm'.bus = "write" => dm'.addr \in Target)
  BY <1>1, <1>8, <1>9
<1> QED BY <1>3, <1>8, <1>10, Zenon

\* The variables a single access leaves alone.
LEMMA SingleLeaves ==
  ASSUME Single
  PROVE  /\ pc = "single" /\ pc' = "single" /\ todo' = Tail(todo) /\ sticky' = FALSE
         /\ call' = call /\ then' = then /\ pending' = pending /\ missed' = missed /\ calls' = calls
BY DEF Single

\* One access of a single read.
LEMMA SingleRead32 ==
  ASSUME BusInv, Single, call.kind = "read32", then = "return", LeftOf(Read32)
  PROVE  BusInv'
<1>1. VarsInv /\ dm.bus = "none" /\ todo # <<>> /\ todo \in Seq(Access) /\ got \in Seq(Nat)
  BY DEF BusInv, VarsInv, Single
<1>2. /\ Read32 \in Seq(Access) /\ Len(Read32) = 3
      /\ Read32[1].op = "arm" /\ Read32[2].op = "addr" /\ Read32[3].op = "getData"
  <2>1. Cfg(FALSE, TRUE, FALSE) \in Config /\ call.addr \in Nat
    BY <1>1, CallType DEF Cfg, Config
  <2>2. ASSUME NEW c \in Config
        PROVE  /\ <<Arm(c), PutAddr(call.addr), GetData>> \in Seq(Access)
               /\ Len(<<Arm(c), PutAddr(call.addr), GetData>>) = 3
    BY <2>1, AccessTypes
  <2>3. Read32 \in Seq(Access) /\ Len(Read32) = 3
    BY <2>1, <2>2 DEF Read32
  <2>4. Read32[1].op = "arm" /\ Read32[2].op = "addr" /\ Read32[3].op = "getData"
    BY DEF Read32, Arm, PutAddr, GetData
  <2> QED BY <2>3, <2>4
<1>3. /\ Len(todo) \in 1..3 /\ Head(todo) \in Access /\ Head(todo) = Read32[3 - Len(todo) + 1]
      /\ Tail(todo) \in Seq(Access) /\ Len(Tail(todo)) = Len(todo) - 1
      /\ \A i \in 1..Len(Tail(todo)) : Tail(todo)[i] = Read32[3 - Len(Tail(todo)) + i]
  <2>1. /\ Len(todo) \in Nat /\ Len(todo) >= 1 /\ Len(todo) <= Len(Read32)
        /\ Head(todo) \in Access /\ Head(todo) = Read32[Len(Read32) - Len(todo) + 1]
        /\ Tail(todo) \in Seq(Access) /\ Len(Tail(todo)) = Len(todo) - 1
        /\ \A i \in 1..Len(Tail(todo)) : Tail(todo)[i] = Read32[Len(Read32) - Len(Tail(todo)) + i]
    BY <1>1, <1>2, NextOfPlan, Zenon
  <2>2. Len(Read32) = 3
    BY <1>2
  <2>3. Len(todo) \in 1..3
    BY <2>1, <2>2
  <2> QED BY <2>1, <2>2, <2>3, Zenon
<1>4. /\ Head(todo).op # "data"
      /\ Len(todo) = 1 => Head(todo).op \in Reads
      /\ Len(todo) # 1 => Head(todo).op \notin Reads
  BY <1>2, <1>3 DEF Reads
<1>5. /\ dm' \in DebugModule /\ dm'.mem = dm.mem /\ dm'.bus # "write"
      /\ got' = IF Head(todo).op \in Reads THEN Append(got, dm'.out) ELSE got
  BY <1>3, <1>4, SingleReads
<1>6. SingleInv'
  <2>1. LeftOf(Read32)'
    <3>1. Read32' = Read32
      BY SingleLeaves DEF Read32
    <3>2. Len(Tail(todo)) <= 3
      BY <1>3
    <3> QED BY <1>2, <1>3, <3>1, <3>2, SingleLeaves DEF LeftOf
  <2> QED BY <2>1, SingleLeaves DEF SingleInv
<1>7. GotInv'
  <2>1. Len(todo) >= 1 /\ Len(got) = 0
    BY <1>3, SingleLeaves DEF BusInv, GotInv
  <2>2. Len(todo) = 1 => Len(got') = 1
    <3>1. dm'.out \in Nat
      BY <1>5 DEF DebugModule
    <3> QED BY <1>1, <1>4, <1>5, <2>1, <3>1, AppendProperties
  <2>3. Len(todo) # 1 => Len(got') = 0
    BY <1>4, <1>5, <2>1
  <2>4. Len(todo') = Len(todo) - 1
    BY <1>3, SingleLeaves
  <2>5. (Len(todo') >= 1 => Len(got') = 0) /\ (Len(todo') = 0 => Len(got') = 1)
    BY <1>3, <2>2, <2>3, <2>4
  <2>6. call'.kind = "read32" /\ pc' = "single"
    BY SingleLeaves
  <2> QED BY <2>5, <2>6 DEF GotInv, Writing
<1> QED BY <1>3, <1>5, <1>6, <1>7, SingleKeeps

\* One access of a single write.
LEMMA SingleWrite32 ==
  ASSUME BusInv, Single, call.kind = "write32", then = "return", LeftOf(Write32),
         WriteProgress(dm, 3 - Len(todo))
  PROVE  BusInv'
<1>1. VarsInv /\ todo # <<>> /\ todo \in Seq(Access) /\ call.n = 1 /\ Writing /\ got = <<>>
  BY SingleLeaves DEF BusInv, VarsInv, CallInv, GotInv, Single, Writing
<1>2. /\ Write32 \in Seq(Access) /\ Len(Write32) = 3
      /\ Write32[1] = Arm(Off) /\ Write32[2] = PutAddr(call.addr) /\ Write32[3] = PutData(Word(1))
  <2>1. Arm(Off) \in Access /\ PutAddr(call.addr) \in Access /\ PutData(Word(1)) \in Access
    BY <1>1, AccessTypes, CallType, WordType
  <2>2. ASSUME NEW x \in Access, NEW y \in Access, NEW z \in Access
        PROVE  /\ <<x, y, z>> \in Seq(Access) /\ Len(<<x, y, z>>) = 3
               /\ <<x, y, z>>[1] = x /\ <<x, y, z>>[2] = y /\ <<x, y, z>>[3] = z
    OBVIOUS
  <2> QED BY <2>1, <2>2, Zenon DEF Write32
<1>3. /\ Len(todo) \in Nat /\ Len(todo) >= 1 /\ Len(todo) <= 3
      /\ Head(todo) \in Access /\ Tail(todo) \in Seq(Access) /\ Len(Tail(todo)) = Len(todo) - 1
      /\ \A i \in 1..Len(Tail(todo)) : Tail(todo)[i] = Write32[Len(Write32) - Len(Tail(todo)) + i]
  <2>1. Len(Write32) = 3
    BY <1>2
  <2> QED BY <1>1, <1>2, <2>1, NextOfPlan
<1>4. Len(todo') = Len(todo) - 1 /\ Len(todo') <= Len(Write32)
  <2>1. Len(todo') = Len(Tail(todo))
    BY SingleLeaves
  <2>2. Len(Write32) = 3
    BY <1>2
  <2>3. Len(todo') = Len(todo) - 1
    BY <1>3, <2>1, Zenon
  <2>4. call.n \in Nat
    BY <1>1, CallType
  <2> QED BY <1>3, <2>2, <2>3, <2>4
<1>5. LeftOf(Write32)'
  <2>1. Write32' = Write32
    BY SingleLeaves DEF Write32, Word
  <2> QED BY <1>3, <1>4, <2>1, SingleLeaves DEF LeftOf
<1>6. /\ dm' \in DebugModule /\ dm'.mem = dm.mem
      /\ dm'.bus = "write" => dm'.addr \in Target
      /\ WriteProgress(dm', call.n + 2 - (Len(todo) - 1))
      /\ got' = got
  <2>1. Write32[1].op = "arm" /\ ~Write32[1].cfg.onAddr
    BY <1>2 DEF Arm, Off, Cfg
  <2>2. call.n + 2 = 3 /\ \A i \in 1..call.n : i = 1 /\ i + 2 = 3
    BY <1>1
  <2>3. \A i \in 1..call.n : Write32[i + 2] = PutData(Word(i))
    BY <1>2, <2>2
  <2>4. WriteProgress(dm, call.n + 2 - Len(todo)) /\ Len(Write32) = call.n + 2
    <3>1. call.n + 2 = 3 /\ call.n + 2 - Len(todo) = 3 - Len(todo)
      BY <1>1, <1>3
    <3>2. Len(Write32) = call.n + 2
      BY <1>2, <3>1, Zenon
    <3> QED BY <3>1, <3>2, Zenon
  <2> QED BY <1>1, <1>2, <2>1, <2>3, <2>4, SingleWordAccess
<1>7. SingleInv'
  <2>1. call.n + 2 - (Len(todo) - 1) = 3 - Len(todo')
    BY <1>1, <1>3, <1>4
  <2>2. WriteProgress(dm', 3 - Len(todo'))
    BY <1>6, <2>1
  <2>3. WriteProgress(dm, 3 - Len(todo))'
    BY <2>2, SingleLeaves DEF WriteProgress, Word
  <2> QED BY <1>5, <2>3, SingleLeaves DEF SingleInv
<1>8. GotInv'
  BY <1>1, <1>6, SingleLeaves DEF GotInv, Writing
<1> QED BY <1>1, <1>3, <1>6, <1>7, <1>8, SingleKeeps

\* One access of a write that is repeated word by word.
LEMMA SingleRewrite ==
  ASSUME BusInv, Single, call.kind = "write", then = "closing", LeftOf(WriteStream),
         WriteProgress(dm, call.n + 2 - Len(todo)), ~missed
  PROVE  BusInv'
<1>1. VarsInv /\ todo # <<>> /\ todo \in Seq(Access) /\ Writing /\ got = <<>>
  BY SingleLeaves DEF BusInv, VarsInv, GotInv, Single, Writing
<1>2. /\ WriteStream \in Seq(Access) /\ Len(WriteStream) = call.n + 2
      /\ WriteStream[1] = Arm(Autoincrement) /\ WriteStream[2] = PutAddr(call.addr)
      /\ \A i \in 1..call.n : WriteStream[i + 2] = PutData(Word(i))
  BY <1>1, WriteStreamIs
<1>3. /\ Len(todo) \in Nat /\ Len(todo) >= 1 /\ Len(todo) <= call.n + 2
      /\ Head(todo) \in Access /\ Tail(todo) \in Seq(Access) /\ Len(Tail(todo)) = Len(todo) - 1
      /\ \A i \in 1..Len(Tail(todo)) : Tail(todo)[i] = WriteStream[Len(WriteStream) - Len(Tail(todo)) + i]
  <2>1. Len(WriteStream) = call.n + 2
    BY <1>2
  <2> QED BY <1>1, <1>2, <2>1, NextOfPlan
<1>4. Len(todo') = Len(todo) - 1 /\ Len(todo') <= Len(WriteStream)
  <2>1. Len(todo') = Len(Tail(todo))
    BY SingleLeaves
  <2>2. Len(WriteStream) = call.n + 2
    BY <1>2
  <2>3. Len(todo') = Len(todo) - 1
    BY <1>3, <2>1, Zenon
  <2>4. call.n \in Nat
    BY <1>1, CallType
  <2> QED BY <1>3, <2>2, <2>3, <2>4
<1>5. LeftOf(WriteStream)'
  <2>1. WriteStream' = WriteStream
    BY SingleLeaves DEF WriteStream, Words, Word
  <2> QED BY <1>3, <1>4, <2>1, SingleLeaves DEF LeftOf
<1>6. /\ dm' \in DebugModule /\ dm'.mem = dm.mem
      /\ dm'.bus = "write" => dm'.addr \in Target
      /\ WriteProgress(dm', call.n + 2 - (Len(todo) - 1))
      /\ got' = got
  <2>1. WriteStream[1].op = "arm" /\ ~WriteStream[1].cfg.onAddr /\ WriteStream[1].cfg.auto
    BY <1>2 DEF Arm, Autoincrement, Cfg
  <2> QED BY <1>1, <1>2, <2>1, SingleWordAccess
<1>7. SingleInv'
  <2>2. WriteProgress(dm', call.n + 2 - Len(todo'))
    BY <1>4, <1>6
  <2>3. WriteProgress(dm, call.n + 2 - Len(todo))'
    BY <2>2, SingleLeaves DEF WriteProgress, Word
  <2> QED BY <1>5, <2>3, SingleLeaves DEF SingleInv
<1>8. GotInv'
  BY <1>1, <1>6, SingleLeaves DEF GotInv, Writing
<1> QED BY <1>1, <1>3, <1>6, <1>7, <1>8, SingleKeeps

\* One access of the clearing after a write that failed.
LEMMA SingleClearUp ==
  ASSUME BusInv, Single, call.kind = "write", then = "raise", LeftOf(ClearUp)
  PROVE  BusInv'
<1>1. VarsInv /\ todo # <<>> /\ todo \in Seq(Access) /\ Writing /\ got = <<>>
  BY SingleLeaves DEF BusInv, VarsInv, GotInv, Single, Writing
<1>2. /\ ClearUp \in Seq(Access) /\ Len(ClearUp) = 2
      /\ ClearUp[1] = ClearErrors /\ ClearUp[2] = Arm(Off)
  BY AccessTypes DEF ClearUp
<1>3. /\ Len(todo) \in Nat /\ Len(todo) >= 1 /\ Len(todo) <= 2
      /\ Head(todo) \in Access /\ Tail(todo) \in Seq(Access) /\ Len(Tail(todo)) = Len(todo) - 1
      /\ \A i \in 1..Len(Tail(todo)) : Tail(todo)[i] = ClearUp[Len(ClearUp) - Len(Tail(todo)) + i]
  <2>1. Len(ClearUp) = 2
    BY <1>2
  <2> QED BY <1>1, <1>2, <2>1, NextOfPlan
<1>4. Len(todo') = Len(todo) - 1 /\ Len(todo') <= Len(ClearUp)
  <2>1. Len(todo') = Len(Tail(todo))
    BY SingleLeaves
  <2>2. Len(ClearUp) = 2
    BY <1>2
  <2>3. Len(todo') = Len(todo) - 1
    BY <1>3, <2>1, Zenon
  <2>4. call.n \in Nat
    BY <1>1, CallType
  <2> QED BY <1>3, <2>2, <2>3, <2>4
<1>5. LeftOf(ClearUp)'
  <2>1. ClearUp' = ClearUp
    BY SingleLeaves DEF ClearUp
  <2> QED BY <1>3, <1>4, <2>1, SingleLeaves DEF LeftOf
<1>6. Head(todo).op = "arm"
  <2>1. Head(todo) = ClearUp[2 - Len(todo) + 1]
    <3>1. Len(ClearUp) = 2
      BY <1>2
    <3> QED BY <1>1, <1>2, <3>1, NextOfPlan
  <2>2. 2 - Len(todo) + 1 \in {1, 2}
    BY <1>3
  <2>3. Head(todo) = ClearErrors \/ Head(todo) = Arm(Off)
    BY <1>2, <2>1, <2>2
  <2> QED BY <2>3 DEF ClearErrors, Arm
<1>7. dm' \in DebugModule /\ dm'.mem = dm.mem /\ dm'.bus # "write" /\ got' = got
  <2>1. Head(todo).op # "data" /\ Head(todo).op \notin Reads
    BY <1>6 DEF Reads
  <2> QED BY <1>3, <2>1, SingleReads
<1>8. SingleInv' /\ GotInv'
  BY <1>1, <1>5, <1>7, SingleLeaves DEF SingleInv, GotInv, Writing
<1> QED BY <1>1, <1>3, <1>7, <1>8, SingleKeeps

\* The slow read of read_mem, with or without the clearing of errors before it.
LEMMA SingleSlowRead ==
  ASSUME BusInv, Single, call.kind = "read", then = "return", LeftOf(ClearAndSlowRead),
         Len(todo) >= call.n + 3 => dm.bus = "none",
         ~pending /\ Len(todo) = call.n + 4 => ~Faulty(dm),
         ~repeated /\ Len(todo) <= call.n + 3 /\ Len(todo) >= 1 =>
           ReadProgress(dm, call.n + 3 - Len(todo)),
         Mapped /\ ~repeated /\ ~pending =>
           /\ Len(todo) <= call.n + 4 /\ Len(todo) >= 2 => ~Faulty(dm)
           /\ Gathered(got, Len(got))
  PROVE  BusInv'
<1> DEFINE x == Head(todo)  n == call.n  L == Len(todo)
<1>1. /\ VarsInv /\ dm \in DebugModule /\ dm.bus = "none" /\ todo # <<>> /\ todo \in Seq(Access)
      /\ got \in Seq(Nat) /\ repeated \in BOOLEAN
  BY DEF BusInv, VarsInv, Single
<1>2. n \in Nat /\ n >= 1 /\ call.addr \in Nat
  BY <1>1, CallType DEF BusInv, CallInv
<1>3. /\ L \in Nat /\ L >= 1 /\ L <= n + 5 /\ x \in Access /\ x = ClearAndSlowRead[(n + 5) - L + 1]
      /\ Tail(todo) \in Seq(Access) /\ Len(Tail(todo)) = L - 1
      /\ \A i \in 1..Len(Tail(todo)) :
           Tail(todo)[i] = ClearAndSlowRead[Len(ClearAndSlowRead) - Len(Tail(todo)) + i]
  <2>1. /\ Len(ClearAndSlowRead) = n + 5 /\ ClearAndSlowRead \in Seq(Access)
    BY <1>1, ClearAndSlowReadIs
  <2> QED BY <1>1, <2>1, NextOfPlan
<1>4. todo' = Tail(todo) /\ Len(todo') = L - 1
  <2>1. todo' = Tail(todo)
    BY SingleLeaves
  <2> QED BY <1>3, <2>1, Zenon
<1>5. LeftOf(ClearAndSlowRead)'
  <2>1. ClearAndSlowRead' = ClearAndSlowRead
    BY SingleLeaves DEF ClearAndSlowRead, SlowRead
  <2>2. Len(ClearAndSlowRead) = n + 5
    BY <1>1, ClearAndSlowReadIs
  <2>3. Len(todo') <= Len(ClearAndSlowRead)
    BY <1>2, <1>3, <1>4, <2>2
  <2> QED BY <1>3, <1>4, <2>1, <2>3 DEF LeftOf
<1> HIDE DEF n, L
<1>6. L = n + 5 \/ L = n + 4 \/ L = n + 3 \/ L = n + 2 \/ L \in 2..n + 1 \/ L = 1
  BY <1>2, <1>3
\* Which access it is, by what is left.
<1>7. /\ L = n + 5 => x = ClearErrors
      /\ L = n + 4 \/ L = 1 => x = Arm(Off)
      /\ L = n + 3 => x = Arm(Prefetch)
      /\ L = n + 2 => x = PutAddr(call.addr)
      /\ L \in 2..n + 1 => x = GetData
  <2>1. CASE L = n + 5
    <3>1. (n + 5) - L + 1 = 1 /\ ~(L = n + 4 \/ L = 1 \/ L = n + 3 \/ L = n + 2 \/ L \in 2..n + 1)
      BY <1>2, <1>3, <2>1
    <3> QED BY <1>1, <1>3, <3>1, ClearAndSlowReadIs DEF n
  <2>2. CASE L = n + 4
    <3>1. (n + 5) - L + 1 = 2 /\ ~(L = n + 5 \/ L = n + 3 \/ L = n + 2 \/ L \in 2..n + 1)
      BY <1>2, <1>3, <2>2
    <3> QED BY <1>1, <1>3, <3>1, ClearAndSlowReadIs DEF n
  <2>3. CASE L = n + 3
    <3>1. (n + 5) - L + 1 = 3 /\ ~(L = n + 5 \/ L = n + 4 \/ L = 1 \/ L = n + 2 \/ L \in 2..n + 1)
      BY <1>2, <1>3, <2>3
    <3> QED BY <1>1, <1>3, <3>1, ClearAndSlowReadIs DEF n
  <2>4. CASE L = n + 2
    <3>1. (n + 5) - L + 1 = 4 /\ ~(L = n + 5 \/ L = n + 4 \/ L = 1 \/ L = n + 3 \/ L \in 2..n + 1)
      BY <1>2, <1>3, <2>4
    <3> QED BY <1>1, <1>3, <3>1, ClearAndSlowReadIs DEF n
  <2>5. CASE L \in 2..n + 1
    <3>1. (n + 5) - L + 1 \in 5..n + 4 /\ ~(L = n + 5 \/ L = n + 4 \/ L = 1 \/ L = n + 3 \/ L = n + 2)
      BY <1>2, <1>3, <2>5
    <3> QED BY <1>1, <1>3, <3>1, ClearAndSlowReadIs DEF n
  <2>6. CASE L = 1
    <3>1. (n + 5) - L + 1 = n + 5
          /\ ~(L = n + 5 \/ L = n + 4 \/ L = n + 3 \/ L = n + 2 \/ L \in 2..n + 1)
      BY <1>2, <1>3, <2>6
    <3> QED BY <1>1, <1>3, <3>1, ClearAndSlowReadIs DEF n
  <2> QED BY <1>6, <2>1, <2>2, <2>3, <2>4, <2>5, <2>6
<1>8. x.op # "data" /\ (L \in 2..n + 1 => x.op \in Reads) /\ (L \notin 2..n + 1 => x.op \notin Reads)
  <2>1. L \in 2..n + 1 => x.op = "getData"
    BY <1>7 DEF GetData
  <2>2. L \notin 2..n + 1 => x.op \in {"arm", "addr"}
    BY <1>6, <1>7 DEF ClearErrors, Arm, PutAddr
  <2> QED BY <2>1, <2>2 DEF Reads
<1>9. /\ dm' \in DebugModule /\ dm'.mem = dm.mem /\ dm'.bus # "write"
      /\ got' = IF x.op \in Reads THEN Append(got, dm'.out) ELSE got
      /\ repeated => repeated'
      /\ ~repeated' => \E b \in BOOLEAN : dm' = After(dm, x, b)
      /\ x.op \notin Reads => \E b \in BOOLEAN : dm' = After(dm, x, b)
  BY <1>3, <1>8, SingleReads
<1>10. LET m == L - 1 IN
       /\ m \in Nat
       /\ m >= n + 3 => L >= n + 4
       /\ m = n + 4 => L = n + 5
  BY <1>2, <1>3
<1> HIDE DEF x
\* The configuration writes at the start leave an idle bus.
<1>11. /\ L >= n + 4 => dm'.bus = "none"
       /\ L = n + 5 => ~Faulty(dm')
  <2>1. ASSUME L >= n + 4 PROVE dm'.bus = "none" /\ (L = n + 5 => ~Faulty(dm'))
    <3>1. (L = n + 5 \/ L = n + 4) /\ L \notin 2..n + 1
      BY <1>2, <1>3, <2>1
    <3>2. x.op = "arm" /\ (L = n + 5 => x.clear)
      BY <1>7, <3>1 DEF ClearErrors, Arm
    <3>3. PICK b \in BOOLEAN : dm' = After(dm, x, b)
      BY <1>8, <1>9, <3>1
    <3>4. dm'.bus = dm.bus /\ (Faulty(dm') <=> Faulty(dm) /\ ~x.clear)
      BY <1>1, <1>3, <3>2, <3>3, AfterArm
    <3> QED BY <1>1, <3>2, <3>4
  <2>2. L = n + 5 => L >= n + 4
    BY <1>2, <1>3
  <2> QED BY <2>1, <2>2
\* The read itself.
<1>12. ~repeated' /\ L <= n + 4 /\ L >= 2 => ReadProgress(dm', n + 3 - (L - 1))
  <2> SUFFICES ASSUME ~repeated', L <= n + 4, L >= 2 PROVE ReadProgress(dm', n + 3 - (L - 1))
    OBVIOUS
  <2>1. CASE L = n + 4
    <3>1. n + 3 - (L - 1) = 0
      BY <1>2, <1>3, <2>1
    <3>2. dm'.bus = "none"
      BY <1>2, <1>3, <1>11, <2>1
    <3>3. ReadProgress(dm', 0)
      BY <3>2 DEF ReadProgress
    <3> QED BY <3>1, <3>3
  <2>2. CASE L <= n + 3
    <3> DEFINE k == n + 3 - L
    <3>1. k \in Nat /\ k + 1 = n + 3 - (L - 1)
      BY <1>2, <1>3, <2>2
    <3>2. /\ k = 0 => L = n + 3
          /\ k = 1 => L = n + 2
          /\ k >= 2 => L \in 2..n + 1
      BY <1>2, <1>3, <2>2
    <3>3. ReadProgress(dm, k)
      BY <1>3, <1>9, <2>2 DEF n, L
    <3>4. PICK b \in BOOLEAN : dm' = After(dm, x, b)
      BY <1>9
    <3> HIDE DEF k
    <3>5. (k = 0 => x = Arm(Prefetch)) /\ (k = 1 => x = PutAddr(call.addr)) /\ (k >= 2 => x = GetData)
      BY <1>7, <3>2
    <3>6. ReadProgress(After(dm, x, b), k + 1)
      BY <1>1, <1>3, <3>1, <3>3, <3>5, ReadAccess
    <3>7. ReadProgress(dm', k + 1)
      BY <3>4, <3>6, Zenon
    <3> QED BY <3>1, <3>7, Zenon
  <2> QED BY <1>2, <1>3, <2>1, <2>2
<1>13. ~repeated' /\ ~Faulty(dm) => ~Faulty(dm')
  <2> SUFFICES ASSUME ~repeated', ~Faulty(dm) PROVE ~Faulty(dm')
    OBVIOUS
  <2>1. PICK b \in BOOLEAN : dm' = After(dm, x, b)
    BY <1>9
  <2> QED BY <1>1, <1>3, <1>8, <2>1, AfterOther
<1>14. dm'.out \in Nat
  BY <1>9 DEF DebugModule
<1>15. /\ Len(got) \in Nat
       /\ L \in 2..n + 1 => /\ got' = Append(got, dm'.out) /\ Len(got) = n + 1 - L
                            /\ Len(got') = (n + 1 - L) + 1 /\ got'[(n + 1 - L) + 1] = dm'.out
                            /\ \A i \in 1..Len(got) : got'[i] = got[i]
       /\ L \notin 2..n + 1 => got' = got
  <2>1. Len(got) \in Nat
    BY <1>1, LenProperties
  <2>2. L \in 1..n + 1 => Len(got) = n + 1 - L
    BY SingleLeaves DEF BusInv, GotInv, n, L
  <2>3. ASSUME L \in 2..n + 1
        PROVE  /\ got' = Append(got, dm'.out) /\ Len(got) = n + 1 - L
               /\ Len(got') = (n + 1 - L) + 1 /\ got'[(n + 1 - L) + 1] = dm'.out
               /\ \A i \in 1..Len(got) : got'[i] = got[i]
    <3>1. got' = Append(got, dm'.out)
      BY <1>8, <1>9, <2>3
    <3>2. Len(got) = n + 1 - L
      BY <1>2, <2>2, <2>3
    <3>3. /\ Len(Append(got, dm'.out)) = Len(got) + 1
          /\ \A i \in 1..Len(got) : Append(got, dm'.out)[i] = got[i]
          /\ Append(got, dm'.out)[Len(got) + 1] = dm'.out
      BY <1>1, <1>14, AppendProperties
    <3> QED BY <3>1, <3>2, <3>3, Zenon
  <2>4. L \notin 2..n + 1 => got' = got
    BY <1>8, <1>9
  <2> QED BY <2>1, <2>3, <2>4
<1>16. Mapped /\ ~repeated' /\ ~pending =>
         /\ L - 1 <= n + 4 /\ L - 1 >= 2 => ~Faulty(dm')
         /\ \A i \in 1..Len(got') : got'[i] = dm.mem[call.addr + i - 1]
  <2> SUFFICES ASSUME Mapped, ~repeated', ~pending
               PROVE  /\ L - 1 <= n + 4 /\ L - 1 >= 2 => ~Faulty(dm')
                      /\ \A i \in 1..Len(got') : got'[i] = dm.mem[call.addr + i - 1]
    OBVIOUS
  <2>1. /\ L <= n + 4 /\ L >= 2 => ~Faulty(dm)
        /\ \A i \in 1..Len(got) : got[i] = dm.mem[call.addr + i - 1]
    BY <1>9 DEF Gathered, n, L
  <2>2. L - 1 <= n + 4 /\ L - 1 >= 2 => ~Faulty(dm')
    BY <1>2, <1>3, <1>11, <1>13, <2>1
  <2>3. CASE L \notin 2..n + 1
    BY <1>15, <2>1, <2>2, <2>3
  <2>4. CASE L \in 2..n + 1
    <3> DEFINE k == n + 3 - L
    <3>1. k \in Nat /\ k >= 2 /\ L <= n + 3 /\ L >= 1 /\ L <= n + 4 /\ L >= 2
          /\ call.addr + (k - 2) = call.addr + ((n + 1 - L) + 1) - 1
      BY <1>2, <1>3, <2>4
    <3>2. ReadProgress(dm, k) /\ ~Faulty(dm)
      BY <1>3, <1>9, <2>1, <3>1 DEF n, L
    <3> HIDE DEF k
    <3>3. dm.data = dm.mem[call.addr + (k - 2)]
      BY <1>1, <3>1, <3>2 DEF ReadProgress
    <3>4. PICK b \in BOOLEAN : dm' = After(dm, GetData, b)
      BY <1>7, <1>9, <2>4
    <3>5. dm'.out = dm.data
      BY <1>1, <3>4, AfterGetData
    <3>6. ASSUME NEW i \in 1..Len(got') PROVE got'[i] = dm.mem[call.addr + i - 1]
      <4>1. Len(got) = n + 1 - L /\ Len(got') = Len(got) + 1 /\ Len(got) \in Nat
        BY <1>15, <2>4
      <4>2. i \in 1..Len(got) \/ i = Len(got) + 1
        BY <4>1
      <4>3. CASE i \in 1..Len(got)
        BY <1>15, <2>1, <2>4, <4>3
      <4>4. CASE i = Len(got) + 1
        <5>1. i = (n + 1 - L) + 1
          BY <4>1, <4>4
        <5>2. got'[i] = dm'.out
          BY <1>15, <2>4, <5>1
        <5> QED BY <3>1, <3>3, <3>5, <5>1, <5>2
      <4> QED BY <4>2, <4>3, <4>4
    <3> QED BY <2>2, <3>6
  <2> QED BY <2>3, <2>4
<1>17. SingleInv'
  <2>1. pc' = "single" /\ call' = call /\ then' = "return" /\ pending' = pending
    BY SingleLeaves
  <2>2. /\ Len(todo') >= n + 3 => dm'.bus = "none"
        /\ ~pending /\ Len(todo') = n + 4 => ~Faulty(dm')
        /\ ~repeated' /\ Len(todo') <= n + 3 /\ Len(todo') >= 1 => ReadProgress(dm', n + 3 - Len(todo'))
        /\ Mapped /\ ~repeated' /\ ~pending =>
             /\ Len(todo') <= n + 4 /\ Len(todo') >= 2 => ~Faulty(dm')
             /\ \A i \in 1..Len(got') : got'[i] = dm.mem[call.addr + i - 1]
    <3>1. L - 1 >= n + 3 => dm'.bus = "none"
      BY <1>2, <1>3, <1>11
    <3>2. L - 1 = n + 4 => ~Faulty(dm')
      BY <1>2, <1>3, <1>11
    <3>3. ~repeated' /\ L - 1 <= n + 3 /\ L - 1 >= 1 => ReadProgress(dm', n + 3 - (L - 1))
      BY <1>2, <1>3, <1>12
    <3> QED BY <1>4, <1>16, <3>1, <3>2, <3>3, Zenon
  <2>3. /\ Faulty(dm') <=> Faulty(dm)'
        /\ Mapped' <=> Mapped
        /\ ReadProgress(dm', n + 3 - Len(todo')) <=> ReadProgress(dm, n + 3 - Len(todo))'
        /\ Gathered(got, Len(got))' <=> \A i \in 1..Len(got') : got'[i] = dm.mem[call.addr + i - 1]
    BY <1>9, <2>1 DEF Faulty, Mapped, ReadProgress, Gathered, n
  <2> QED BY <1>5, <2>1, <2>2, <2>3 DEF SingleInv, n
<1>18. GotInv'
  <2>1. /\ L - 1 >= n + 1 => Len(got') = 0
        /\ L - 1 \in 1..n + 1 => Len(got') = n + 1 - (L - 1)
        /\ L - 1 = 0 => Len(got') = n
    <3>1. (L >= n + 1 => Len(got) = 0) /\ (L \in 1..n + 1 => Len(got) = n + 1 - L)
      BY SingleLeaves DEF BusInv, GotInv, n, L
    <3>2. L \in 2..n + 1 => Len(got') = (n + 1 - L) + 1
      BY <1>15
    <3>3. L \notin 2..n + 1 => Len(got') = Len(got)
      BY <1>15
    <3>4. Len(got) \in Nat
      BY <1>15
    <3> QED BY <1>2, <1>3, <3>1, <3>2, <3>3, <3>4
  <2>2. pc' = "single" /\ call' = call
    BY SingleLeaves
  <2> QED BY <1>4, <2>1, <2>2 DEF GotInv, Writing, n
<1>19. todo' = Tail(todo) /\ Head(todo) \in Access
  BY <1>3, <1>4 DEF x
<1> QED BY <1>3, <1>9, <1>17, <1>18, <1>19, SingleKeeps DEF n

\* An access on its own keeps the invariant, whatever it is part of.
LEMMA SingleBus == ASSUME BusInv, Single PROVE BusInv'
BY SingleLeaves, SingleRead32, SingleWrite32, SingleRewrite, SingleClearUp, SingleSlowRead
   DEF BusInv, SingleInv

\* The end of the single accesses: a read returns, a write goes to its closing batch
\* or raises.
LEMMA SinglesDoneBus == ASSUME BusInv, SinglesDone PROVE BusInv'
<1>1. /\ pc = "single" /\ todo = <<>> /\ dm.bus = "none" /\ call.kind # "none" /\ call.n >= 1
      /\ UNCHANGED <<dm, sticky, call, todo, then, got, calls, busies, history>>
  BY DEF SinglesDone, BusInv, CallInv
<1>2. VarsInv /\ Len(todo) = 0 /\ call.n \in Nat /\ got \in Seq(Nat)
  BY <1>1, CallType DEF BusInv, VarsInv
<1>3. OnlyTargetWritten' /\ TargetInv'
  BY <1>1, SameMemory DEF history
<1>4. BatchInv' /\ StreamInv' /\ SingleInv'
  BY <1>1 DEF SinglesDone, BatchInv, StreamInv, SingleInv
<1>5. CASE /\ then = "closing" /\ pc' = "closing" /\ sent' = 0 /\ caps' = <<>>
           /\ UNCHANGED <<ret, result>>
  <2>1. /\ call.kind = "write" /\ WriteProgress(dm, call.n + 2 - Len(todo)) /\ ~sticky /\ ~missed
    BY <1>1, <1>5 DEF BusInv, SingleInv
  <2>2. call.n + 2 - Len(todo) = call.n + 2 /\ call.n + 2 >= 2 /\ (call.n + 2) - 2 = call.n
    BY <1>2
  <2>3. WriteProgress(dm, call.n + 2)
    BY <2>1, <2>2
  <2>4. ~Faulty(dm) => Written
    BY <1>1, <2>2, <2>3 DEF WriteProgress, Written
  <2>5. <<>> \in Seq(Nat \X BOOLEAN) /\ Len(<<>>) = 0
    BY EmptySeq
  <2>6. ClosingInv'
    <3>1. Written' <=> Written
      BY <1>1 DEF Written, Word
    <3>2. Faulty(dm)' <=> Faulty(dm)
      BY <1>1 DEF Faulty
    <3> QED BY <1>1, <1>5, <2>1, <2>4, <2>5, <3>1, <3>2 DEF ClosingInv, history
  <2>7. VarsInv'
    BY <1>1, <1>2, <1>5, <2>5 DEF VarsInv, history
  <2>8. CallInv' /\ GotInv' /\ ReadExact' /\ WriteExact' /\ Len(result') <= MaxWords
    BY <1>1, <1>5, <2>1 DEF BusInv, CallInv, GotInv, Writing, ReadExact, WriteExact, Returned
  <2> QED BY <1>3, <1>4, <2>6, <2>7, <2>8 DEF BusInv
<1>6. CASE /\ then # "closing" /\ pc' = "ready"
           /\ ret' = IF then = "raise" THEN "raise" ELSE "ok"
           /\ result' = got
           /\ UNCHANGED <<sent, caps>>
  <2>1. VarsInv'
    BY <1>1, <1>2, <1>6 DEF VarsInv, history
  <2>2. ClosingInv' /\ GotInv' /\ CallInv'
    BY <1>1, <1>6 DEF BusInv, ClosingInv, GotInv, CallInv
  <2>3. WriteExact'
    <3>1. call.kind = "write" => then = "raise"
      BY <1>1, <1>6 DEF BusInv, SingleInv
    <3> QED BY <1>1, <1>6, <3>1 DEF WriteExact, Returned
  <2>4. call.kind = "read" => Len(got) = call.n
    BY <1>1, <1>2 DEF BusInv, GotInv
  <2>5. ReadExact'
    <3> SUFFICES ASSUME call.kind = "read", Mapped, ~repeated, ~pending PROVE got = Content
      BY <1>1, <1>6 DEF ReadExact, Returned, Mapped, Content, history
    <3>1. Gathered(got, Len(got))
      BY <1>1 DEF BusInv, SingleInv
    <3>2. \A i \in 1..call.n : got[i] = dm.mem[call.addr + i - 1]
      BY <2>4, <3>1 DEF Gathered
    <3> QED BY <1>2, <2>4, <3>2, WordsAreContent
  <2>6. Len(result') <= MaxWords
    <3>1. call.kind = "read32" => Len(got) = 1
      BY <1>1, <1>2 DEF BusInv, GotInv
    <3>2. Writing => Len(got) = 0
      BY <1>1, EmptySeq DEF BusInv, GotInv
    <3>3. call.n <= MaxWords /\ call.n >= 1 /\ MaxWords \in Nat
          /\ call.kind \in {"none", "read32", "write32", "read", "write"}
      BY <1>1, <1>2, CallType
    <3>4. call.kind \in {"read", "read32"} \/ Writing
      BY <1>1, <3>3 DEF Writing
    <3>5. Len(got) <= MaxWords
      <4>1. Len(got) = call.n \/ Len(got) = 1 \/ Len(got) = 0
        BY <2>4, <3>1, <3>2, <3>4, Zenon
      <4>2. ASSUME NEW k \in Nat, NEW l, l = k \/ l = 1 \/ l = 0, k <= MaxWords, k >= 1
            PROVE  l <= MaxWords
        BY <3>3, <4>2
      <4> QED BY <1>2, <3>3, <4>1, <4>2
    <3>6. result' = got
      BY <1>6
    <3> QED BY <3>5, <3>6
  <2> QED BY <1>3, <1>4, <2>1, <2>2, <2>3, <2>5, <2>6 DEF BusInv
<1> QED BY <1>5, <1>6 DEF SinglesDone

\* A stuttering step keeps the invariant.
LEMMA StutterBus == ASSUME BusInv, UNCHANGED vars PROVE BusInv'
<1>1. UNCHANGED <<dm, sticky, pc, call, sent, caps, todo, then, got, ret, result, calls, busies,
                  before, pending, repeated, missed>>
  BY DEF vars, history
<1>2. VarsInv' /\ OnlyTargetWritten' /\ TargetInv' /\ CallInv' /\ Len(result') <= MaxWords
  BY <1>1 DEF BusInv, VarsInv, OnlyTargetWritten, Writing, Target, TargetInv, CallInv
<1>3. BatchInv' /\ StreamInv' /\ ClosingInv' /\ GotInv'
  BY <1>1 DEF BusInv, BatchInv, StreamInv, ClosingInv, GotInv, Writing, Captured, Written, Faulty,
              ReadProgress, WriteProgress, Word
<1>4. SingleInv'
  <2>1. /\ LeftOf(Read32)' = LeftOf(Read32) /\ LeftOf(Write32)' = LeftOf(Write32)
        /\ LeftOf(WriteStream)' = LeftOf(WriteStream) /\ LeftOf(ClearUp)' = LeftOf(ClearUp)
        /\ LeftOf(ClearAndSlowRead)' = LeftOf(ClearAndSlowRead)
    <3>1. /\ Read32' = Read32 /\ Write32' = Write32 /\ WriteStream' = WriteStream
          /\ ClearUp' = ClearUp /\ ClearAndSlowRead' = ClearAndSlowRead
      BY <1>1 DEF Read32, Write32, WriteStream, Words, Word, ClearUp, ClearAndSlowRead, SlowRead
    <3> QED BY <1>1, <3>1 DEF LeftOf
  <2>2. /\ WriteProgress(dm, 3 - Len(todo))' = WriteProgress(dm, 3 - Len(todo))
        /\ WriteProgress(dm, call.n + 2 - Len(todo))' = WriteProgress(dm, call.n + 2 - Len(todo))
    BY <1>1 DEF WriteProgress, Word, Faulty
  <2>3. ReadProgress(dm, call.n + 3 - Len(todo))' = ReadProgress(dm, call.n + 3 - Len(todo))
    BY <1>1 DEF ReadProgress, Faulty
  <2>4. /\ Faulty(dm)' = Faulty(dm) /\ Mapped' = Mapped
        /\ Gathered(got, Len(got))' = Gathered(got, Len(got))
    BY <1>1 DEF Faulty, Mapped, Gathered
  <2>5. SingleInv' = SingleInv
    BY <1>1, <2>1, <2>2, <2>3, <2>4 DEF SingleInv
  <2> QED BY <2>5 DEF BusInv
<1>5. ReadExact' /\ WriteExact'
  BY <1>1 DEF BusInv, ReadExact, WriteExact, Returned, Mapped, Content, Word
<1> QED BY <1>2, <1>3, <1>4, <1>5 DEF BusInv

\* Every step keeps it: one lemma per action.
LEMMA NextBus == BusInv /\ [Next]_vars => BusInv'
<1> SUFFICES ASSUME BusInv, [Next]_vars PROVE BusInv'
  OBVIOUS
<1>1. CASE Calls
  BY <1>1, CallsBus
<1>2. CASE Single
  BY <1>2, SingleBus
<1>3. CASE SinglesDone
  BY <1>3, SinglesDoneBus
<1>4. CASE BatchScan
  BY <1>4, BatchScanBus
<1>5. CASE BatchDone
  BY <1>5, BatchDoneBus
<1>6. CASE StreamScan
  BY <1>6, StreamScanBus
<1>7. CASE StreamDone
  BY <1>7, StreamDoneBus
<1>8. CASE ClosingScan
  BY <1>8, ClosingScanBus
<1>9. CASE ClosingDone
  BY <1>9, ClosingDoneBus
<1>10. CASE Settle
  BY <1>10, SettleBus
<1>11. CASE UNCHANGED vars
  BY <1>11, StutterBus
<1> QED BY <1>1, <1>2, <1>3, <1>4, <1>5, <1>6, <1>7, <1>8, <1>9, <1>10, <1>11 DEF Next

\* It holds in every reachable state.
LEMMA BusInvariant == Spec => []BusInv
BY InitBus, NextBus, PTL DEF Spec

-----------------------------------------------------------------------------
\* The device, the captures and what a call returns keep their types, and no call
\* returns more words than the largest one asks for.
THEOREM BusTypeCorrect == Spec => []TypeOK
<1>1. BusInv => TypeOK
  BY DEF BusInv, VarsInv, TypeOK
<1> QED BY <1>1, BusInvariant, PTL

\* For a memory, calls and words of every number: whatever is lost to a busy scan,
\* raced or redone, write_mem and write_mem32 change no word outside the range they
\* were given, and a read changes none.
THEOREM OnlyTargets == Spec => []OnlyTargetWritten
<1>1. BusInv => OnlyTargetWritten
  BY DEF BusInv
<1> QED BY <1>1, BusInvariant, PTL

\* A write_mem that returns has put every word in its place, whether the stream went
\* through, was redone word by word, or was caught by the closing SBCS read.
THEOREM WritesExactly == Spec => []WriteExact
<1>1. BusInv => WriteExact
  BY DEF BusInv
<1> QED BY <1>1, BusInvariant, PTL

\* A read_mem of mapped words returns the words of memory, from the batch and from
\* the slow path alike, but for the two departures its history variables name.
THEOREM ReadsExactly == Spec => []ReadExact
<1>1. BusInv => ReadExact
  BY DEF BusInv
<1> QED BY <1>1, BusInvariant, PTL
=============================================================================
