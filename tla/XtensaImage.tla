------------------------------ MODULE XtensaImage ------------------------------
(* Where the stub loader (xtensa_flasher.py) puts a stub.  The chip shows the    *)
(* same RAM to instruction fetches in reverse word order: code at iram_org + n   *)
(* is the word below dram_org - n.  Sizes are in bytes, Word bytes to a word.    *)
EXTENDS Integers, Sequences, SequencesExt

CONSTANTS
    Word, Chunk,         \* bytes of a word (4) and of one write (1024)
    DramOrg,             \* the address both halves meet at
    TrampSize,           \* bytes of the trampoline
    StackSize,
    CodeSizes, DataSizes \* stubs to load

ASSUME ImageAssumption ==
    /\ Word \in Nat \ {0} /\ Chunk \in Nat \ {0} /\ Chunk % Word = 0 /\ DramOrg \in Nat
    /\ TrampSize \in Nat \ {0} /\ StackSize \in Nat
    /\ CodeSizes \subseteq Nat /\ DataSizes \subseteq Nat

NotLoaded == [at |-> <<>>]
Pad == <<"pad", 0>>

AlignUp(v) == ((v + Word - 1) \div Word) * Word

(* The last word of a section that does not fill one is padded behind its bytes. *)
Align4(bytes) == [i \in 1 .. AlignUp(Len(bytes)) |-> IF i <= Len(bytes) THEN bytes[i] ELSE Pad]

(* reverse_binary: an incomplete last word comes first, then the words from the  *)
(* last to the first, each with its bytes in order.                              *)
WordsFromTheEnd(bytes) ==
    [i \in 1 .. AlignUp(Len(bytes)) |->
        LET k == Len(bytes) - ((i - 1) \div Word + 1) * Word + ((i - 1) % Word) + 1
        IN IF k \in DOMAIN bytes THEN bytes[k] ELSE Pad]
ReverseBinary(bytes) ==
    [i \in 1 .. AlignUp(Len(bytes)) |->
        LET k == AlignUp(Len(bytes)) - ((i - 1) \div Word + 1) * Word + ((i - 1) % Word) + 1
        IN IF k \in DOMAIN bytes THEN bytes[k] ELSE Pad]

Smaller(a, b) == IF a < b THEN a ELSE b

(* The writes of one section, Chunk bytes at a time.                             *)
PlanSection(payload, base, reverse) ==
    LET starts == {n \in 0 .. Len(payload) - 1 : n % Chunk = 0}
    IN { LET bytes == SubSeq(payload, n + 1, Smaller(n + Chunk, Len(payload)))
         IN IF reverse
            THEN [addr |-> base - n - AlignUp(Len(bytes)), bytes |-> ReverseBinary(bytes)]
            ELSE [addr |-> base + n, bytes |-> Align4(bytes)] : n \in starts }

Section(name, size) == [i \in 1 .. size |-> <<name, i>>]

(* Code and trampoline grow down from dram_org, data, stack and buffers up.      *)
PlanLoad(code, data) ==
    LET al == AlignUp(code)
        tramp == [addr |-> DramOrg - al - AlignUp(TrampSize),
                  bytes |-> ReverseBinary(Section("tramp", TrampSize))]
        stack == DramOrg + AlignUp(data)
    IN [writes |-> PlanSection(Section("code", code), DramOrg, TRUE)
                   \cup {tramp} \cup PlanSection(Section("data", data), DramOrg, FALSE),
        code |-> code, data |-> data, tramp |-> al, stack |-> stack + StackSize,
        next |-> stack + StackSize]

Written(plan) ==
    [at |-> [a \in UNION {w.addr .. w.addr + Len(w.bytes) - 1 : w \in plan.writes} |->
               LET w == CHOOSE w \in plan.writes : a \in w.addr .. w.addr + Len(w.bytes) - 1
               IN w.bytes[a - w.addr + 1]],
     plan |-> [plan EXCEPT !.writes = {}],
     twice |-> \E v, w \in plan.writes : v # w /\
                 (v.addr .. v.addr + Len(v.bytes) - 1)
                    \cap (w.addr .. w.addr + Len(w.bytes) - 1) # {}]

(* What the core fetches n bytes into its instruction memory.                    *)
FetchedAt(im, n) ==
    LET word == DramOrg - (n \div Word + 1) * Word IN im.at[word + (n % Word)]

(* Fetching from iram_org on the core sees the code and behind it the trampoline *)
(* it is started on, with padding between; data is at dram_org; nothing written  *)
(* is in the stack; no byte is written twice.                                    *)
SeesStub(im) ==
    /\ ~im.twice
    /\ \A n \in 0 .. im.plan.code - 1 : FetchedAt(im, n) = <<"code", n + 1>>
    /\ \A n \in 0 .. TrampSize - 1 : FetchedAt(im, im.plan.tramp + n) = <<"tramp", n + 1>>
    /\ \A n \in 0 .. im.plan.data - 1 : im.at[DramOrg + n] = <<"data", n + 1>>
    /\ \A a \in DOMAIN im.at : a < im.plan.stack - StackSize
=============================================================================
