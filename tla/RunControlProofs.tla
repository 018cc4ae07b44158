--------------------------- MODULE RunControlProofs ---------------------------
(***************************************************************************)
(* Proofs about RunControl, for every number of polls, tools called and    *)
(* troubles, and every program interrupted.  The first part is about the   *)
(* register accesses, in a batch and one after the other, the second about *)
(* the calls made of them: their invariant, and what follows from it.      *)
(***************************************************************************)
EXTENDS RunControl, SequenceTheorems, TLAPS

(***************************************************************************)
(* Types                                                                   *)
(***************************************************************************)
PairType == Regs \X (Value \cup {None})
Raises == [tool |-> tool, how |-> "raised"]

TypeInv ==
  /\ tool \in Tools \cup {None}
  /\ Idle => step = 0 /\ code = <<>>
  /\ ~Idle => step \in 1..Len(Calls(tool)) + 1 /\ report \in {None, Raises}
  /\ ok \in BOOLEAN /\ wasRunning \in BOOLEAN /\ trap \in BOOLEAN
  /\ masked \in BOOLEAN /\ machine \in BOOLEAN
  /\ polls \in 0..Polls
  /\ hart \in {"running", "halted", "reset"} /\ cause \in {"haltreq", "itself", "trap"}
  /\ regs \in [Regs -> Value] /\ \A r \in Regs : regs[r][1] = r
  /\ vals \in [Regs -> Value \cup {None}]
  /\ dm \in [haltreq : BOOLEAN, ndmreset : BOOLEAN, resumeack : BOOLEAN, havereset : BOOLEAN]
  /\ abs \in [busy : BOOLEAN, cmderr : {0, 1, 4}, pair : PairType \cup {<<>>}, data0 : Value]

(***************************************************************************)
(* Register accesses.  The head of the code is at work on the pairs P, as  *)
(* a batch, its check, or one after the other.                             *)
(***************************************************************************)
\* All reads, or all writes, of different registers.
Proper(P) ==
  /\ P \in Seq(PairType) /\ P # <<>>
  /\ \/ \A i \in 1..Len(P) : P[i][2] = None
     \/ \A i \in 1..Len(P) : P[i][2] \in Value /\ P[i][2][1] = P[i][1]
  /\ \A i \in 1..Len(P), j \in 1..Len(P) : P[i][1] = P[j][1] => i = j

Suffix(rest, P) ==
  /\ rest \in Seq(PairType) /\ Len(rest) \in 1..Len(P)
  /\ \A i \in 1..Len(rest) : rest[i] = P[Len(P) - Len(rest) + i]

WorkingOn(P) ==
  /\ code # <<>>
  /\ \/ Next1 = Batch(P)
     \/ /\ Next1.op = "check" /\ Next1 = Check(P, Next1.got, Next1.dirty)
        /\ Next1.dirty \in BOOLEAN /\ Next1.got \in [1..Len(P) -> Value]
     \/ /\ Next1.op = "access" /\ Next1 = Access(Next1.pairs, Next1.at)
        /\ Suffix(Next1.pairs, P)
        /\ Next1.at \in {"command", "wait", "data0"}
        /\ Next1.at = "data0" => Pair[2] = None

\* The register is read, or written.
Done(pair) ==
  IF pair[2] = None THEN vals[pair[1]] = regs[pair[1]] ELSE regs[pair[1]] = pair[2]

\* What a wait without an error, a read of DATA0 and a check without an error go by.
AccessInv ==
  code # <<>> /\ Next1.op = "access" =>
    /\ Next1.at = "wait" /\ abs.cmderr = 0 =>
         /\ hart = "halted"
         /\ abs.busy => abs.pair = Pair
         /\ ~abs.busy /\ Pair[2] = None => abs.data0 = regs[Pair[1]]
         /\ ~abs.busy /\ Pair[2] # None => regs[Pair[1]] = Pair[2]
    /\ Next1.at = "data0" =>
         hart = "halted" /\ ~abs.busy /\ abs.cmderr = 0 /\ abs.data0 = regs[Pair[1]]

CheckInv ==
  code # <<>> /\ Next1.op = "check" /\ ~Next1.dirty /\ abs.cmderr = 0 =>
    LET pairs == Next1.pairs IN
    /\ hart = "halted"
    /\ abs.busy => abs.pair = pairs[Len(pairs)] /\ abs.pair[2] # None
    /\ \A i \in 1..Len(pairs) : ~abs.busy \/ i < Len(pairs) =>
         IF pairs[i][2] = None THEN Next1.got[i] = regs[pairs[i][1]]
         ELSE regs[pairs[i][1]] = pairs[i][2]

\* The pairs before the one that is being accessed are done, and that one alone may be
\* in progress.
Progress(P) ==
  code # <<>> /\ Next1.op = "access" /\ Len(Next1.pairs) < Len(P) =>
    /\ \A i \in 1..Len(P) - Len(Next1.pairs) : Done(P[i])
    /\ hart = "halted"
    /\ abs.busy => Next1.at = "wait" /\ abs.pair = Pair
    /\ Next1.at = "command" => abs.cmderr = 0

\* Whatever is in progress is one of the pairs.
Pending(P) == abs.busy => \E i \in 1..Len(P) : abs.pair = P[i]

Working(P) == WorkingOn(P) /\ AccessInv /\ CheckInv /\ Progress(P) /\ Pending(P)
WorkingIn(Ps) == \E P \in Ps : Working(P)

Quiet == hart = "halted" /\ ~abs.busy
A0 == <<<<"a0", None>>>>

(***************************************************************************)
(* Isolation                                                               *)
(***************************************************************************)
Foreign(value) == value[2] \in {"call", "callee"}
\* A hart with these registers runs the function isolated, if that is what it runs.
Isolated(rs) ==
  Foreign(rs["dpc"]) =>
    /\ trap
    /\ masked \/ rs["mstatus"] = <<"mstatus", "call">>
    /\ machine \/ rs["dcsr"] = <<"dcsr", "call">>
\* The registers when the command in progress has completed.
Completed(pair) == IF pair[2] = None THEN regs ELSE [regs EXCEPT ![pair[1]] = pair[2]]

IsolatedInv ==
  /\ Isolated(regs)
  /\ abs.busy => /\ hart = "halted"
                 /\ abs.pair \in PairType /\ (abs.pair[2] # None => abs.pair[2][1] = abs.pair[1])
                 /\ Isolated(Completed(abs.pair))

Reads(n) == [i \in DOMAIN SaveRegs(n) |-> <<SaveRegs(n)[i], None>>]
\* What is to be put back.
SavedInv(n) ==
  /\ saved \in Seq(PairType) /\ Len(saved) = Len(SaveRegs(n))
  /\ \A i \in 1..Len(saved) :
       /\ saved[i][1] = SaveRegs(n)[i]
       /\ saved[i][2] \in Value /\ saved[i][2][1] = saved[i][1]
       /\ before # None => saved[i][2] = before[saved[i][1]]
  /\ Foreign(saved[1][2]) =>
       /\ masked \/ saved[3][2] = <<"mstatus", "call">>
       /\ machine \/ saved[2][2] = <<"dcsr", "call">>

\* The jump target is written before the rest.
PutBack == InCallee \/ regs["dpc"] = saved[1][2]

-----------------------------------------------------------------------------
(***************************************************************************)
(* Sequences, and the lists of registers                                   *)
(***************************************************************************)
\* One more in front.
LEMMA Front ==
  ASSUME NEW S, NEW t \in Seq(S), NEW x
  PROVE  Head(<<x>> \o t) = x /\ Tail(<<x>> \o t) = t /\ <<x>> \o t # <<>>
<1>1. <<x>> \in Seq(S \cup {x}) /\ t \in Seq(S \cup {x}) /\ Len(<<x>>) = 1 /\ <<x>>[1] = x
  OBVIOUS
<1>2. /\ <<x>> \o t \in Seq(S \cup {x}) /\ Len(<<x>> \o t) = 1 + Len(t)
      /\ (<<x>> \o t)[1] = x
      /\ \A i \in 1..Len(t) : (<<x>> \o t)[i + 1] = t[i]
  BY <1>1, ConcatProperties, LenProperties
<1>3. <<x>> \o t # <<>> /\ Len(t) \in Nat
  BY <1>2, EmptySeq, LenProperties
<1>4. /\ Tail(<<x>> \o t) \in Seq(S \cup {x}) /\ Len(Tail(<<x>> \o t)) = Len(t)
      /\ \A i \in 1..Len(t) : Tail(<<x>> \o t)[i] = (<<x>> \o t)[i + 1]
  BY <1>2, <1>3, HeadTailProperties
<1>5. Tail(<<x>> \o t) = t
  BY <1>1, <1>2, <1>4, SeqEqual
<1> QED BY <1>2, <1>3, <1>5

\* Sequences put together.
LEMMA Join ==
  ASSUME NEW S, NEW s \in Seq(S), NEW t \in Seq(S), NEW u \in Seq(S),
         Len(u) = Len(s) + Len(t),
         \A i \in 1..Len(u) : u[i] = IF i <= Len(s) THEN s[i] ELSE t[i - Len(s)]
  PROVE  s \o t = u
BY ConcatProperties, SeqEqual

\* Joining short sequences, written out.
LEMMA Join21 ==
  ASSUME NEW a, NEW b, NEW c
  PROVE  <<a, b>> \o <<c>> = <<a, b, c>>
<1> DEFINE S == {a, b, c}  s == <<a, b>>  t == <<c>>  u == <<a, b, c>>
<1>1. s \in Seq(S) /\ t \in Seq(S) /\ u \in Seq(S) /\ Len(s) = 2 /\ Len(t) = 1 /\ Len(u) = 3
  OBVIOUS
<1>2. \A i \in 1..3 : u[i] = IF i <= 2 THEN s[i] ELSE t[i - 2]
  OBVIOUS
<1>3. s \o t = u
  <2> HIDE DEF s, t, u
  <2>1. Len(u) = Len(s) + Len(t)
    BY <1>1
  <2>2. \A i \in 1..Len(u) : u[i] = IF i <= Len(s) THEN s[i] ELSE t[i - Len(s)]
    BY <1>1, <1>2
  <2> QED BY <1>1, <2>1, <2>2, Join, Zenon
<1> QED BY <1>3

\* The same for two and two.
LEMMA Join22 ==
  ASSUME NEW a, NEW b, NEW c, NEW d
  PROVE  <<a, b>> \o <<c, d>> = <<a, b, c, d>>
<1> DEFINE S == {a, b, c, d}  s == <<a, b>>  t == <<c, d>>  u == <<a, b, c, d>>
<1>1. s \in Seq(S) /\ t \in Seq(S) /\ u \in Seq(S) /\ Len(s) = 2 /\ Len(t) = 2 /\ Len(u) = 4
  OBVIOUS
<1>2. \A i \in 1..4 : u[i] = IF i <= 2 THEN s[i] ELSE t[i - 2]
  OBVIOUS
<1>3. s \o t = u
  <2> HIDE DEF s, t, u
  <2>1. Len(u) = Len(s) + Len(t)
    BY <1>1
  <2>2. \A i \in 1..Len(u) : u[i] = IF i <= Len(s) THEN s[i] ELSE t[i - Len(s)]
    BY <1>1, <1>2
  <2> QED BY <1>1, <2>1, <2>2, Join, Zenon
<1> QED BY <1>3

\* The same for two and three.
LEMMA Join23 ==
  ASSUME NEW a, NEW b, NEW c, NEW d, NEW e
  PROVE  <<a, b>> \o <<c, d, e>> = <<a, b, c, d, e>>
<1> DEFINE S == {a, b, c, d, e}  s == <<a, b>>  t == <<c, d, e>>  u == <<a, b, c, d, e>>
<1>1. s \in Seq(S) /\ t \in Seq(S) /\ u \in Seq(S) /\ Len(s) = 2 /\ Len(t) = 3 /\ Len(u) = 5
  OBVIOUS
<1>2. \A i \in 1..5 : u[i] = IF i <= 2 THEN s[i] ELSE t[i - 2]
  OBVIOUS
<1>3. s \o t = u
  <2> HIDE DEF s, t, u
  <2>1. Len(u) = Len(s) + Len(t)
    BY <1>1
  <2>2. \A i \in 1..Len(u) : u[i] = IF i <= Len(s) THEN s[i] ELSE t[i - Len(s)]
    BY <1>1, <1>2
  <2> QED BY <1>1, <2>1, <2>2, Join, Zenon
<1> QED BY <1>3

\* The same for two and four.
LEMMA Join24 ==
  ASSUME NEW a, NEW b, NEW c, NEW d, NEW e, NEW f
  PROVE  <<a, b>> \o <<c, d, e, f>> = <<a, b, c, d, e, f>>
<1> DEFINE S == {a, b, c, d, e, f}  s == <<a, b>>  t == <<c, d, e, f>>  u == <<a, b, c, d, e, f>>
<1>1. s \in Seq(S) /\ t \in Seq(S) /\ u \in Seq(S) /\ Len(s) = 2 /\ Len(t) = 4 /\ Len(u) = 6
  OBVIOUS
<1>2. \A i \in 1..6 : u[i] = IF i <= 2 THEN s[i] ELSE t[i - 2]
  OBVIOUS
<1>3. s \o t = u
  <2> HIDE DEF s, t, u
  <2>1. Len(u) = Len(s) + Len(t)
    BY <1>1
  <2>2. \A i \in 1..Len(u) : u[i] = IF i <= Len(s) THEN s[i] ELSE t[i - Len(s)]
    BY <1>1, <1>2
  <2> QED BY <1>1, <2>1, <2>2, Join, Zenon
<1> QED BY <1>3

\* The same for two and five.
LEMMA Join25 ==
  ASSUME NEW a, NEW b, NEW c, NEW d, NEW e, NEW f, NEW g
  PROVE  <<a, b>> \o <<c, d, e, f, g>> = <<a, b, c, d, e, f, g>>
<1> DEFINE S == {a, b, c, d, e, f, g}  s == <<a, b>>  t == <<c, d, e, f, g>>  u == <<a, b, c, d, e, f, g>>
<1>1. s \in Seq(S) /\ t \in Seq(S) /\ u \in Seq(S) /\ Len(s) = 2 /\ Len(t) = 5 /\ Len(u) = 7
  OBVIOUS
<1>2. \A i \in 1..7 : u[i] = IF i <= 2 THEN s[i] ELSE t[i - 2]
  OBVIOUS
<1>3. s \o t = u
  <2> HIDE DEF s, t, u
  <2>1. Len(u) = Len(s) + Len(t)
    BY <1>1
  <2>2. \A i \in 1..Len(u) : u[i] = IF i <= Len(s) THEN s[i] ELSE t[i - Len(s)]
    BY <1>1, <1>2
  <2> QED BY <1>1, <2>1, <2>2, Join, Zenon
<1> QED BY <1>3

\* The same for one and four.
LEMMA Join14 ==
  ASSUME NEW a, NEW b, NEW c, NEW d, NEW e
  PROVE  <<a>> \o <<b, c, d, e>> = <<a, b, c, d, e>>
<1> DEFINE S == {a, b, c, d, e}  s == <<a>>  t == <<b, c, d, e>>  u == <<a, b, c, d, e>>
<1>1. s \in Seq(S) /\ t \in Seq(S) /\ u \in Seq(S) /\ Len(s) = 1 /\ Len(t) = 4 /\ Len(u) = 5
  OBVIOUS
<1>2. \A i \in 1..5 : u[i] = IF i <= 1 THEN s[i] ELSE t[i - 1]
  OBVIOUS
<1>3. s \o t = u
  <2> HIDE DEF s, t, u
  <2>1. Len(u) = Len(s) + Len(t)
    BY <1>1
  <2>2. \A i \in 1..Len(u) : u[i] = IF i <= Len(s) THEN s[i] ELSE t[i - Len(s)]
    BY <1>1, <1>2
  <2> QED BY <1>1, <2>1, <2>2, Join, Zenon
<1> QED BY <1>3

\* The same for five and one.
LEMMA Join51 ==
  ASSUME NEW a, NEW b, NEW c, NEW d, NEW e, NEW f
  PROVE  <<a, b, c, d, e>> \o <<f>> = <<a, b, c, d, e, f>>
<1> DEFINE S == {a, b, c, d, e, f}  s == <<a, b, c, d, e>>  t == <<f>>  u == <<a, b, c, d, e, f>>
<1>1. s \in Seq(S) /\ t \in Seq(S) /\ u \in Seq(S) /\ Len(s) = 5 /\ Len(t) = 1 /\ Len(u) = 6
  OBVIOUS
<1>2. \A i \in 1..6 : u[i] = IF i <= 5 THEN s[i] ELSE t[i - 5]
  OBVIOUS
<1>3. s \o t = u
  <2> HIDE DEF s, t, u
  <2>1. Len(u) = Len(s) + Len(t)
    BY <1>1
  <2>2. \A i \in 1..Len(u) : u[i] = IF i <= Len(s) THEN s[i] ELSE t[i - Len(s)]
    BY <1>1, <1>2
  <2> QED BY <1>1, <2>1, <2>2, Join, Zenon
<1> QED BY <1>3

\* The registers saved, read and set.
LEMMA SavedRegs ==
  /\ SaveRegs(0) = <<"dpc", "dcsr", "mstatus", "ra", "sp">>
  /\ SaveRegs(1) = <<"dpc", "dcsr", "mstatus", "ra", "sp", "a0">>
<1>1. SaveRegs(0) = <<"dpc", "dcsr", "mstatus", "ra", "sp">> \o <<>>
  BY DEF SaveRegs
<1>2. SaveRegs(1) = <<"dpc", "dcsr", "mstatus", "ra", "sp">> \o <<"a0">>
  BY DEF SaveRegs
<1>3. <<"dpc", "dcsr", "mstatus", "ra", "sp">> \in Seq(Regs)
  BY DEF Regs
<1> QED BY <1>1, <1>2, <1>3, Join51, ConcatEmptySeq

\* What is read, written and put back is proper.
LEMMA ProperReads ==
  ASSUME NEW P \in Seq(PairType), P # <<>>, \A i \in 1..Len(P) : P[i][2] = None,
         \A i \in 1..Len(P), j \in 1..Len(P) : P[i][1] = P[j][1] => i = j
  PROVE  Proper(P)
BY Zenon DEF Proper

\* The registers saved are different ones, all read.
LEMMA ReadsProper ==
  ASSUME NEW n \in {0, 1}
  PROVE  Proper(Reads(n)) /\ \A i \in 1..Len(Reads(n)) : Reads(n)[i][2] = None
<1>1. CASE n = 0
  <2> DEFINE P == <<<<"dpc", None>>, <<"dcsr", None>>, <<"mstatus", None>>, <<"ra", None>>,
                    <<"sp", None>>>>
  <2>1. Reads(0) = P
    BY SavedRegs DEF Reads
  <2>2. P \in Seq(PairType) /\ P # <<>>
    BY DEF PairType, Regs
  <2>3. \A i \in 1..Len(P) : P[i][2] = None
    OBVIOUS
  <2>4. \A i \in 1..Len(P), j \in 1..Len(P) : P[i][1] = P[j][1] => i = j
    OBVIOUS
  <2> HIDE DEF P
  <2>5. Proper(P)
    BY <2>2, <2>3, <2>4, ProperReads
  <2> QED BY <1>1, <2>1, <2>3, <2>5
<1>2. CASE n = 1
  <2> DEFINE P == <<<<"dpc", None>>, <<"dcsr", None>>, <<"mstatus", None>>, <<"ra", None>>,
                    <<"sp", None>>, <<"a0", None>>>>
  <2>1. Reads(1) = P
    BY SavedRegs DEF Reads
  <2>2. P \in Seq(PairType) /\ P # <<>>
    BY DEF PairType, Regs
  <2>3. \A i \in 1..Len(P) : P[i][2] = None
    OBVIOUS
  <2>4. \A i \in 1..Len(P), j \in 1..Len(P) : P[i][1] = P[j][1] => i = j
    OBVIOUS
  <2> HIDE DEF P
  <2>5. Proper(P)
    BY <2>2, <2>3, <2>4, ProperReads
  <2> QED BY <1>2, <2>1, <2>3, <2>5
<1> QED BY <1>1, <1>2

\* The single accesses.
LEMMA SingleProper ==
  /\ Proper(A0) /\ Proper(<<<<"dcsr", None>>>>)
  /\ Proper(<<<<"dcsr", <<"dcsr", "ebreak">>>>>>) /\ Proper(<<<<"a0", <<"a0", "tool">>>>>>)
<1>1. <<"dcsr", "ebreak">> \in Value /\ <<"a0", "tool">> \in Value
  BY DEF Value, Regs, Kinds
<1>2. Proper(A0)
  BY DEF Proper, A0, PairType, Regs
<1>3. Proper(<<<<"dcsr", None>>>>)
  BY DEF Proper, PairType, Regs
<1>4. Proper(<<<<"dcsr", <<"dcsr", "ebreak">>>>>>)
  BY <1>1 DEF Proper, PairType, Regs
<1>5. Proper(<<<<"a0", <<"a0", "tool">>>>>>)
  BY <1>1 DEF Proper, PairType, Regs
<1> QED BY <1>2, <1>3, <1>4, <1>5

\* The writes s set the registers R, each once.
Sets(s, R) ==
  /\ s \in Seq(PairType)
  /\ \A i \in 1..Len(s) : s[i][1] \in R /\ s[i] = Set(s[i][1])
  /\ \A i \in 1..Len(s), j \in 1..Len(s) : s[i][1] = s[j][1] => i = j
  /\ \A r \in R : \E i \in 1..Len(s) : s[i][1] = r

\* One more register to set, of its own kind and not set yet.
LEMMA SetsMore ==
  ASSUME NEW s, NEW R \in SUBSET Regs, Sets(s, R), NEW r \in Regs \ R
  PROVE  LET t == s \o <<Set(r)>>
         IN  Sets(t, R \cup {r}) /\ t[Len(t)] = Set(r) /\ t # <<>>
<1> DEFINE t == s \o <<Set(r)>>
<1>1. Set(r) \in PairType /\ Set(r)[1] = r
  BY DEF Set, PairType, Value, Kinds
<1>2. s \in Seq(PairType) /\ <<Set(r)>> \in Seq(PairType) /\ Len(<<Set(r)>>) = 1 /\ <<Set(r)>>[1] = Set(r)
  BY <1>1 DEF Sets
<1>3. /\ t \in Seq(PairType) /\ Len(t) = Len(s) + 1 /\ Len(s) \in Nat
      /\ \A i \in 1..Len(t) : t[i] = IF i <= Len(s) THEN s[i] ELSE <<Set(r)>>[i - Len(s)]
  BY <1>2, ConcatProperties, LenProperties, ZenonT(60)
<1> HIDE DEF t
<1>4. t[Len(s) + 1] = Set(r) /\ \A i \in 1..Len(s) : t[i] = s[i]
  BY <1>2, <1>3
<1>5. \A i \in 1..Len(t) : i \in 1..Len(s) \/ i = Len(s) + 1
  BY <1>3
<1>6. \A i \in 1..Len(t) : t[i][1] \in R \cup {r} /\ t[i] = Set(t[i][1])
  BY <1>1, <1>4, <1>5 DEF Sets
<1>7. \A i \in 1..Len(t), j \in 1..Len(t) : t[i][1] = t[j][1] => i = j
  <2> SUFFICES ASSUME NEW i \in 1..Len(t), NEW j \in 1..Len(t), t[i][1] = t[j][1]
               PROVE  i = j
    OBVIOUS
  <2>1. CASE i \in 1..Len(s) /\ j \in 1..Len(s)
    BY <2>1, <1>4 DEF Sets
  <2>2. CASE i \in 1..Len(s) /\ j = Len(s) + 1
    BY <2>2, <1>1, <1>4 DEF Sets
  <2>3. CASE i = Len(s) + 1 /\ j \in 1..Len(s)
    BY <2>3, <1>1, <1>4 DEF Sets
  <2>4. CASE i = Len(s) + 1 /\ j = Len(s) + 1
    BY <2>4
  <2> QED BY <1>5, <2>1, <2>2, <2>3, <2>4
<1>8. \A q \in R \cup {r} : \E i \in 1..Len(t) : t[i][1] = q
  <2>1. \A q \in R : \E i \in 1..Len(s) : s[i][1] = q
    BY DEF Sets
  <2>2. 1..Len(s) \subseteq 1..Len(t) /\ Len(s) + 1 \in 1..Len(t)
    BY <1>3
  <2> QED BY <1>1, <1>4, <2>1, <2>2
<1>9. t # <<>> /\ Len(t) = Len(s) + 1
  BY <1>3, EmptySeq
<1> QED BY <1>3, <1>4, <1>6, <1>7, <1>8, <1>9 DEF Sets, t

\* The registers set before the call are different ones, all written.
LEMMA SetupProper ==
  ASSUME NEW n \in {0, 1}, NEW P, P = SetupPairs(n)
  PROVE  /\ Proper(P) /\ \A i \in 1..Len(P) : P[i] = Set(P[i][1])
         /\ P[Len(P)] = Set("dpc")
         /\ masked \/ \E i \in 1..Len(P) : P[i] = Set("mstatus")
         /\ machine \/ \E i \in 1..Len(P) : P[i] = Set("dcsr")
<1> DEFINE s0 == <<Set("ra"), Set("sp")>>
           s1 == s0 \o (IF n > 0 THEN <<Set("a0")>> ELSE <<>>)
           s2 == s1 \o (IF machine THEN <<>> ELSE <<Set("dcsr")>>)
           s3 == s2 \o (IF masked THEN <<>> ELSE <<Set("mstatus")>>)
           R1 == {"ra", "sp"} \cup IF n > 0 THEN {"a0"} ELSE {}
           R2 == R1 \cup IF machine THEN {} ELSE {"dcsr"}
           R3 == R2 \cup IF masked THEN {} ELSE {"mstatus"}
<1>1. P = s3 \o <<Set("dpc")>>
  BY Zenon DEF SetupPairs
<1>2. Sets(s0, {"ra", "sp"})
  <2>1. Set("ra") \in PairType /\ Set("sp") \in PairType
    BY DEF Set, PairType, Value, Kinds, Regs
  <2>2. s0 \in Seq(PairType) /\ Len(s0) = 2 /\ s0[1] = Set("ra") /\ s0[2] = Set("sp")
    BY <2>1
  <2>3. Set("ra")[1] = "ra" /\ Set("sp")[1] = "sp"
    BY DEF Set
  <2> HIDE DEF s0
  <2> QED BY <2>2, <2>3 DEF Sets
<1> HIDE DEF s0
<1>3. Sets(s1, R1) /\ R1 \in SUBSET Regs /\ R1 \subseteq {"ra", "sp", "a0"}
  <2>1. CASE n > 0
    <3>1. s1 = s0 \o <<Set("a0")>> /\ R1 = {"ra", "sp"} \cup {"a0"}
      BY <2>1
    <3>2. "a0" \in Regs \ {"ra", "sp"} /\ {"ra", "sp"} \in SUBSET Regs
      BY DEF Regs
    <3>3. Sets(s0 \o <<Set("a0")>>, {"ra", "sp"} \cup {"a0"})
      BY <1>2, <3>2, SetsMore, Zenon
    <3> QED BY <3>1, <3>2, <3>3
  <2>2. CASE ~(n > 0)
    <3>1. s1 = s0 /\ R1 = {"ra", "sp"}
      BY <1>2, <2>2, ConcatEmptySeq DEF Sets
    <3> QED BY <1>2, <3>1 DEF Regs
  <2> QED BY <2>1, <2>2
<1> HIDE DEF s1, R1
<1>4. Sets(s2, R2) /\ R2 \in SUBSET Regs /\ R2 \subseteq {"ra", "sp", "a0", "dcsr"}
  <2>1. CASE ~machine
    <3>1. s2 = s1 \o <<Set("dcsr")>> /\ R2 = R1 \cup {"dcsr"}
      BY <2>1
    <3>2. "dcsr" \in Regs \ R1
      BY <1>3 DEF Regs
    <3>3. Sets(s1 \o <<Set("dcsr")>>, R1 \cup {"dcsr"})
      BY <1>3, <3>2, SetsMore, Zenon
    <3> QED BY <1>3, <3>1, <3>2, <3>3
  <2>2. CASE machine
    <3>1. s2 = s1 /\ R2 = R1
      BY <1>3, <2>2, ConcatEmptySeq DEF Sets
    <3> QED BY <1>3, <3>1
  <2> QED BY <2>1, <2>2
<1>5. machine \/ "dcsr" \in R2
  OBVIOUS
<1> HIDE DEF s2, R2
<1>6. Sets(s3, R3) /\ R3 \in SUBSET Regs /\ R3 \subseteq {"ra", "sp", "a0", "dcsr", "mstatus"}
  <2>1. CASE ~masked
    <3>1. s3 = s2 \o <<Set("mstatus")>> /\ R3 = R2 \cup {"mstatus"}
      BY <2>1
    <3>2. "mstatus" \in Regs \ R2
      BY <1>4 DEF Regs
    <3>3. Sets(s2 \o <<Set("mstatus")>>, R2 \cup {"mstatus"})
      BY <1>4, <3>2, SetsMore, Zenon
    <3> QED BY <1>4, <3>1, <3>2, <3>3
  <2>2. CASE masked
    <3>1. s3 = s2 /\ R3 = R2
      BY <1>4, <2>2, ConcatEmptySeq DEF Sets
    <3> QED BY <1>4, <3>1
  <2> QED BY <2>1, <2>2
<1>7. (machine \/ "dcsr" \in R3) /\ (masked \/ "mstatus" \in R3)
  BY <1>5
<1> HIDE DEF s3, R3
<1>8. Sets(P, R3 \cup {"dpc"}) /\ P[Len(P)] = Set("dpc") /\ P # <<>>
  <2>1. "dpc" \in Regs \ R3
    BY <1>6 DEF Regs
  <2> QED BY <1>1, <1>6, <2>1, SetsMore, Zenon
<1>9. \A r \in R3 : \E i \in 1..Len(P) : P[i] = Set(r)
  BY <1>8 DEF Sets
<1>10. Proper(P)
  <2>1. \A i \in 1..Len(P) : P[i][1] \in Regs /\ P[i] = Set(P[i][1])
    BY <1>6, <1>8 DEF Sets, Regs
  <2>2. \A r \in Regs : Set(r)[2] \in Value /\ Set(r)[2][1] = r
    BY DEF Set, Value, Kinds
  <2>3. \A i \in 1..Len(P) : P[i][2] \in Value /\ P[i][2][1] = P[i][1]
    BY <2>1, <2>2
  <2>4. P \in Seq(PairType) /\ \A i \in 1..Len(P), j \in 1..Len(P) : P[i][1] = P[j][1] => i = j
    BY <1>8 DEF Sets
  <2> QED BY <1>8, <2>3, <2>4, Zenon DEF Proper
<1>11. \A i \in 1..Len(P) : P[i] = Set(P[i][1])
  BY <1>8 DEF Sets
<1> QED BY <1>7, <1>8, <1>9, <1>10, <1>11

\* The registers put back are different ones, all written.
LEMMA SavedProper ==
  ASSUME NEW n \in {0, 1}, SavedInv(n)
  PROVE  /\ Proper(saved) /\ Len(saved) = Len(SaveRegs(n)) /\ Len(saved) \in {5, 6}
         /\ saved[1][1] = "dpc" /\ saved[2][1] = "dcsr" /\ saved[3][1] = "mstatus"
         /\ \A i \in 1..Len(saved) : saved[i][2] \in Value /\ saved[i][2][1] = saved[i][1]
<1>1. /\ Len(SaveRegs(n)) \in {5, 6} /\ SaveRegs(n)[1] = "dpc" /\ SaveRegs(n)[2] = "dcsr"
      /\ SaveRegs(n)[3] = "mstatus"
  BY SavedRegs
<1>2. \A i \in 1..Len(SaveRegs(n)), j \in 1..Len(SaveRegs(n)) :
        SaveRegs(n)[i] = SaveRegs(n)[j] => i = j
  BY SavedRegs, SMT
<1>3. /\ saved \in Seq(PairType) /\ Len(saved) = Len(SaveRegs(n))
      /\ \A i \in 1..Len(saved) : /\ saved[i][1] = SaveRegs(n)[i]
                                  /\ saved[i][2] \in Value /\ saved[i][2][1] = saved[i][1]
  BY DEF SavedInv
<1>4. saved # <<>>
  BY <1>1, <1>3, EmptySeq
<1>5. \A i \in 1..Len(saved), j \in 1..Len(saved) : saved[i][1] = saved[j][1] => i = j
  <2> SUFFICES ASSUME NEW i \in 1..Len(saved), NEW j \in 1..Len(saved), saved[i][1] = saved[j][1]
               PROVE  i = j
    OBVIOUS
  <2>1. /\ saved[i][1] = SaveRegs(n)[i] /\ saved[j][1] = SaveRegs(n)[j]
        /\ i \in 1..Len(SaveRegs(n)) /\ j \in 1..Len(SaveRegs(n))
    BY <1>3
  <2> QED BY <1>2, <2>1, Zenon
<1>6. Proper(saved)
  BY <1>3, <1>4, <1>5, Zenon DEF Proper
<1> QED BY <1>1, <1>3, <1>6

-----------------------------------------------------------------------------
(***************************************************************************)
(* Register accesses                                                       *)
(***************************************************************************)
\* The registers after the first d writes of P.
LEMMA WrittenIs ==
  ASSUME TypeInv, NEW P, Proper(P), NEW d \in 0..Len(P)
  PROVE  LET W == Written(SubSeq(P, 1, d))
         IN  /\ W \in [Regs -> Value] /\ \A r \in Regs : W[r][1] = r
             /\ \A i \in 1..d : P[i][2] # None => W[P[i][1]] = P[i][2]
             /\ \A r \in Regs : (\A i \in 1..d : P[i][1] # r \/ P[i][2] = None) => W[r] = regs[r]
<1> DEFINE p == SubSeq(P, 1, d)  W == Written(p)
           at(r) == {i \in DOMAIN p : p[i][1] = r /\ p[i][2] # None}
<1>1. P \in Seq(PairType) /\ Len(P) \in Nat /\ d \in Nat /\ d <= Len(P)
  BY LenProperties DEF Proper
<1>2. /\ \A i \in 1..Len(P) : P[i][1] \in Regs /\ (P[i][2] # None => P[i][2] \in Value /\ P[i][2][1] = P[i][1])
      /\ \A i \in 1..Len(P), j \in 1..Len(P) : P[i][1] = P[j][1] => i = j
  <2>1. \A i \in 1..Len(P) : P[i] \in PairType
    BY <1>1, ElementOfSeq
  <2>2. \A i \in 1..Len(P) : P[i][1] \in Regs
    BY <2>1 DEF PairType
  <2> QED BY <2>2 DEF Proper
<1>3. DOMAIN p = 1..d /\ \A i \in 1..d : p[i] = P[i] /\ i \in 1..Len(P)
  BY <1>1, SubSeqProperties
<1>4. W = [r \in Regs |-> IF at(r) = {} THEN regs[r]
                          ELSE p[CHOOSE i \in at(r) : \A j \in at(r) : j <= i][2]]
  BY Zenon DEF Written
<1> HIDE DEF p, W
<1>5. \A r \in Regs : \A i \in at(r) : at(r) = {i} /\ i \in 1..d /\ P[i][1] = r /\ P[i][2] # None
  BY <1>2, <1>3
<1>6. \A r \in Regs : \A i \in at(r) : W[r] = P[i][2]
  <2> SUFFICES ASSUME NEW r \in Regs, NEW i \in at(r) PROVE W[r] = P[i][2]
    OBVIOUS
  <2>1. at(r) = {i} /\ i \in 1..d
    BY <1>5
  <2> HIDE DEF at
  <2>2. (CHOOSE k \in at(r) : \A j \in at(r) : j <= k) = i
    BY <2>1
  <2> QED BY <1>3, <1>4, <2>1, <2>2
<1>7. \A r \in Regs : at(r) = {} => W[r] = regs[r]
  <2> HIDE DEF at
  <2> QED BY <1>4
<1>8. \A r \in Regs : W[r] \in Value /\ W[r][1] = r
  <2> SUFFICES ASSUME NEW r \in Regs PROVE W[r] \in Value /\ W[r][1] = r
    OBVIOUS
  <2>1. CASE at(r) = {}
    <3> HIDE DEF at
    <3> QED BY <1>7, <2>1 DEF TypeInv
  <2>2. ASSUME NEW i \in at(r) PROVE W[r] \in Value /\ W[r][1] = r
    <3>1. W[r] = P[i][2] /\ i \in 1..Len(P) /\ P[i][1] = r /\ P[i][2] # None
      BY <1>3, <1>5, <1>6
    <3> QED BY <1>2, <3>1
  <2> HIDE DEF at
  <2> QED BY <2>1, <2>2
<1>9. DOMAIN W = Regs /\ W = [r \in Regs |-> W[r]]
  <2> HIDE DEF at
  <2> QED BY <1>4
<1>10. W \in [Regs -> Value]
  BY <1>8, <1>9
<1>11. \A i \in 1..d : P[i][2] # None => W[P[i][1]] = P[i][2]
  <2> SUFFICES ASSUME NEW i \in 1..d, P[i][2] # None PROVE W[P[i][1]] = P[i][2]
    OBVIOUS
  <2>1. i \in at(P[i][1]) /\ P[i][1] \in Regs
    BY <1>2, <1>3
  <2> HIDE DEF at
  <2> QED BY <1>6, <2>1
<1>12. \A r \in Regs : (\A i \in 1..d : P[i][1] # r \/ P[i][2] = None) => W[r] = regs[r]
  <2> SUFFICES ASSUME NEW r \in Regs, \A i \in 1..d : P[i][1] # r \/ P[i][2] = None
               PROVE  at(r) = {}
    BY <1>7
  <2> QED BY <1>3
<1> QED BY <1>8, <1>10, <1>11, <1>12 DEF W, p

\* Reads leave the registers alone.
LEMMA ReadsWrite ==
  ASSUME TypeInv, NEW P, Proper(P), \A i \in 1..Len(P) : P[i][2] = None, NEW d \in 0..Len(P)
  PROVE  Written(SubSeq(P, 1, d)) = regs
<1>1. P \in Seq(PairType) /\ Len(P) \in Nat
  BY LenProperties DEF Proper
<1> DEFINE W == Written(SubSeq(P, 1, d))
<1>2. \A i \in 1..d : P[i][2] = None
  BY <1>1
<1>3. W \in [Regs -> Value] /\ \A r \in Regs : W[r] = regs[r]
  BY <1>2, WrittenIs
<1>4. regs \in [Regs -> Value]
  BY DEF TypeInv
<1> HIDE DEF W
<1>5. W = regs
  BY <1>3, <1>4
<1> QED BY <1>5 DEF W

\* The accesses of a batch.
LEMMA OneBatch ==
  ASSUME TypeInv, NEW P, Proper(P), WorkingOn(P), BatchRun
  PROVE  Next1 = Batch(P)
BY Zenon DEF WorkingOn, BatchRun, Doing, Batch

\* What a batch does: d commands complete, of a hart that takes them; late is whether the
\* next one is in progress.
BatchDone(P, d, late, dirty) ==
  /\ d \in 0..Len(P) /\ late \in BOOLEAN /\ dirty \in BOOLEAN
  /\ regs' = Written(SubSeq(P, 1, d))
  /\ \E got \in [1..Len(P) -> Value] :
       /\ code' = <<Check(P, got, dirty)>> \o Tail(code)
       /\ \A i \in 1..d : got[i] = regs[P[i][1]]
  /\ abs' \in [busy : BOOLEAN, cmderr : {0, 1, 4}, pair : PairType \cup {<<>>}, data0 : Value]
  /\ \/ /\ abs.cmderr # 0 \/ abs.busy \/ hart # "halted"
        /\ d = 0 /\ ~late /\ abs'.cmderr # 0 /\ abs'.busy = abs.busy /\ abs'.pair = abs.pair
     \/ /\ abs.cmderr = 0 /\ ~abs.busy /\ hart = "halted" /\ abs'.busy = late
        /\ late => /\ d < Len(P) /\ abs'.pair = P[d + 1]
                   /\ abs'.cmderr = 0 => d + 1 = Len(P) /\ P[1][2] # None
        /\ ~late /\ ~dirty => d = Len(P)
        /\ ~late => abs'.cmderr = 0

\* A batch, in one step.
LEMMA BatchDoes ==
  ASSUME TypeInv, NEW P, Proper(P), WorkingOn(P), BatchRun
  PROVE  \E d \in 0..Len(P), late \in BOOLEAN, dirty \in BOOLEAN : BatchDone(P, d, late, dirty)
<1>1. Next1 = Batch(P) /\ Next1.pairs = P
  BY OneBatch DEF Batch
<1>2. /\ P \in Seq(PairType) /\ Len(P) \in Nat /\ DOMAIN P = 1..Len(P)
      /\ \A i \in 1..Len(P) : P[i] \in PairType /\ P[i][1] \in Regs
  <2>1. P \in Seq(PairType) /\ Len(P) \in Nat /\ DOMAIN P = 1..Len(P)
    BY LenProperties DEF Proper
  <2>2. \A i \in 1..Len(P) : P[i] \in PairType
    BY <2>1, ElementOfSeq
  <2> QED BY <2>1, <2>2 DEF PairType
<1> DEFINE Q == Next1.pairs
           accepts  == abs.cmderr = 0 /\ ~abs.busy /\ hart = "halted"
           touched(d)  == d + 1 < Len(Q) \/ Q[1][2] = None
           after(d)    == Written(SubSeq(Q, 1, d))
           data(d)     == IF d = 0 THEN abs.data0 ELSE after(d)[Q[d][1]]
           got(d)      == [i \in DOMAIN Q |-> IF i <= d THEN regs[Q[i][1]] ELSE data(d)]
           next(d, late) ==
             IF ~accepts
             THEN [abs EXCEPT !.cmderr = IF @ # 0 THEN @ ELSE IF abs.busy THEN 1 ELSE 4]
             ELSE IF late
             THEN [abs EXCEPT !.busy = TRUE, !.pair = Q[d + 1], !.data0 = data(d),
                              !.cmderr = IF touched(d) THEN 1 ELSE 0]
             ELSE [abs EXCEPT !.data0 = data(d)]
<1>3. PICK d \in 0..Len(Q), late \in BOOLEAN, dirty \in BOOLEAN :
        /\ ~accepts => d = 0 /\ ~late
        /\ accepts /\ ~(late \/ dirty) => d = Len(Q)
        /\ late => d < Len(Q)
        /\ regs' = after(d)
        /\ abs' = next(d, late)
        /\ code' = <<Check(Q, got(d), dirty)>> \o Tail(code)
  BY ZenonT(60) DEF BatchRun
<1>13. Q = P
  BY <1>1
<1> HIDE DEF Q
<1>4. after(d) \in [Regs -> Value]
  BY <1>13, WrittenIs, Zenon
<1>14. regs' = Written(SubSeq(P, 1, d))
  BY <1>3, <1>13
<1>15. d \in 0..Len(P) /\ d \in Nat
  BY <1>2, <1>3, <1>13
<1> HIDE DEF after
<1>5. data(d) \in Value
  <2>1. CASE d = 0
    BY <2>1 DEF TypeInv
  <2>2. CASE d # 0
    <3>1. P[d][1] \in Regs
      BY <1>13, <1>2, <2>2
    <3> QED BY <1>13, <1>4, <2>2, <3>1
  <2> QED BY <2>1, <2>2
<1> HIDE DEF data
<1>6. /\ got(d) \in [1..Len(P) -> Value]
      /\ \A i \in 1..d : got(d)[i] = regs[P[i][1]]
  <2>1. \A i \in 1..Len(P) : got(d)[i] \in Value
    BY <1>13, <1>2, <1>5 DEF TypeInv
  <2> QED BY <1>13, <1>2, <2>1
<1> HIDE DEF got
<1>7. abs \in [busy : BOOLEAN, cmderr : {0, 1, 4}, pair : PairType \cup {<<>>}, data0 : Value]
  BY DEF TypeInv
<1>8. CASE ~accepts
  <2>1. abs' = [abs EXCEPT !.cmderr = IF abs.cmderr # 0 THEN abs.cmderr ELSE IF abs.busy THEN 1 ELSE 4]
    BY <1>3, <1>8, <1>7
  <2>2. abs' \in [busy : BOOLEAN, cmderr : {0, 1, 4}, pair : PairType \cup {<<>>}, data0 : Value]
    BY <1>7, <2>1
  <2>3. abs'.cmderr # 0 /\ abs'.busy = abs.busy /\ abs'.pair = abs.pair
    BY <1>7, <2>1
  <2>4. d = 0 /\ ~late
    BY <1>3, <1>8
  <2> QED BY <1>3, <1>14, <1>13, <1>6, <1>8, <2>2, <2>3, <2>4, Zenon DEF BatchDone
<1>9. CASE accepts /\ late
  <2> DEFINE c == IF touched(d) THEN 1 ELSE 0
  <2>1. abs' = [abs EXCEPT !.busy = TRUE, !.pair = Q[d + 1], !.data0 = data(d), !.cmderr = c]
    BY <1>3, <1>9, Zenon
  <2>2. d < Len(P) /\ P[d + 1] \in PairType
    BY <1>13, <1>2, <1>3, <1>9
  <2>3. c \in {0, 1, 4} /\ (c = 0 => d + 1 = Len(P) /\ P[1][2] # None)
    <3>1. CASE touched(d)
      BY <3>1
    <3>2. CASE ~touched(d)
      <4>1. ~(d + 1 < Len(P)) /\ P[1][2] # None
        BY <1>13, <3>2
      <4>2. d + 1 = Len(P)
        <5>1. d \in Nat /\ Len(P) \in Nat
          BY <1>2, <1>15
        <5>2. d < Len(P)
          BY <2>2
        <5> QED BY <4>1, <5>1, <5>2
      <4> QED BY <3>2, <4>1, <4>2
    <3> QED BY <3>1, <3>2
  <2> HIDE DEF c
  <2>4. abs' = [busy |-> TRUE, cmderr |-> c, pair |-> P[d + 1], data0 |-> data(d)]
    BY <1>7, <1>13, <2>1
  <2>5. abs' \in [busy : BOOLEAN, cmderr : {0, 1, 4}, pair : PairType \cup {<<>>}, data0 : Value]
    BY <1>5, <2>2, <2>3, <2>4
  <2>6. abs'.busy = late /\ abs'.cmderr = c /\ abs'.pair = P[d + 1]
    BY <1>9, <2>4
  <2> QED BY <1>3, <1>14, <1>13, <1>6, <1>9, <2>2, <2>3, <2>5, <2>6, ZenonT(60) DEF BatchDone
<1>10. CASE accepts /\ ~late
  <2>1. abs' = [abs EXCEPT !.data0 = data(d)]
    BY <1>3, <1>10, Zenon
  <2>2. abs' \in [busy : BOOLEAN, cmderr : {0, 1, 4}, pair : PairType \cup {<<>>}, data0 : Value]
    BY <1>5, <1>7, <2>1
  <2>3. abs'.busy = late /\ abs'.cmderr = 0
    BY <1>7, <1>10, <2>1
  <2>4. ~dirty => d = Len(P)
    BY <1>13, <1>3, <1>10
  <2> QED BY <1>3, <1>14, <1>13, <1>6, <1>10, <2>2, <2>3, <2>4, ZenonT(60) DEF BatchDone
<1> QED BY <1>8, <1>9, <1>10

\* A proper list is of reads, or of writes.
LEMMA ProperKinds ==
  ASSUME NEW P, Proper(P)
  PROVE  /\ P \in Seq(PairType) /\ Len(P) \in Nat /\ Len(P) > 0
         /\ \A i \in 1..Len(P) : P[i] \in PairType /\ P[i][1] \in Regs
         /\ \A i \in 1..Len(P), j \in 1..Len(P) : P[i][1] = P[j][1] => i = j
         /\ \A i \in 1..Len(P) : P[i][2] # None => P[i][2] \in Value /\ P[i][2][1] = P[i][1]
         /\ \A i \in 1..Len(P), j \in 1..Len(P) : P[i][2] = None => P[j][2] = None
<1>1. P \in Seq(PairType) /\ Len(P) \in Nat /\ P # <<>>
  BY LenProperties DEF Proper
<1>2. Len(P) > 0
  BY <1>1, EmptySeq
<1>3. \A i \in 1..Len(P) : P[i] \in PairType
  BY <1>1, ElementOfSeq
<1>4. \A i \in 1..Len(P) : P[i][1] \in Regs
  BY <1>3 DEF PairType
<1>5. \A i \in 1..Len(P), j \in 1..Len(P) : P[i][1] = P[j][1] => i = j
  BY Zenon DEF Proper
<1>6. CASE \A i \in 1..Len(P) : P[i][2] = None
  BY <1>1, <1>2, <1>3, <1>4, <1>5, <1>6
<1>7. CASE \A i \in 1..Len(P) : P[i][2] \in Value /\ P[i][2][1] = P[i][1]
  BY <1>1, <1>2, <1>3, <1>4, <1>5, <1>7, NoneAssumption
<1> QED BY <1>6, <1>7, Zenon DEF Proper

\* All of the pairs are read or written.
AllDone(P) == \A i \in 1..Len(P) : Done(P[i])
\* They are still at work afterwards.
StillWorking(P) == Working(P)'
\* A step of the accesses: they go on, or the code behind them, t, does.
GoesOn(P, t) ==
  \/ StillWorking(P) /\ Tail(code') = t
  \/ code' = t /\ AllDone(P)' /\ Quiet'

\* After a batch comes its check, which knows what has been done.
LEMMA BatchWorks ==
  ASSUME TypeInv, NEW P, Proper(P), Working(P), BatchRun, NEW S, NEW t \in Seq(S), Tail(code) = t
  PROVE  GoesOn(P, t)
<1>1. PICK d \in 0..Len(P), late \in BOOLEAN, dirty \in BOOLEAN : BatchDone(P, d, late, dirty)
  BY BatchDoes, Zenon DEF Working
<1>2. PICK got \in [1..Len(P) -> Value] :
        /\ code' = <<Check(P, got, dirty)>> \o t
        /\ \A i \in 1..d : got[i] = regs[P[i][1]]
  BY <1>1, Zenon DEF BatchDone
<1>3. Head(code') = Check(P, got, dirty) /\ Tail(code') = t /\ code' # <<>>
  BY <1>2, Front, Zenon
<1> DEFINE x == Head(code')
<1>4. x.op = "check" /\ x.pairs = P /\ x.got = got /\ x.dirty = dirty
  BY <1>3 DEF Check
<1>5. WorkingOn(P)'
  BY <1>2, <1>3, <1>4 DEF WorkingOn, Next1
<1>6. AccessInv' /\ Progress(P)'
  BY <1>4 DEF AccessInv, Progress, Next1
<1> USE ProperKinds
<1>7. Pending(P)'
  <2>1. CASE abs'.busy = abs.busy /\ abs'.pair = abs.pair
    BY <2>1 DEF Working, Pending
  <2>2. CASE late /\ abs'.pair = P[d + 1] /\ d < Len(P)
    BY <2>2 DEF Pending
  <2>3. CASE ~late /\ abs'.busy = late
    BY <2>3 DEF Pending
  <2> QED BY <1>1, <2>1, <2>2, <2>3, Zenon DEF BatchDone
<1>8. CheckInv'
  <2> SUFFICES ASSUME ~dirty, abs'.cmderr = 0
               PROVE  /\ hart' = "halted"
                      /\ abs'.busy => abs'.pair = P[Len(P)] /\ abs'.pair[2] # None
                      /\ \A i \in 1..Len(P) : ~abs'.busy \/ i < Len(P) =>
                           IF P[i][2] = None THEN got[i] = regs'[P[i][1]]
                           ELSE regs'[P[i][1]] = P[i][2]
    BY <1>4, Zenon DEF CheckInv, Next1
  <2>1. /\ hart = "halted" /\ abs'.busy = late
        /\ late => abs'.pair = P[d + 1] /\ d + 1 = Len(P) /\ P[1][2] # None
        /\ ~late => d = Len(P)
    BY <1>1, Zenon DEF BatchDone
  <2>2. hart' = "halted"
    BY <2>1 DEF BatchRun
  <2>3. regs' = Written(SubSeq(P, 1, d))
    BY <1>1, Zenon DEF BatchDone
  <2>4. late => abs'.pair = P[Len(P)] /\ abs'.pair[2] # None
    BY <2>1
  <2>5. ASSUME NEW i \in 1..Len(P), ~late \/ i < Len(P)
        PROVE  IF P[i][2] = None THEN got[i] = regs'[P[i][1]] ELSE regs'[P[i][1]] = P[i][2]
    <3>1. i \in 1..d
      BY <2>1, <2>5
    <3>2. CASE P[i][2] = None
      <4>1. \A j \in 1..Len(P) : P[j][2] = None
        BY <3>2
      <4>2. regs' = regs
        BY <2>3, <4>1, ReadsWrite, Zenon
      <4> QED BY <1>2, <3>1, <3>2, <4>2
    <3>3. CASE P[i][2] # None
      BY <2>3, <3>1, <3>3, WrittenIs
    <3> QED BY <3>2, <3>3
  <2> QED BY <2>1, <2>2, <2>4, <2>5
<1> QED BY <1>3, <1>5, <1>6, <1>7, <1>8, Zenon DEF Working, StillWorking, GoesOn

\* A check without an error takes all of it as done; otherwise all is done again.
LEMMA CheckWorks ==
  ASSUME TypeInv, NEW P, Proper(P), Working(P), BatchCheck, NEW S, NEW t \in Seq(S), Tail(code) = t
  PROVE  GoesOn(P, t)
<1> USE ProperKinds
<1>1. code # <<>> /\ Next1.op = "check"
  BY DEF BatchCheck, Doing
<1>2. /\ Next1.pairs = P /\ Next1.dirty \in BOOLEAN /\ Next1.got \in [1..Len(P) -> Value]
      /\ AccessInv /\ CheckInv /\ Pending(P)
  <2>1. WorkingOn(P) /\ AccessInv /\ CheckInv /\ Pending(P)
    BY Zenon DEF Working
  <2>2. Next1 # Batch(P)
    BY <1>1 DEF Batch
  <2>3. /\ Next1 = Check(P, Next1.got, Next1.dirty)
        /\ Next1.dirty \in BOOLEAN /\ Next1.got \in [1..Len(P) -> Value]
    BY <1>1, <2>1, <2>2 DEF WorkingOn
  <2>4. Next1.pairs = P
    BY <2>3 DEF Check
  <2> QED BY <2>1, <2>3, <2>4
<1> DEFINE pairs == Next1.pairs  got == Next1.got  dirty == Next1.dirty
<1>3. UNCHANGED <<hart, regs>>
  BY DEF BatchCheck
<1>4. CASE Again /\ abs'.busy = abs.busy /\ abs'.pair = abs.pair
  <2>1. Head(code') = Slowly(P) /\ Tail(code') = t /\ code' # <<>>
    BY <1>2, <1>4, Front, Zenon DEF Again
  <2> DEFINE x == Head(code')
  <2>2. x.op = "access" /\ x.pairs = P /\ x.at = "command" /\ x = Access(P, "command")
    BY <2>1 DEF Slowly, Access
  <2>3. Suffix(P, P)
    BY DEF Suffix
  <2>4. WorkingOn(P)'
    BY <2>1, <2>2, <2>3 DEF WorkingOn, Next1
  <2>5. AccessInv' /\ CheckInv' /\ Progress(P)'
    BY <2>2 DEF AccessInv, CheckInv, Progress, Next1
  <2>6. Pending(P)'
    BY <1>2, <1>4 DEF Pending
  <2> QED BY <2>1, <2>4, <2>5, <2>6, Zenon DEF Working, StillWorking, GoesOn
<1>5. CASE ~dirty /\ ~abs.busy /\ abs.cmderr = 0 /\ Accept /\ UNCHANGED abs
  <2>1. /\ hart = "halted"
        /\ \A i \in 1..Len(P) : IF P[i][2] = None THEN got[i] = regs[P[i][1]]
                                ELSE regs[P[i][1]] = P[i][2]
    BY <1>1, <1>2, <1>5 DEF CheckInv
  <2>2. code' = t /\ vals' = Captured(Next1)
    BY <1>5 DEF Accept, Proceed
  <2>3. ASSUME NEW i \in 1..Len(P) PROVE Done(P[i])'
    <3>1. CASE P[i][2] = None
      <4> DEFINE r == P[i][1]
      <4>1. P[i] = <<r, None>> /\ r \in Regs
        BY <3>1 DEF PairType
      <4>2. \A j \in DOMAIN P : P[j] = <<r, None>> => j = i
        BY <4>1
      <4>3. DOMAIN P = 1..Len(P)
        OBVIOUS
      <4>4. vals'[r] = got[CHOOSE j \in DOMAIN P : P[j] = <<r, None>>]
        BY <1>2, <2>2, <4>1, <4>3 DEF Captured
      <4>5. vals'[r] = got[i]
        BY <4>1, <4>2, <4>3, <4>4
      <4> QED BY <1>3, <2>1, <3>1, <4>5 DEF Done
    <3>2. CASE P[i][2] # None
      BY <1>3, <2>1, <3>2 DEF Done
    <3> QED BY <3>1, <3>2
  <2>4. Quiet'
    BY <1>3, <1>5, <2>1 DEF Quiet
  <2> QED BY <2>2, <2>3, <2>4 DEF GoesOn, AllDone
<1>6. CASE UNCHANGED <<code, vals, abs>>
  BY <1>3, <1>6 DEF GoesOn, StillWorking, Working, WorkingOn, AccessInv, CheckInv, Progress, Pending, Done, Next1, Pair
<1>7. \/ Again /\ abs' = abs
      \/ Again /\ abs' = [abs EXCEPT !.cmderr = 0]
      \/ UNCHANGED <<code, vals, abs>>
      \/ ~dirty /\ ~abs.busy /\ abs.cmderr = 0 /\ Accept /\ UNCHANGED abs
  BY Zenon DEF BatchCheck
<1>8. abs' = [abs EXCEPT !.cmderr = 0] => abs'.busy = abs.busy /\ abs'.pair = abs.pair
  BY DEF TypeInv
<1> QED BY <1>4, <1>5, <1>6, <1>7, <1>8, Zenon

\* The access that runs is of the k-th pair.
LEMMA OneAccess ==
  ASSUME NEW P, Proper(P), WorkingOn(P), Next1.op = "access"
  PROVE  \E k \in 1..Len(P) :
           /\ Suffix(Next1.pairs, P) /\ Len(Next1.pairs) = Len(P) - k + 1
           /\ Pair = P[k] /\ (Next1.at = "data0" => P[k][2] = None)
           /\ Next1 = Access(Next1.pairs, Next1.at)
<1> USE ProperKinds
<1>1. Next1 # Batch(P) /\ Next1.op # "check"
  BY DEF Batch
<1>2. /\ Next1 = Access(Next1.pairs, Next1.at) /\ Suffix(Next1.pairs, P)
      /\ Next1.at = "data0" => Pair[2] = None
  BY <1>1 DEF WorkingOn
<1> DEFINE rest == Next1.pairs  k == Len(P) - Len(rest) + 1
<1>3. Len(rest) \in 1..Len(P) /\ rest[1] = P[k]
  <2>1. Len(rest) \in 1..Len(P) /\ \A i \in 1..Len(rest) : rest[i] = P[Len(P) - Len(rest) + i]
    BY <1>2, Zenon DEF Suffix
  <2>2. 1 \in 1..Len(rest)
    BY <2>1
  <2> QED BY <2>1, <2>2
<1>4. k \in 1..Len(P) /\ Len(rest) = Len(P) - k + 1
  BY <1>3
<1> QED BY <1>2, <1>3, <1>4 DEF Pair

\* What is left after one more register is a suffix still.
LEMMA SuffixTail ==
  ASSUME NEW P, Proper(P), NEW rest, Suffix(rest, P), Len(rest) # 1
  PROVE  /\ Suffix(Tail(rest), P) /\ Len(Tail(rest)) = Len(rest) - 1
         /\ Tail(rest)[1] = P[Len(P) - Len(rest) + 2]
<1>1. rest \in Seq(PairType) /\ Len(rest) \in 2..Len(P) /\ Len(P) \in Nat
  <2>1. rest \in Seq(PairType) /\ Len(rest) \in 1..Len(P)
    BY Zenon DEF Suffix
  <2>2. Len(P) \in Nat
    BY ProperKinds
  <2>3. \A l \in Nat, m \in Nat : l \in 1..m /\ l # 1 => l \in 2..m
    OBVIOUS
  <2>4. Len(rest) \in Nat
    BY <2>1, LenProperties
  <2> QED BY <2>1, <2>2, <2>3, <2>4, Zenon
<1>2. rest # <<>>
  BY <1>1, EmptySeq
<1>3. /\ Tail(rest) \in Seq(PairType) /\ Len(Tail(rest)) = Len(rest) - 1
      /\ \A i \in 1..Len(Tail(rest)) : Tail(rest)[i] = rest[i + 1]
  BY <1>1, <1>2, HeadTailProperties
<1>4. \A i \in 1..Len(Tail(rest)) : i + 1 \in 1..Len(rest) /\ i \in Int
  BY <1>1, <1>3
<1>5. \A i \in 1..Len(Tail(rest)) : Tail(rest)[i] = P[Len(P) - Len(Tail(rest)) + i]
  <2> SUFFICES ASSUME NEW i \in 1..Len(Tail(rest))
               PROVE  Tail(rest)[i] = P[Len(P) - Len(Tail(rest)) + i]
    OBVIOUS
  <2>1. Tail(rest)[i] = P[Len(P) - Len(rest) + (i + 1)]
    BY <1>3, <1>4 DEF Suffix
  <2>2. Len(P) - Len(rest) + (i + 1) = Len(P) - Len(Tail(rest)) + i
    BY <1>1, <1>3, <1>4
  <2> QED BY <2>1, <2>2
<1>6. Suffix(Tail(rest), P)
  BY <1>1, <1>3, <1>5 DEF Suffix
<1>7. Tail(rest)[1] = P[Len(P) - Len(rest) + 2]
  <2>1. 1 \in 1..Len(Tail(rest)) /\ Len(P) - Len(Tail(rest)) + 1 = Len(P) - Len(rest) + 2
    BY <1>1, <1>3
  <2> QED BY <1>5, <2>1
<1> QED BY <1>3, <1>6, <1>7

\* A command is written: it runs, or leaves an error for the wait.
LEMMA CommandWorks ==
  ASSUME TypeInv, NEW P, Proper(P), Working(P), CommandWrite, NEW S, NEW t \in Seq(S), Tail(code) = t
  PROVE  /\ GoesOn(P, t)
         /\ \/ abs'.busy = abs.busy /\ abs'.pair = abs.pair
            \/ /\ hart = "halted" /\ ~abs.busy
               /\ \E k \in 1..Len(P) : abs'.pair = P[k] /\ \A i \in 1..k - 1 : Done(P[i])
<1> USE ProperKinds
<1>1. /\ code # <<>> /\ Next1.op = "access" /\ Next1.at = "command" /\ WorkingOn(P)
      /\ Progress(P) /\ Pending(P)
  BY Zenon DEF CommandWrite, At, Doing, Working
<1>2. PICK k \in 1..Len(P) :
        /\ Suffix(Next1.pairs, P) /\ Len(Next1.pairs) = Len(P) - k + 1
        /\ Pair = P[k] /\ Next1 = Access(Next1.pairs, Next1.at)
  BY <1>1, OneAccess, Zenon
<1> DEFINE rest == Next1.pairs
<1>3. /\ vals' = IF P[k][2] = None THEN [vals EXCEPT ![P[k][1]] = None] ELSE vals
      /\ UNCHANGED <<hart, regs>>
      /\ code' = <<Access(rest, "wait")>> \o t
  BY <1>2 DEF CommandWrite, GoOn
<1>4. Head(code') = Access(rest, "wait") /\ Tail(code') = t /\ code' # <<>>
  BY <1>3, Front, Zenon
<1> DEFINE x == Head(code')
<1>5. x.op = "access" /\ x.pairs = rest /\ x.at = "wait"
  BY <1>4 DEF Access
<1>6. Pair' = P[k]
  BY <1>2, <1>5 DEF Pair, Next1
<1>7. \/ abs.cmderr # 0 /\ abs' = abs
      \/ abs.cmderr = 0 /\ abs.busy /\ abs' = [abs EXCEPT !.cmderr = 1]
      \/ abs.cmderr = 0 /\ ~abs.busy /\ hart # "halted" /\ abs' = [abs EXCEPT !.cmderr = 4]
      \/ /\ abs.cmderr = 0 /\ ~abs.busy /\ hart = "halted"
         /\ abs' = [abs EXCEPT !.busy = TRUE, !.pair = P[k]]
  BY <1>2, Zenon DEF CommandWrite
<1>8. \/ /\ abs.cmderr # 0 \/ abs.busy \/ hart # "halted"
         /\ abs'.cmderr # 0 /\ abs'.busy = abs.busy /\ abs'.pair = abs.pair
      \/ /\ abs.cmderr = 0 /\ ~abs.busy /\ hart = "halted"
         /\ abs'.busy /\ abs'.pair = P[k] /\ abs'.cmderr = 0
  <2>1. abs \in [busy : BOOLEAN, cmderr : {0, 1, 4}, pair : PairType \cup {<<>>}, data0 : Value]
    BY DEF TypeInv
  <2>2. CASE abs.cmderr # 0 /\ abs' = abs
    BY <2>2
  <2>3. CASE abs.cmderr = 0 /\ abs.busy /\ abs' = [abs EXCEPT !.cmderr = 1]
    <3>1. abs' = [busy |-> abs.busy, cmderr |-> 1, pair |-> abs.pair, data0 |-> abs.data0]
      BY <2>1, <2>3
    <3>2. abs'.cmderr # 0 /\ abs'.busy = abs.busy /\ abs'.pair = abs.pair
      BY <3>1
    <3> QED BY <2>3, <3>2, Zenon
  <2>4. CASE abs.cmderr = 0 /\ ~abs.busy /\ hart # "halted" /\ abs' = [abs EXCEPT !.cmderr = 4]
    <3>1. abs' = [busy |-> abs.busy, cmderr |-> 4, pair |-> abs.pair, data0 |-> abs.data0]
      BY <2>1, <2>4
    <3> QED BY <2>4, <3>1
  <2>5. CASE /\ abs.cmderr = 0 /\ ~abs.busy /\ hart = "halted"
             /\ abs' = [abs EXCEPT !.busy = TRUE, !.pair = P[k]]
    <3>1. abs' = [busy |-> TRUE, cmderr |-> 0, pair |-> P[k], data0 |-> abs.data0]
      BY <2>1, <2>5
    <3> QED BY <2>5, <3>1
  <2> QED BY <1>7, <2>2, <2>3, <2>4, <2>5, Zenon
<1>9. WorkingOn(P)'
  BY <1>2, <1>4, <1>5 DEF WorkingOn, Next1, Access
<1>10. AccessInv' /\ CheckInv'
  BY <1>3, <1>5, <1>6, <1>8 DEF AccessInv, CheckInv, Next1
<1>11. Pending(P)'
  BY <1>1, <1>8 DEF Pending
<1>12. Len(rest) < Len(P) => /\ \A i \in 1..k - 1 : Done(P[i])
                             /\ hart = "halted" /\ ~abs.busy /\ abs.cmderr = 0
  <2>1. Len(P) - Len(rest) = k - 1
    BY <1>2
  <2> QED BY <1>1, <2>1 DEF Progress
<1>13. \A i \in 1..k - 1 : Done(P[i]) => Done(P[i])'
  <2> SUFFICES ASSUME NEW i \in 1..k - 1 PROVE Done(P[i]) => Done(P[i])'
    OBVIOUS
  <2>1. P[i][1] # P[k][1] /\ i \in 1..Len(P)
    BY <1>2
  <2>2. P[i][1] \in Regs /\ P[k][1] \in Regs
    BY <2>1
  <2>3. vals'[P[i][1]] = vals[P[i][1]]
    BY <1>3, <2>1, <2>2 DEF TypeInv
  <2> QED BY <1>3, <2>3 DEF Done
<1>14. Progress(P)'
  <2> SUFFICES ASSUME Len(rest) < Len(P)
               PROVE  /\ \A i \in 1..Len(P) - Len(rest) : Done(P[i])'
                      /\ hart' = "halted" /\ abs'.pair = P[k]
    BY <1>5, <1>6 DEF Progress, Next1
  <2>1. Len(P) - Len(rest) = k - 1
    BY <1>2
  <2>2. hart' = "halted" /\ abs'.pair = P[k]
    BY <1>3, <1>8, <1>12
  <2>3. \A i \in 1..k - 1 : Done(P[i])'
    BY <1>12, <1>13, Zenon
  <2> QED BY <2>1, <2>2, <2>3
<1>15. \/ abs'.busy = abs.busy /\ abs'.pair = abs.pair
       \/ /\ hart = "halted" /\ ~abs.busy
          /\ abs'.pair = P[k] /\ \A i \in 1..k - 1 : Done(P[i])
  <2>1. CASE Len(rest) < Len(P)
    BY <1>8, <1>12, <2>1
  <2>2. CASE ~(Len(rest) < Len(P))
    <3>1. k = 1
      BY <1>2, <2>2
    <3> QED BY <1>8, <3>1
  <2> QED BY <2>1, <2>2
<1> QED BY <1>4, <1>9, <1>10, <1>11, <1>14, <1>15, Zenon DEF Working, StillWorking, GoesOn

\* The pair that ran is done: the next one, or what follows the accesses.
LEMMA NextWorks ==
  ASSUME NEW P, Proper(P), NEW k \in 1..Len(P), NextPair,
         Suffix(Next1.pairs, P), Len(Next1.pairs) = Len(P) - k + 1,
         \A i \in 1..k : Done(P[i])', Quiet', abs'.cmderr = 0,
         NEW S, NEW t \in Seq(S), Tail(code) = t
  PROVE  GoesOn(P, t)
<1> DEFINE rest == Next1.pairs
<1>0. Len(P) \in Nat
  BY ProperKinds
<1>1. CASE Len(rest) = 1
  <2>1. k = Len(P) /\ code' = t
    <3>1. k = Len(P)
      <4>1. Len(P) - k + 1 = 1
        BY <1>1, Zenon
      <4> QED BY <1>0, <4>1
    <3> QED BY <1>1, <3>1, Zenon DEF NextPair
  <2>2. AllDone(P)'
    BY <2>1 DEF AllDone
  <2> QED BY <2>1, <2>2 DEF GoesOn
<1>2. CASE Len(rest) # 1
  <2>1. code' = <<Access(Tail(rest), "command")>> \o t
    BY <1>2, Zenon DEF NextPair, Slowly
  <2>2. Head(code') = Access(Tail(rest), "command") /\ Tail(code') = t /\ code' # <<>>
    BY <2>1, Front, Zenon
  <2> DEFINE x == Head(code')
  <2>3. x.op = "access" /\ x.pairs = Tail(rest) /\ x.at = "command"
    BY <2>2 DEF Access
  <2>4. Suffix(Tail(rest), P) /\ Len(Tail(rest)) = Len(rest) - 1
    BY <1>2, SuffixTail, Zenon
  <2>5. WorkingOn(P)'
    BY <2>2, <2>3, <2>4 DEF WorkingOn, Next1, Access
  <2>6. AccessInv' /\ CheckInv'
    BY <2>3 DEF AccessInv, CheckInv, Next1
  <2>7. Pending(P)'
    BY DEF Quiet, Pending
  <2>8. Len(P) - Len(Tail(rest)) = k
    BY <1>0, <2>4
  <2>9. Progress(P)'
    BY <2>3, <2>8, Zenon DEF Progress, Next1, Quiet
  <2> QED BY <2>2, <2>5, <2>6, <2>7, <2>9, Zenon DEF Working, StillWorking, GoesOn
<1> QED BY <1>1, <1>2

\* A wait without an error: the register is written, or DATA0 holds it.
LEMMA WaitWorks ==
  ASSUME TypeInv, NEW P, Proper(P), Working(P), AbstractWait, NEW S, NEW t \in Seq(S), Tail(code) = t
  PROVE  \/ GoesOn(P, t) /\ UNCHANGED <<abs, vals, step, report>>
         \/ Raised /\ abs'.busy = abs.busy /\ abs'.pair = abs.pair
<1> USE ProperKinds
<1>1. /\ code # <<>> /\ Next1.op = "access" /\ Next1.at = "wait" /\ WorkingOn(P)
      /\ AccessInv /\ Progress(P)
  BY Zenon DEF AbstractWait, At, Doing, Working
<1>2. PICK k \in 1..Len(P) :
        /\ Suffix(Next1.pairs, P) /\ Len(Next1.pairs) = Len(P) - k + 1
        /\ Pair = P[k] /\ Next1 = Access(Next1.pairs, Next1.at)
  BY <1>1, OneAccess, Zenon
<1> DEFINE rest == Next1.pairs
<1>3. UNCHANGED <<hart, regs>>
  BY DEF AbstractWait
<1>4. CASE UNCHANGED <<Beside, code, ok, wasRunning, vals, saved, abs>>
  <2>1. UNCHANGED <<step, report, code, vals, abs>>
    BY <1>4 DEF Beside
  <2>2. Working(P)' /\ Tail(code') = t
    BY <1>3, <2>1 DEF Working, WorkingOn, AccessInv, CheckInv, Progress, Pending, Done, Next1, Pair
  <2> QED BY <2>1, <2>2 DEF GoesOn, StillWorking
<1>5. CASE Raised /\ abs' = IF abs.busy THEN abs ELSE [abs EXCEPT !.cmderr = 0]
  <2>1. abs'.busy = abs.busy /\ abs'.pair = abs.pair
    BY <1>5 DEF TypeInv
  <2> QED BY <1>5, <2>1
<1>6. CASE /\ ~abs.busy /\ abs.cmderr = 0
           /\ IF Pair[2] = None THEN GoOn("data0") ELSE NextPair
           /\ UNCHANGED <<Beside, ok, wasRunning, vals, saved, abs>>
  <2>1. UNCHANGED <<step, report, vals, abs>>
    BY <1>6 DEF Beside
  <2>2. /\ hart = "halted"
        /\ P[k][2] = None => abs.data0 = regs[P[k][1]]
        /\ P[k][2] # None => regs[P[k][1]] = P[k][2]
    BY <1>1, <1>2, <1>6 DEF AccessInv
  <2>3. \A i \in 1..k - 1 : Done(P[i])
    <3>1. CASE Len(rest) < Len(P)
      <4>1. Len(P) - Len(rest) = k - 1
        BY <1>2
      <4> QED BY <1>1, <3>1, <4>1 DEF Progress
    <3>2. CASE ~(Len(rest) < Len(P))
      <4>1. k = 1
        BY <1>2, <3>2
      <4> QED BY <4>1
    <3> QED BY <3>1, <3>2
  <2>4. CASE P[k][2] = None
    <3>1. code' = <<Access(rest, "data0")>> \o t
      BY <1>2, <1>6, <2>4, Zenon DEF GoOn
    <3>2. Head(code') = Access(rest, "data0") /\ Tail(code') = t /\ code' # <<>>
      BY <3>1, Front, Zenon
    <3> DEFINE x == Head(code')
    <3>3. x.op = "access" /\ x.pairs = rest /\ x.at = "data0"
      BY <3>2 DEF Access
    <3>4. Pair' = P[k]
      BY <1>2, <3>3 DEF Pair, Next1
    <3>5. WorkingOn(P)'
      BY <1>2, <2>4, <3>2, <3>3, <3>4 DEF WorkingOn, Next1, Access
    <3>6. AccessInv' /\ CheckInv'
      BY <1>3, <1>6, <2>1, <2>2, <2>4, <3>3, <3>4 DEF AccessInv, CheckInv, Next1
    <3>7. Pending(P)'
      BY <1>6, <2>1 DEF Pending
    <3>8. Len(rest) < Len(P) => Len(P) - Len(rest) = k - 1
      BY <1>2
    <3>9. \A i \in 1..k - 1 : Done(P[i])'
      BY <1>3, <2>1, <2>3 DEF Done
    <3>10. Progress(P)'
      BY <1>3, <1>6, <2>1, <2>2, <3>3, <3>8, <3>9 DEF Progress, Next1
    <3> QED BY <2>1, <3>2, <3>5, <3>6, <3>7, <3>10, Zenon DEF Working, StillWorking, GoesOn
  <2>5. CASE P[k][2] # None
    <3>1. NextPair
      BY <1>2, <1>6, <2>5
    <3>2. Done(P[k])
      BY <2>2, <2>5 DEF Done
    <3>3. \A i \in 1..k : Done(P[i])'
      <4> SUFFICES ASSUME NEW i \in 1..k PROVE Done(P[i])'
        OBVIOUS
      <4>1. Done(P[i])
        BY <2>3, <3>2
      <4> QED BY <1>3, <2>1, <4>1 DEF Done
    <3>4. Quiet' /\ abs'.cmderr = 0
      BY <1>3, <1>6, <2>1, <2>2 DEF Quiet
    <3>5. GoesOn(P, t)
      BY <1>2, <3>1, <3>3, <3>4, NextWorks, Zenon
    <3> QED BY <2>1, <3>5
  <2> QED BY <2>4, <2>5
<1>7. \/ UNCHANGED <<Beside, code, ok, wasRunning, vals, saved, abs>>
      \/ Raised /\ abs' = IF abs.busy THEN abs ELSE [abs EXCEPT !.cmderr = 0]
      \/ /\ ~abs.busy /\ abs.cmderr = 0
         /\ IF Pair[2] = None THEN GoOn("data0") ELSE NextPair
         /\ UNCHANGED <<Beside, ok, wasRunning, vals, saved, abs>>
  BY Zenon DEF AbstractWait
<1> QED BY <1>4, <1>5, <1>6, <1>7

\* DATA0 is read: the register is read.
LEMMA DataWorks ==
  ASSUME TypeInv, NEW P, Proper(P), Working(P), DataRead, NEW S, NEW t \in Seq(S), Tail(code) = t
  PROVE  GoesOn(P, t)
<1> USE ProperKinds
<1>1. /\ code # <<>> /\ Next1.op = "access" /\ Next1.at = "data0" /\ WorkingOn(P)
      /\ AccessInv /\ Progress(P)
  BY Zenon DEF DataRead, At, Doing, Working
<1>2. PICK k \in 1..Len(P) :
        /\ Suffix(Next1.pairs, P) /\ Len(Next1.pairs) = Len(P) - k + 1
        /\ Pair = P[k] /\ P[k][2] = None
  BY <1>1, OneAccess, Zenon
<1> DEFINE rest == Next1.pairs
<1>3. UNCHANGED <<hart, regs, abs>> /\ NextPair /\ vals' = [vals EXCEPT ![P[k][1]] = abs.data0]
  BY <1>2, Zenon DEF DataRead, device
<1>4. hart = "halted" /\ ~abs.busy /\ abs.cmderr = 0 /\ abs.data0 = regs[P[k][1]]
  BY <1>1, <1>2, Zenon DEF AccessInv
<1>5. \A i \in 1..k - 1 : Done(P[i])
  <3>1. CASE Len(rest) < Len(P)
    <4>1. Len(P) - Len(rest) = k - 1
      BY <1>2
    <4> QED BY <1>1, <3>1, <4>1 DEF Progress
  <3>2. CASE ~(Len(rest) < Len(P))
    <4>1. k = 1
      BY <1>2, <3>2
    <4> QED BY <4>1
  <3> QED BY <3>1, <3>2
<1>6. \A i \in 1..k : Done(P[i])'
  <2> SUFFICES ASSUME NEW i \in 1..k PROVE Done(P[i])'
    OBVIOUS
  <2>1. P[i][1] \in Regs /\ P[k][1] \in Regs /\ i \in 1..Len(P)
    BY <1>2
  <2>2. CASE i = k
    BY <1>2, <1>3, <1>4, <2>1, <2>2 DEF Done, TypeInv
  <2>3. CASE i # k
    <3>1. Done(P[i]) /\ P[i][1] # P[k][1]
      BY <1>5, <2>1, <2>3
    <3>2. vals'[P[i][1]] = vals[P[i][1]]
      BY <1>3, <2>1, <3>1 DEF TypeInv
    <3> QED BY <1>3, <3>1, <3>2 DEF Done
  <2> QED BY <2>2, <2>3
<1>7. Quiet' /\ abs'.cmderr = 0
  BY <1>3, <1>4 DEF Quiet
<1> QED BY <1>2, <1>3, <1>6, <1>7, NextWorks, Zenon

\* The hart moves on without an abstract command.
LEMMA HartWorks ==
  ASSUME NEW P, Working(P), hart # "halted", UNCHANGED <<code, abs>>
  PROVE  StillWorking(P)
<1>1. WorkingOn(P)' /\ Pending(P)'
  BY DEF Working, WorkingOn, Pending, Next1, Pair
<1>2. AccessInv' /\ CheckInv' /\ Progress(P)'
  BY Zenon DEF Working, AccessInv, CheckInv, Progress, Next1
<1> QED BY <1>1, <1>2 DEF Working, StillWorking

\* An abstract command completes.
LEMMA ExecDoes ==
  ASSUME TypeInv, Exec, abs.pair \in PairType
  PROVE  /\ ~abs'.busy /\ abs'.cmderr = abs.cmderr /\ abs'.pair = abs.pair
         /\ regs' = Completed(abs.pair)
         /\ abs'.data0 = IF abs.pair[2] = None THEN regs[abs.pair[1]] ELSE abs.pair[2]
<1>1. abs \in [busy : BOOLEAN, cmderr : {0, 1, 4}, pair : PairType \cup {<<>>}, data0 : Value]
  BY DEF TypeInv
<1> DEFINE d == IF abs.pair[2] = None THEN regs[abs.pair[1]] ELSE abs.pair[2]
<1>2. abs' = [abs EXCEPT !.busy = FALSE, !.data0 = d]
  BY Zenon DEF Exec
<1>3. abs'.data0 = d /\ ~abs'.busy /\ abs'.cmderr = abs.cmderr /\ abs'.pair = abs.pair
  <2> HIDE DEF d
  <2>1. abs' = [busy |-> FALSE, cmderr |-> abs.cmderr, pair |-> abs.pair, data0 |-> d]
    BY <1>1, <1>2
  <2> QED BY <2>1
<1>4. regs' = Completed(abs.pair)
  BY Zenon DEF Exec, Completed
<1> QED BY <1>3, <1>4

\* The command in progress completes, under whatever waits for it.
LEMMA ExecWorks ==
  ASSUME TypeInv, NEW P, Proper(P), Working(P), Exec
  PROVE  StillWorking(P)
<1> USE ProperKinds
<1>1. /\ abs.busy /\ UNCHANGED <<code, vals, hart>>
      /\ WorkingOn(P) /\ AccessInv /\ CheckInv /\ Progress(P) /\ Pending(P)
  BY Zenon DEF Exec, Working, host
<1>2. PICK q \in 1..Len(P) : abs.pair = P[q]
  BY <1>1 DEF Pending
<1>3. /\ ~abs'.busy /\ abs'.cmderr = abs.cmderr /\ abs'.pair = P[q]
      /\ regs' = Completed(P[q])
      /\ abs'.data0 = IF P[q][2] = None THEN regs[P[q][1]] ELSE P[q][2]
  <2>1. abs.pair \in PairType
    BY <1>2
  <2> QED BY <1>2, <2>1, ExecDoes
<1>4. P[q][2] = None => regs' = regs /\ \A i \in 1..Len(P) : P[i][2] = None
  BY <1>3 DEF Completed
<1>5. P[q][2] # None => /\ regs'[P[q][1]] = P[q][2]
                        /\ \A r \in Regs : r # P[q][1] => regs'[r] = regs[r]
  <2> SUFFICES ASSUME P[q][2] # None
               PROVE  /\ regs'[P[q][1]] = P[q][2]
                      /\ \A r \in Regs : r # P[q][1] => regs'[r] = regs[r]
    OBVIOUS
  <2>1. regs' = [regs EXCEPT ![P[q][1]] = P[q][2]]
    BY <1>3 DEF Completed
  <2>2. regs \in [Regs -> Value] /\ P[q][1] \in Regs
    BY DEF TypeInv
  <2> QED BY <2>1, <2>2
<1>6. \A i \in 1..Len(P) : i # q => regs'[P[i][1]] = regs[P[i][1]]
  <2> SUFFICES ASSUME NEW i \in 1..Len(P), i # q PROVE regs'[P[i][1]] = regs[P[i][1]]
    OBVIOUS
  <2>1. P[i][1] \in Regs /\ P[i][1] # P[q][1]
    OBVIOUS
  <2> QED BY <1>4, <1>5, <2>1
<1>7. \A i \in 1..Len(P) : Done(P[i]) => Done(P[i])'
  <2> SUFFICES ASSUME NEW i \in 1..Len(P), Done(P[i]) PROVE Done(P[i])'
    OBVIOUS
  <2>1. CASE P[q][2] = None
    BY <1>1, <1>4, <2>1 DEF Done
  <2>2. CASE P[q][2] # None /\ i = q
    BY <1>5, <2>2 DEF Done
  <2>3. CASE P[q][2] # None /\ i # q
    BY <1>1, <1>6, <2>3 DEF Done
  <2> QED BY <2>1, <2>2, <2>3
<1>8. WorkingOn(P)'
  BY <1>1 DEF WorkingOn, Next1, Pair
<1>9. Pending(P)'
  BY <1>3 DEF Pending
<1>10. Progress(P)'
  <2> SUFFICES ASSUME code # <<>>, Next1.op = "access", Len(Next1.pairs) < Len(P)
               PROVE  /\ \A i \in 1..Len(P) - Len(Next1.pairs) : Done(P[i])'
                      /\ hart' = "halted" /\ (Next1.at = "command" => abs'.cmderr = 0)
    BY <1>1, <1>3, Zenon DEF Progress, Next1
  <2>1. \A i \in 1..Len(P) - Len(Next1.pairs) : Done(P[i]) /\ i \in 1..Len(P)
    <3>1. Len(Next1.pairs) \in 1..Len(P)
      <4>1. Next1 # Batch(P) /\ Next1.op # "check"
        BY DEF Batch
      <4>2. Suffix(Next1.pairs, P)
        BY <1>1, <4>1, Zenon DEF WorkingOn
      <4> QED BY <4>2, Zenon DEF Suffix
    <3>2. \A i \in 1..Len(P) - Len(Next1.pairs) : Done(P[i])
      BY <1>1, Zenon DEF Progress
    <3> QED BY <3>1, <3>2
  <2>2. hart = "halted" /\ (Next1.at = "command" => abs.cmderr = 0)
    BY <1>1, Zenon DEF Progress
  <2> QED BY <1>1, <1>3, <1>7, <2>1, <2>2
<1>11. CheckInv'
  <2> SUFFICES ASSUME code # <<>>, Next1.op = "check", ~Next1.dirty, abs.cmderr = 0
               PROVE  /\ hart' = "halted"
                      /\ \A i \in 1..Len(P) :
                           IF P[i][2] = None THEN Next1.got[i] = regs'[P[i][1]]
                           ELSE regs'[P[i][1]] = P[i][2]
    <3>1. code # <<>> /\ Next1.op = "check" => Next1.pairs = P
      <4> SUFFICES ASSUME code # <<>>, Next1.op = "check" PROVE Next1.pairs = P
        OBVIOUS
      <4>1. Next1 # Batch(P) /\ Next1.op # "access"
        BY DEF Batch
      <4>2. Next1 = Check(P, Next1.got, Next1.dirty)
        BY <1>1, <4>1, Zenon DEF WorkingOn
      <4> QED BY <4>2 DEF Check
    <3>2. CASE ~(code # <<>> /\ Next1.op = "check" /\ ~Next1.dirty /\ abs.cmderr = 0)
      BY <1>1, <1>3, <3>2, Zenon DEF CheckInv, Next1
    <3>3. CASE code # <<>> /\ Next1.op = "check" /\ ~Next1.dirty /\ abs.cmderr = 0
      BY <1>1, <1>3, <3>1, <3>3 DEF CheckInv, Next1
    <3> QED BY <3>2, <3>3
  <2>1. Next1.pairs = P
    <4>1. Next1 # Batch(P) /\ Next1.op # "access"
      BY DEF Batch
    <4>2. Next1 = Check(P, Next1.got, Next1.dirty)
      BY <1>1, <4>1, Zenon DEF WorkingOn
    <4> QED BY <4>2 DEF Check
  <2>2. /\ hart = "halted" /\ abs.pair = P[Len(P)] /\ abs.pair[2] # None
        /\ \A i \in 1..Len(P) : i < Len(P) =>
             IF P[i][2] = None THEN Next1.got[i] = regs[P[i][1]]
             ELSE regs[P[i][1]] = P[i][2]
    BY <1>1, <2>1 DEF CheckInv
  <2>3. q = Len(P) /\ P[q][2] # None
    <3>1. Len(P) \in 1..Len(P) /\ P[q][1] = P[Len(P)][1] /\ P[q][2] # None
      BY <1>2, <2>2
    <3> QED BY <3>1
  <2>4. \A i \in 1..Len(P) : P[i][2] # None
    BY <2>3
  <2>5. ASSUME NEW i \in 1..Len(P) PROVE regs'[P[i][1]] = P[i][2]
    <3>1. CASE i = q
      BY <1>5, <2>3, <3>1
    <3>2. CASE i # q
      BY <1>6, <2>2, <2>3, <2>4, <3>2
    <3> QED BY <3>1, <3>2
  <2> QED BY <1>1, <2>2, <2>4, <2>5
<1>12. AccessInv'
  <2> SUFFICES ASSUME code # <<>>, Next1.op = "access"
               PROVE  /\ Next1.at = "wait" /\ abs.cmderr = 0 =>
                           /\ hart' = "halted"
                           /\ Pair[2] = None => abs'.data0 = regs'[Pair[1]]
                           /\ Pair[2] # None => regs'[Pair[1]] = Pair[2]
                      /\ Next1.at # "data0"
    BY <1>1, <1>3, Zenon DEF AccessInv, Next1, Pair
  <2>1. Next1.at # "data0"
    BY <1>1, SMTT(30) DEF AccessInv
  <2>2. ASSUME Next1.at = "wait", abs.cmderr = 0
        PROVE  hart' = "halted" /\ Pair = P[q]
    BY <1>1, <1>2, <2>2, SMTT(30) DEF AccessInv
  <2> QED BY <1>3, <1>4, <1>5, <2>1, <2>2
<1> QED BY <1>8, <1>9, <1>10, <1>11, <1>12 DEF Working, StillWorking

-----------------------------------------------------------------------------
(***************************************************************************)
(* Isolation during the accesses                                           *)
(***************************************************************************)
AccessStep == BatchRun \/ BatchCheck \/ CommandWrite \/ AbstractWait \/ DataRead

\* What no access changes.
LEMMA AccessFrame ==
  ASSUME AccessStep
  PROVE  /\ UNCHANGED <<tool, ok, wasRunning, saved, masked, machine, hart, cause, dm, trap, before, tools>>
         /\ AbstractWait \/ UNCHANGED <<step, report>>
         /\ BatchRun \/ UNCHANGED <<regs, troubles>>
         /\ BatchCheck \/ DataRead \/ CommandWrite \/ UNCHANGED vals
<1>1. CASE BatchRun
  BY <1>1, Zenon DEF BatchRun, Beside
<1>2. CASE BatchCheck
  BY <1>2 DEF BatchCheck, Beside, Fixed, bounds
<1>3. CASE CommandWrite
  BY <1>3 DEF CommandWrite, Beside, Fixed, bounds
<1>4. CASE AbstractWait
  BY <1>4 DEF AbstractWait, Raised, Beside, Fixed, bounds
<1>5. CASE DataRead
  BY <1>5 DEF DataRead, Beside, device, Fixed, bounds
<1> QED BY <1>1, <1>2, <1>3, <1>4, <1>5, SMTT(30) DEF AccessStep

\* An access goes on, or is done with all of its registers, or raises.
LEMMA AccessWorks ==
  ASSUME TypeInv, NEW P, Proper(P), Working(P), AccessStep, NEW S, NEW t \in Seq(S), Tail(code) = t
  PROVE  \/ GoesOn(P, t) /\ UNCHANGED <<step, report>>
         \/ AbstractWait /\ Raised /\ abs'.busy = abs.busy /\ abs'.pair = abs.pair
<1>1. CASE BatchRun
  <2>1. UNCHANGED <<step, report>>
    BY <1>1 DEF BatchRun, Beside
  <2>2. GoesOn(P, t)
    BY <1>1, BatchWorks, Zenon
  <2> QED BY <2>1, <2>2
<1>2. CASE BatchCheck
  <2>1. UNCHANGED <<step, report>>
    BY <1>2 DEF BatchCheck, Beside
  <2> QED BY <1>2, <2>1, CheckWorks, Zenon
<1>3. CASE CommandWrite
  <2>1. UNCHANGED <<step, report>>
    BY <1>3 DEF CommandWrite, Beside
  <2> QED BY <1>3, <2>1, CommandWorks, Zenon
<1>4. CASE AbstractWait
  <2>1. \/ GoesOn(P, t) /\ UNCHANGED <<abs, vals, step, report>>
        \/ Raised /\ abs'.busy = abs.busy /\ abs'.pair = abs.pair
    BY <1>4, WaitWorks, Zenon
  <2>2. UNCHANGED <<abs, vals, step, report>> => UNCHANGED <<step, report>>
    OBVIOUS
  <2> QED BY <1>4, <2>1, <2>2, Zenon
<1>5. CASE DataRead
  <2>1. UNCHANGED <<step, report>>
    BY <1>5 DEF DataRead, Beside
  <2> QED BY <1>5, <2>1, DataWorks, Zenon
<1> QED BY <1>1, <1>2, <1>3, <1>4, <1>5 DEF AccessStep

\* Only a batch has an effect on the registers by itself.
LEMMA AccessRegs ==
  ASSUME TypeInv, NEW P, Proper(P), WorkingOn(P), AccessStep
  PROVE  /\ \E d \in 0..Len(P) : /\ regs' = Written(SubSeq(P, 1, d))
                                 /\ hart = "halted" \/ d = 0
         /\ (\A i \in 1..Len(P) : P[i][2] = None) \/ hart # "halted" => regs' = regs
<1>1. Written(SubSeq(P, 1, 0)) = regs
  <2> DEFINE W == Written(SubSeq(P, 1, 0))
  <2>1. 0 \in 0..Len(P) /\ \A i \in 1..0 : FALSE
    BY ProperKinds
  <2>2. W \in [Regs -> Value] /\ \A r \in Regs : W[r] = regs[r]
    BY <2>1, WrittenIs
  <2>3. regs \in [Regs -> Value]
    BY DEF TypeInv
  <2> HIDE DEF W
  <2>4. W = regs
    BY <2>2, <2>3
  <2> QED BY <2>4 DEF W
<1>2. CASE ~BatchRun
  <2>1. regs' = regs
    BY <1>2, AccessFrame
  <2>2. 0 \in 0..Len(P)
    BY ProperKinds
  <2> QED BY <1>1, <2>1, <2>2
<1>3. CASE BatchRun
  <2>1. PICK d \in 0..Len(P), late \in BOOLEAN, dirty \in BOOLEAN : BatchDone(P, d, late, dirty)
    BY <1>3, BatchDoes, Zenon
  <2>2. regs' = Written(SubSeq(P, 1, d)) /\ (hart = "halted" \/ d = 0)
    BY <2>1, Zenon DEF BatchDone
  <2>3. ASSUME \A i \in 1..Len(P) : P[i][2] = None PROVE regs' = regs
    BY <2>2, <2>3, ReadsWrite, Zenon
  <2>4. hart # "halted" => regs' = regs
    BY <1>1, <2>2
  <2> QED BY <2>1, <2>2, <2>3, <2>4
<1> QED BY <1>2, <1>3

\* One write more.
LEMMA WrittenNext ==
  ASSUME TypeInv, NEW P, Proper(P), NEW d \in 0..Len(P) - 1, P[d + 1][2] # None
  PROVE  Written(SubSeq(P, 1, d + 1)) = [Written(SubSeq(P, 1, d)) EXCEPT ![P[d + 1][1]] = P[d + 1][2]]
<1> DEFINE V == Written(SubSeq(P, 1, d))  W == Written(SubSeq(P, 1, d + 1))
<1> USE ProperKinds
<1>1. d \in 0..Len(P) /\ d + 1 \in 0..Len(P) /\ d + 1 \in 1..Len(P) /\ d \in Nat
  OBVIOUS
<1>2. /\ V \in [Regs -> Value]
      /\ \A i \in 1..d : P[i][2] # None => V[P[i][1]] = P[i][2]
      /\ \A r \in Regs : (\A i \in 1..d : P[i][1] # r \/ P[i][2] = None) => V[r] = regs[r]
  BY <1>1, WrittenIs, ZenonT(60)
<1>3. /\ W \in [Regs -> Value]
      /\ \A i \in 1..d + 1 : P[i][2] # None => W[P[i][1]] = P[i][2]
      /\ \A r \in Regs : (\A i \in 1..d + 1 : P[i][1] # r \/ P[i][2] = None) => W[r] = regs[r]
  BY <1>1, WrittenIs, ZenonT(60)
<1> HIDE DEF V, W
<1>4. W[P[d + 1][1]] = P[d + 1][2]
  BY <1>1, <1>3
<1>5. ASSUME NEW r \in Regs, r # P[d + 1][1] PROVE W[r] = V[r]
  <2>1. CASE \A i \in 1..d : P[i][1] # r \/ P[i][2] = None
    <3>1. \A i \in 1..d + 1 : i \in 1..d \/ i = d + 1
      BY <1>1
    <3>2. \A i \in 1..d + 1 : P[i][1] # r \/ P[i][2] = None
      BY <1>5, <2>1, <3>1
    <3> QED BY <1>2, <1>3, <2>1, <3>2
  <2>2. ASSUME NEW i \in 1..d, P[i][1] = r, P[i][2] # None PROVE W[r] = V[r]
    <3>1. i \in 1..d + 1
      BY <1>1
    <3> QED BY <1>2, <1>3, <2>2, <3>1
  <2> QED BY <2>1, <2>2
<1>6. P[d + 1][1] \in Regs
  BY <1>1
<1>7. W = [V EXCEPT ![P[d + 1][1]] = P[d + 1][2]]
  BY <1>2, <1>3, <1>4, <1>5, <1>6
<1> QED BY <1>7 DEF V, W

\* What writing the pairs does to the isolation of the function called: of a batch, and
\* of one pair after those before it.
SafeAt(P) == \A d \in 0..Len(P) : Isolated(Written(SubSeq(P, 1, d)))
SafeNext(P) == \A k \in 1..Len(P) : (\A i \in 1..k - 1 : Done(P[i])) => Isolated(Completed(P[k]))
Safe(P) == SafeAt(P) /\ SafeNext(P)

\* An access that is safe at each of its registers keeps the isolation.
LEMMA AccessIsolated ==
  ASSUME TypeInv, IsolatedInv, NEW P, Proper(P), Working(P), AccessStep, hart = "halted" => Safe(P),
         NEW S, NEW t \in Seq(S), Tail(code) = t
  PROVE  IsolatedInv'
<1> USE ProperKinds
<1>0. WorkingOn(P) /\ UNCHANGED <<masked, machine, hart, trap>>
  BY AccessFrame DEF Working
<1>1. Isolated(regs)'
  <2>1. PICK d \in 0..Len(P) : regs' = Written(SubSeq(P, 1, d)) /\ (hart = "halted" \/ d = 0)
    BY <1>0, AccessRegs, Zenon
  <2>2. hart # "halted" => regs' = regs
    BY <1>0, AccessRegs, Zenon
  <2>3. CASE hart = "halted"
    <3>1. Isolated(Written(SubSeq(P, 1, d)))
      BY <2>3, Zenon DEF Safe, SafeAt
    <3>2. PICK W : W = Written(SubSeq(P, 1, d))
      OBVIOUS
    <3>3. Isolated(W) /\ regs' = W
      BY <2>1, <3>1, <3>2, Zenon
    <3> QED BY <1>0, <3>3 DEF Isolated, Foreign
  <2>4. CASE hart # "halted"
    BY <1>0, <2>2, <2>4 DEF IsolatedInv, Isolated, Foreign
  <2> QED BY <2>3, <2>4
<1>2. CASE abs'.busy = abs.busy /\ abs'.pair = abs.pair /\ regs' = regs
  <2>1. Isolated(Completed(abs.pair)) /\ abs.busy => Isolated(Completed(abs.pair))'
    BY <1>0, <1>2 DEF Isolated, Foreign, Completed
  <2> QED BY <1>0, <1>1, <1>2, <2>1, Zenon DEF IsolatedInv
<1>3. CASE ~abs'.busy
  BY <1>1, <1>3 DEF IsolatedInv
<1>4. CASE BatchRun
  <2>1. PICK d \in 0..Len(P), late \in BOOLEAN, dirty \in BOOLEAN : BatchDone(P, d, late, dirty)
    BY <1>0, <1>4, BatchDoes, Zenon
  <2>2. CASE hart = "halted" /\ late /\ abs.cmderr = 0 /\ abs'.pair = P[d + 1] /\ d < Len(P)
    <3>1. d \in 0..Len(P) - 1 /\ d + 1 \in 1..Len(P) /\ d \in 0..Len(P) /\ d + 1 \in 0..Len(P)
      BY <2>1, <2>2
    <3>2. PICK W : W = Written(SubSeq(P, 1, d))
      OBVIOUS
    <3>3. PICK q : q = P[d + 1]
      OBVIOUS
    <3>4. regs' = W /\ abs'.pair = q
      BY <2>1, <2>2, <3>2, <3>3, Zenon DEF BatchDone
    <3>5. Isolated(IF q[2] = None THEN W ELSE [W EXCEPT ![q[1]] = q[2]])
      <4>1. CASE q[2] = None
        BY <2>2, <3>1, <3>2, <4>1, Zenon DEF Safe, SafeAt
      <4>2. CASE q[2] # None
        <5>1. Written(SubSeq(P, 1, d + 1)) = [W EXCEPT ![q[1]] = q[2]]
          BY <3>1, <3>2, <3>3, <4>2, WrittenNext, Zenon
        <5>2. Isolated(Written(SubSeq(P, 1, d + 1)))
          BY <2>2, <3>1, Zenon DEF Safe, SafeAt
        <5> QED BY <4>2, <5>1, <5>2, Zenon
      <4> QED BY <4>1, <4>2
    <3>6. Isolated(Completed(abs.pair))'
      <4> DEFINE V == IF q[2] = None THEN W ELSE [W EXCEPT ![q[1]] = q[2]]
      <4>1. Isolated(V)
        BY <3>5
      <4>2. Completed(abs.pair)' = V
        BY <3>4 DEF Completed
      <4> HIDE DEF V
      <4> QED BY <1>0, <4>1, <4>2 DEF Isolated, Foreign
    <3>7. q \in PairType /\ (q[2] # None => q[2][1] = q[1])
      BY <3>1, <3>3
    <3> QED BY <1>0, <1>1, <2>2, <3>4, <3>6, <3>7, Zenon DEF IsolatedInv
  <2>3. CASE d = 0 /\ abs'.busy = abs.busy /\ abs'.pair = abs.pair
             /\ (abs.cmderr # 0 \/ abs.busy \/ hart # "halted")
    <3>1. regs' = regs
      <4>1. Written(SubSeq(P, 1, 0)) = Written(SubSeq(P, 1, d)) /\ 0 \in 0..Len(P) /\ \A i \in 1..0 : FALSE
        BY <2>3
      <4> DEFINE W == Written(SubSeq(P, 1, 0))
      <4>2. W \in [Regs -> Value] /\ \A r \in Regs : W[r] = regs[r]
        BY <4>1, WrittenIs
      <4>3. regs \in [Regs -> Value] /\ regs' = W
        BY <2>1, <4>1 DEF TypeInv, BatchDone
      <4> HIDE DEF W
      <4> QED BY <4>2, <4>3
    <3> QED BY <1>2, <2>3, <3>1
  <2> QED BY <1>3, <2>1, <2>2, <2>3, Zenon DEF BatchDone
<1>5. CASE CommandWrite
  <2>1. regs' = regs
    BY <1>5 DEF CommandWrite
  <2>2. ASSUME NEW k \in 1..Len(P), hart = "halted", abs'.pair = P[k], \A i \in 1..k - 1 : Done(P[i])
        PROVE  IsolatedInv'
    <3>1. PICK q : q = P[k]
      OBVIOUS
    <3>2. Isolated(Completed(q)) /\ q \in PairType /\ (q[2] # None => q[2][1] = q[1])
      BY <2>2, <3>1, Zenon DEF Safe, SafeNext
    <3>3. Isolated(Completed(abs.pair))'
      BY <1>0, <2>1, <2>2, <3>1, <3>2 DEF Isolated, Foreign, Completed
    <3> QED BY <1>0, <1>1, <2>2, <3>1, <3>2, <3>3, Zenon DEF IsolatedInv
  <2>3. \/ abs'.busy = abs.busy /\ abs'.pair = abs.pair
        \/ /\ hart = "halted" /\ ~abs.busy
           /\ \E k \in 1..Len(P) : abs'.pair = P[k] /\ \A i \in 1..k - 1 : Done(P[i])
    BY <1>5, CommandWorks, Zenon
  <2> QED BY <1>2, <2>1, <2>2, <2>3, Zenon
<1>6. CASE BatchCheck \/ AbstractWait \/ DataRead
  <2>1. regs' = regs
    BY <1>6 DEF BatchCheck, AbstractWait, DataRead, device
  <2>2. abs' = abs \/ abs' = [abs EXCEPT !.cmderr = 0]
    BY <1>6, Zenon DEF BatchCheck, AbstractWait, DataRead, device
  <2>3. abs'.busy = abs.busy /\ abs'.pair = abs.pair
    BY <2>2 DEF TypeInv
  <2> QED BY <1>2, <2>1, <2>3
<1> QED BY <1>4, <1>5, <1>6 DEF AccessStep

\* A register after the writes: the value of its pair, or as it was.
LEMMA WrittenAt ==
  ASSUME TypeInv, NEW P, Proper(P), NEW d \in 0..Len(P), NEW r \in Regs
  PROVE  LET W == Written(SubSeq(P, 1, d))
         IN  \/ W[r] = regs[r] /\ \A i \in 1..d : P[i][1] # r \/ P[i][2] = None
             \/ \E i \in 1..d : P[i][1] = r /\ P[i][2] # None /\ W[r] = P[i][2]
<1>1. CASE \A i \in 1..d : P[i][1] # r \/ P[i][2] = None
  BY <1>1, WrittenIs
<1>2. ASSUME NEW i \in 1..d, P[i][1] = r, P[i][2] # None
      PROVE  Written(SubSeq(P, 1, d))[r] = P[i][2]
  BY <1>2, WrittenIs
<1> QED BY <1>1, <1>2

\* The registers when the command in progress has completed.
LEMMA CompletedAt ==
  ASSUME TypeInv, NEW P, Proper(P), NEW k \in 1..Len(P), NEW r \in Regs
  PROVE  LET C == Completed(P[k])
         IN  \/ C[r] = regs[r] /\ (P[k][1] # r \/ P[k][2] = None)
             \/ P[k][1] = r /\ P[k][2] # None /\ C[r] = P[k][2]
BY ProperKinds DEF Completed, TypeInv

\* Reads are safe.
LEMMA ReadsSafe ==
  ASSUME TypeInv, Isolated(regs), NEW P, Proper(P), \A i \in 1..Len(P) : P[i][2] = None
  PROVE  Safe(P)
<1>1. SafeAt(P)
  BY ReadsWrite, Zenon DEF SafeAt
<1>2. SafeNext(P)
  BY Zenon DEF SafeNext, Completed
<1> QED BY <1>1, <1>2 DEF Safe

\* Writes of other registers, or of a hart that does not run the function.
LEMMA AsideSafe ==
  ASSUME TypeInv, Isolated(regs), NEW P, Proper(P), \A i \in 1..Len(P) : P[i][1] # "dpc",
         ~InCallee \/ \A i \in 1..Len(P) : P[i][1] \notin {"mstatus", "dcsr"}
  PROVE  Safe(P)
<1> USE ProperKinds
<1>0. "dpc" \in Regs /\ "mstatus" \in Regs /\ "dcsr" \in Regs
  BY DEF Regs
<1>1. ASSUME NEW W, W["dpc"] = regs["dpc"],
             ~InCallee \/ (W["mstatus"] = regs["mstatus"] /\ W["dcsr"] = regs["dcsr"])
      PROVE  Isolated(W)
  BY <1>1, Zenon DEF Isolated, Foreign, InCallee, Program
<1>2. SafeAt(P)
  <2> SUFFICES ASSUME NEW d \in 0..Len(P) PROVE Isolated(Written(SubSeq(P, 1, d)))
    BY DEF SafeAt
  <2> DEFINE W == Written(SubSeq(P, 1, d))
  <2>1. \A i \in 1..d : i \in 1..Len(P)
    OBVIOUS
  <2>2. W["dpc"] = regs["dpc"]
    BY <1>0, <2>1, WrittenAt
  <2>3. ~InCallee \/ (W["mstatus"] = regs["mstatus"] /\ W["dcsr"] = regs["dcsr"])
    BY <1>0, <2>1, WrittenAt
  <2> HIDE DEF W
  <2>4. Isolated(W)
    BY <1>1, <2>2, <2>3, Zenon
  <2> QED BY <2>4 DEF W
<1>3. SafeNext(P)
  <2> SUFFICES ASSUME NEW k \in 1..Len(P) PROVE Isolated(Completed(P[k]))
    BY DEF SafeNext
  <2> DEFINE W == Completed(P[k])
  <2>2. W["dpc"] = regs["dpc"]
    BY <1>0, CompletedAt
  <2>3. ~InCallee \/ (W["mstatus"] = regs["mstatus"] /\ W["dcsr"] = regs["dcsr"])
    BY <1>0, CompletedAt
  <2> HIDE DEF W
  <2>4. Isolated(W)
    BY <1>1, <2>2, <2>3, Zenon
  <2> QED BY <2>4 DEF W
<1> QED BY <1>2, <1>3 DEF Safe

\* The setup: the jump target is the last that is written.
LEMMA SetupSafe ==
  ASSUME TypeInv, Isolated(regs), NEW n \in {0, 1}, NEW P, P = SetupPairs(n), trap
  PROVE  Safe(P)
<1>1. /\ Proper(P) /\ \A i \in 1..Len(P) : P[i] = Set(P[i][1])
      /\ P[Len(P)] = Set("dpc")
      /\ masked \/ \E i \in 1..Len(P) : P[i] = Set("mstatus")
      /\ machine \/ \E i \in 1..Len(P) : P[i] = Set("dcsr")
  BY SetupProper, Zenon
<1>2. /\ Len(P) \in Nat /\ Len(P) > 0
      /\ \A i \in 1..Len(P) : P[i][2] # None => P[i][2] \in Value /\ P[i][2][1] = P[i][1]
      /\ \A i \in 1..Len(P), j \in 1..Len(P) : P[i][1] = P[j][1] => i = j
  BY <1>1, ProperKinds, Zenon
<1>3. \A i \in 1..Len(P) : P[i][2] = <<P[i][1], "call">>
  BY <1>1 DEF Set
<1>4. "dpc" \in Regs /\ "mstatus" \in Regs /\ "dcsr" \in Regs
  BY DEF Regs
<1>5. /\ Set("dpc")[1] = "dpc" /\ Set("mstatus")[1] = "mstatus" /\ Set("dcsr")[1] = "dcsr"
      /\ \A i \in 1..Len(P) : P[i][2] # None
  <2>1. \A i \in 1..Len(P) : P[i][2] \in Value
    <3>1. \A r \in Regs : <<r, "call">> \in Value
      BY DEF Value, Kinds
    <3>2. \A i \in 1..Len(P) : P[i][1] \in Regs
      BY <1>1, ProperKinds, Zenon
    <3> QED BY <1>3, <3>1, <3>2
  <2> QED BY <2>1, NoneAssumption DEF Set
<1>6. \A i \in 1..Len(P) : P[i][1] = "dpc" => i = Len(P)
  <2>1. P[Len(P)][1] = "dpc" /\ Len(P) \in 1..Len(P)
    BY <1>1, <1>2, <1>5
  <2> QED BY <1>2, <2>1
<1>7. /\ masked \/ \E i \in 1..Len(P) : P[i][1] = "mstatus"
      /\ machine \/ \E i \in 1..Len(P) : P[i][1] = "dcsr"
  BY <1>1, <1>5
<1>8. ASSUME NEW W,
             W["mstatus"] \in {regs["mstatus"], <<"mstatus", "call">>},
             W["dcsr"] \in {regs["dcsr"], <<"dcsr", "call">>},
             \/ W["dpc"] = regs["dpc"]
             \/ /\ masked \/ W["mstatus"] = <<"mstatus", "call">>
                /\ machine \/ W["dcsr"] = <<"dcsr", "call">>
      PROVE  Isolated(W)
  BY <1>8 DEF Isolated, Foreign
<1>9. SafeAt(P)
  <2> SUFFICES ASSUME NEW d \in 0..Len(P) PROVE Isolated(Written(SubSeq(P, 1, d)))
    BY DEF SafeAt
  <2> DEFINE W == Written(SubSeq(P, 1, d))
  <2>1. \A i \in 1..d : i \in 1..Len(P)
    BY <1>2
  <2>2. \A r \in Regs : W[r] \in {regs[r], <<r, "call">>}
    <3> SUFFICES ASSUME NEW r \in Regs PROVE W[r] \in {regs[r], <<r, "call">>}
      OBVIOUS
    <3>1. W[r] = regs[r] \/ \E i \in 1..d : P[i][1] = r /\ W[r] = P[i][2]
      BY <1>1, WrittenAt
    <3> HIDE DEF W
    <3> QED BY <1>3, <2>1, <3>1
  <2>4. CASE d = Len(P)
    <3>1. \A i \in 1..Len(P) : W[P[i][1]] = <<P[i][1], "call">>
      BY <1>1, <1>3, <1>5, <2>4, WrittenIs
    <3>2. /\ masked \/ W["mstatus"] = <<"mstatus", "call">>
          /\ machine \/ W["dcsr"] = <<"dcsr", "call">>
      <4> HIDE DEF W
      <4> QED BY <1>7, <3>1
    <3> HIDE DEF W
    <3>3. Isolated(W)
      BY <1>4, <1>8, <2>2, <3>2
    <3> QED BY <3>3 DEF W
  <2>5. CASE d # Len(P)
    <3>1. \A i \in 1..d : P[i][1] # "dpc"
      BY <1>2, <1>6, <2>1, <2>5
    <3>2. W["dpc"] = regs["dpc"]
      BY <1>1, <1>4, <3>1, WrittenAt
    <3> HIDE DEF W
    <3>3. Isolated(W)
      BY <1>4, <1>8, <2>2, <3>2
    <3> QED BY <3>3 DEF W
  <2> QED BY <2>4, <2>5
<1>10. SafeNext(P)
  <2> SUFFICES ASSUME NEW k \in 1..Len(P), \A i \in 1..k - 1 : Done(P[i])
               PROVE  Isolated(Completed(P[k]))
    BY Zenon DEF SafeNext
  <2> DEFINE W == Completed(P[k])
  <2>2. \A r \in Regs : W[r] \in {regs[r], <<r, "call">>}
    <3> SUFFICES ASSUME NEW r \in Regs PROVE W[r] \in {regs[r], <<r, "call">>}
      OBVIOUS
    <3>1. W[r] = regs[r] \/ (P[k][1] = r /\ W[r] = P[k][2])
      BY <1>1, CompletedAt
    <3> HIDE DEF W
    <3> QED BY <1>3, <3>1
  <2>4. CASE k = Len(P)
    <3>1. ASSUME NEW i \in 1..Len(P), P[i][1] \in {"mstatus", "dcsr"}
          PROVE  W[P[i][1]] = <<P[i][1], "call">>
      <4>1. P[k][1] = "dpc" /\ i # k /\ i \in 1..k - 1 /\ P[k][1] # P[i][1]
        BY <1>1, <1>2, <1>5, <2>4, <3>1
      <4>2. regs[P[i][1]] = <<P[i][1], "call">>
        BY <1>3, <1>5, <4>1 DEF Done
      <4>3. W[P[i][1]] = regs[P[i][1]]
        BY <1>1, <1>4, <3>1, <4>1, CompletedAt
      <4> QED BY <4>2, <4>3
    <3>2. /\ masked \/ W["mstatus"] = <<"mstatus", "call">>
          /\ machine \/ W["dcsr"] = <<"dcsr", "call">>
      <4> HIDE DEF W
      <4> QED BY <1>7, <3>1
    <3> HIDE DEF W
    <3>3. Isolated(W)
      BY <1>4, <1>8, <2>2, <3>2
    <3> QED BY <3>3 DEF W
  <2>5. CASE k # Len(P)
    <3>1. P[k][1] # "dpc"
      BY <1>6, <2>5
    <3>2. W["dpc"] = regs["dpc"]
      BY <1>1, <1>4, <3>1, CompletedAt
    <3> HIDE DEF W
    <3>3. Isolated(W)
      BY <1>4, <1>8, <2>2, <3>2
    <3> QED BY <3>3 DEF W
  <2> QED BY <2>4, <2>5
<1> QED BY <1>9, <1>10 DEF Safe

\* What is put back: the jump target is the first.
LEMMA SavedSafe ==
  ASSUME TypeInv, Isolated(regs), NEW n \in {0, 1}, NEW P, P = saved, SavedInv(n), PutBack, trap
  PROVE  Safe(P)
<1>1. /\ Proper(P) /\ Len(P) \in {5, 6}
      /\ P[1][1] = "dpc" /\ P[2][1] = "dcsr" /\ P[3][1] = "mstatus"
      /\ \A i \in 1..Len(P) : P[i][2] \in Value
  BY SavedProper
<1>2. /\ \A i \in 1..Len(P), j \in 1..Len(P) : P[i][1] = P[j][1] => i = j
      /\ \A i \in 1..Len(P) : P[i][2] # None
  BY <1>1, NoneAssumption, ProperKinds
<1>3. Foreign(P[1][2]) => /\ masked \/ P[3][2] = <<"mstatus", "call">>
                          /\ machine \/ P[2][2] = <<"dcsr", "call">>
  BY DEF SavedInv
<1>4. "dpc" \in Regs /\ "mstatus" \in Regs /\ "dcsr" \in Regs
  BY DEF Regs
<1>5. 1 \in 1..Len(P) /\ 2 \in 1..Len(P) /\ 3 \in 1..Len(P)
  BY <1>1
<1>6. PutBack <=> Foreign(regs["dpc"]) \/ regs["dpc"] = P[1][2]
  BY Zenon DEF PutBack, InCallee, Program, Foreign
<1>7. ASSUME NEW W,
             W["mstatus"] \in {regs["mstatus"], P[3][2]},
             W["dcsr"] \in {regs["dcsr"], P[2][2]},
             W["dpc"] = P[1][2]
      PROVE  Isolated(W)
  <2> SUFFICES ASSUME Foreign(W["dpc"])
               PROVE  trap /\ (masked \/ W["mstatus"] = <<"mstatus", "call">>)
                           /\ (machine \/ W["dcsr"] = <<"dcsr", "call">>)
    BY Zenon DEF Isolated
  <2>1. Foreign(P[1][2]) /\ Foreign(regs["dpc"])
    BY <1>6, <1>7 DEF Foreign
  <2>2. /\ masked \/ regs["mstatus"] = <<"mstatus", "call">>
        /\ machine \/ regs["dcsr"] = <<"dcsr", "call">>
    BY <2>1, Zenon DEF Isolated
  <2> QED BY <1>3, <1>7, <2>1, <2>2
<1>8. SafeAt(P)
  <2> SUFFICES ASSUME NEW d \in 0..Len(P) PROVE Isolated(Written(SubSeq(P, 1, d)))
    BY DEF SafeAt
  <2> DEFINE W == Written(SubSeq(P, 1, d))
  <2>1. \A i \in 1..d : i \in 1..Len(P)
    BY <1>1
  <2>2. \A r \in Regs, j \in 1..Len(P) : P[j][1] = r => W[r] \in {regs[r], P[j][2]}
    <3> SUFFICES ASSUME NEW r \in Regs, NEW j \in 1..Len(P), P[j][1] = r
                 PROVE  W[r] \in {regs[r], P[j][2]}
      OBVIOUS
    <3>1. W[r] = regs[r] \/ \E i \in 1..d : P[i][1] = r /\ W[r] = P[i][2]
      BY <1>1, WrittenAt
    <3> HIDE DEF W
    <3>2. \A i \in 1..d : P[i][1] = r => i = j
      BY <1>2, <2>1
    <3> QED BY <3>1, <3>2
  <2>3. W["mstatus"] \in {regs["mstatus"], P[3][2]} /\ W["dcsr"] \in {regs["dcsr"], P[2][2]}
    <3> HIDE DEF W
    <3> QED BY <1>1, <1>4, <1>5, <2>2
  <2>4. CASE d = 0
    <3>1. \A i \in 1..d : FALSE
      BY <2>4
    <3>2. \A r \in Regs : (\A i \in 1..d : P[i][1] # r \/ P[i][2] = None) => W[r] = regs[r]
      BY <1>1, WrittenIs, ZenonT(60)
    <3> HIDE DEF W
    <3>3. Isolated(W)
      BY <1>4, <3>1, <3>2, Zenon DEF Isolated, Foreign
    <3> QED BY <3>3 DEF W
  <2>5. CASE d # 0
    <3>1. 1 \in 1..d
      BY <1>1, <2>5
    <3>2. W["dpc"] = P[1][2]
      BY <1>1, <1>2, <1>5, <3>1, WrittenIs
    <3> HIDE DEF W
    <3>3. Isolated(W)
      BY <1>7, <2>3, <3>2
    <3> QED BY <3>3 DEF W
  <2> QED BY <2>4, <2>5
<1>9. SafeNext(P)
  <2> SUFFICES ASSUME NEW k \in 1..Len(P), \A i \in 1..k - 1 : Done(P[i])
               PROVE  Isolated(Completed(P[k]))
    BY Zenon DEF SafeNext
  <2> DEFINE W == Completed(P[k])
  <2>2. \A r \in Regs, j \in 1..Len(P) : P[j][1] = r => W[r] \in {regs[r], P[j][2]}
    <3> SUFFICES ASSUME NEW r \in Regs, NEW j \in 1..Len(P), P[j][1] = r
                 PROVE  W[r] \in {regs[r], P[j][2]}
      OBVIOUS
    <3>1. W[r] = regs[r] \/ (P[k][1] = r /\ W[r] = P[k][2])
      BY <1>1, CompletedAt
    <3> HIDE DEF W
    <3>2. P[k][1] = r => k = j
      BY <1>2
    <3> QED BY <3>1, <3>2
  <2>3. W["mstatus"] \in {regs["mstatus"], P[3][2]} /\ W["dcsr"] \in {regs["dcsr"], P[2][2]}
    <3> HIDE DEF W
    <3> QED BY <1>1, <1>4, <1>5, <2>2
  <2>4. W["dpc"] = P[1][2]
    <3>1. CASE k = 1
      <4>1. W = [regs EXCEPT !["dpc"] = P[1][2]]
        BY <1>1, <1>2, <1>5, <3>1 DEF Completed
      <4> QED BY <1>4, <4>1 DEF TypeInv
    <3>2. CASE k # 1
      <4>1. 1 \in 1..k - 1 /\ P[k][1] # "dpc"
        BY <1>1, <1>2, <1>5, <3>2
      <4>2. regs["dpc"] = P[1][2]
        BY <1>1, <1>2, <1>5, <4>1 DEF Done
      <4>3. W["dpc"] = regs["dpc"]
        BY <1>1, <1>4, <4>1, CompletedAt
      <4> QED BY <4>2, <4>3
    <3> QED BY <3>1, <3>2
  <2> HIDE DEF W
  <2>5. Isolated(W)
    BY <1>7, <2>3, <2>4
  <2> QED BY <2>5 DEF W
<1> QED BY <1>8, <1>9 DEF Safe

(***************************************************************************)
(* The hart                                                                *)
(***************************************************************************)
\* What the hart does by itself while it is not in reset: it runs the function or not,
\* and stops when asked to, at the ebreak, or by itself.
LEMMA HartDoes ==
  ASSUME TypeInv, IsolatedInv, Hart
  PROVE  /\ UNCHANGED <<tool, step, code, polls, ok, wasRunning, vals, saved, report>>
         /\ UNCHANGED <<masked, machine, before, tools>>
         /\ dm'.haltreq = dm.haltreq
         /\ \/ /\ abs.busy /\ hart = "halted" /\ Exec
               /\ UNCHANGED <<hart, cause, dm, trap>>
            \/ /\ hart = "running" /\ hart' = "halted" /\ UNCHANGED <<abs, dm, trap>>
               /\ cause' = "haltreq" => dm.haltreq
               /\ \/ /\ InCallee
                     /\ regs'["dpc"] = <<"dpc", "callee">> /\ regs'["a0"] = <<"a0", "callee">>
                     /\ \A r \in {"mstatus", "dcsr"} : regs'[r] = regs[r]
                  \/ ~InCallee /\ regs' = regs
            \/ /\ hart = "reset" /\ abs' = abs
               /\ hart' = (IF dm.haltreq THEN "halted" ELSE "running")
               /\ regs' = [r \in Regs |-> <<r, "app">>]
<1>1. ASSUME NEW rs \in SUBSET Regs, "a0" \in rs, "mstatus" \notin rs, "dcsr" \notin rs, regs' = Clobber(rs)
      PROVE  /\ regs'["dpc"] = <<"dpc", "callee">> /\ regs'["a0"] = <<"a0", "callee">>
             /\ \A r \in {"mstatus", "dcsr"} : regs'[r] = regs[r]
  BY <1>1 DEF Clobber, Regs
<1>2. /\ {{"a0"}, {"ra", "sp", "a0", "t0", "s0"}} \subseteq SUBSET Regs
      /\ {{"a0"}, {"a0", "t0"}} \subseteq SUBSET Regs
  BY DEF Regs
<1>3. CASE Exec
  <2>1. abs.busy /\ UNCHANGED <<host, hart, cause, dm, trap, before, Fixed>>
    BY <1>3, Zenon DEF Exec
  <2> QED BY <1>3, <2>1, Zenon DEF IsolatedInv, host, Fixed, bounds
<1>4. CASE HartHalts
  <2>1. /\ hart = "running" /\ dm.haltreq /\ hart' = "halted"
        /\ UNCHANGED <<host, dm, abs, trap, before, Fixed>>
    BY <1>4, Zenon DEF HartHalts
  <2>2. CASE ~InCallee
    BY <1>4, <2>1, <2>2 DEF HartHalts, host, Fixed, bounds
  <2>3. CASE InCallee
    <3>1. PICK rs \in {{"a0"}, {"ra", "sp", "a0", "t0", "s0"}} : regs' = Clobber(rs)
      BY <1>4, <2>3, Zenon DEF HartHalts
    <3>2. rs \in SUBSET Regs /\ "a0" \in rs /\ "mstatus" \notin rs /\ "dcsr" \notin rs
      BY <1>2
    <3>3. /\ regs'["dpc"] = <<"dpc", "callee">> /\ regs'["a0"] = <<"a0", "callee">>
          /\ \A r \in {"mstatus", "dcsr"} : regs'[r] = regs[r]
      BY <1>1, <3>1, <3>2
    <3> QED BY <2>1, <2>3, <3>3 DEF host, Fixed, bounds
  <2> QED BY <2>2, <2>3
<1>5. CASE CalleeTraps
  <2>1. /\ hart = "running" /\ hart' = "halted" /\ cause' = "trap" /\ InCallee
        /\ UNCHANGED <<host, dm, abs, trap, before, Fixed>>
    BY <1>5, Zenon DEF CalleeTraps
  <2>2. PICK rs \in {{"a0"}, {"a0", "t0"}} : regs' = Clobber(rs)
    BY <1>5, Zenon DEF CalleeTraps
  <2>3. rs \in SUBSET Regs /\ "a0" \in rs /\ "mstatus" \notin rs /\ "dcsr" \notin rs
    BY <1>2
  <2>4. /\ regs'["dpc"] = <<"dpc", "callee">> /\ regs'["a0"] = <<"a0", "callee">>
        /\ \A r \in {"mstatus", "dcsr"} : regs'[r] = regs[r]
    BY <1>1, <2>2, <2>3
  <2> QED BY <2>1, <2>4 DEF host, Fixed, bounds
<1>6. CASE ProgramStops
  BY <1>6 DEF ProgramStops, host
<1>7. CASE LeaveReset
  <2>1. /\ hart = "reset" /\ hart' = (IF dm.haltreq THEN "halted" ELSE "running")
        /\ regs' = [r \in Regs |-> <<r, "app">>]
        /\ dm' = [dm EXCEPT !.havereset = TRUE]
        /\ UNCHANGED <<host, abs, before, Fixed>>
    BY <1>7, Zenon DEF LeaveReset
  <2>2. dm'.haltreq = dm.haltreq
    BY <2>1 DEF TypeInv
  <2> QED BY <2>1, <2>2 DEF host, Fixed, bounds
<1> QED BY <1>3, <1>4, <1>5, <1>6, <1>7 DEF Hart

\* The hart keeps the isolation.
LEMMA HartIsolated ==
  ASSUME TypeInv, IsolatedInv, Hart
  PROVE  IsolatedInv'
<1>1. /\ UNCHANGED <<masked, machine>>
      /\ \/ /\ abs.busy /\ hart = "halted" /\ Exec /\ UNCHANGED trap
         \/ /\ hart = "running" /\ UNCHANGED <<abs, trap>>
            /\ \/ /\ InCallee
                  /\ \A r \in {"mstatus", "dcsr"} : regs'[r] = regs[r]
               \/ ~InCallee /\ regs' = regs
         \/ /\ hart = "reset" /\ abs' = abs /\ regs' = [r \in Regs |-> <<r, "app">>]
  BY HartDoes
<1>2. CASE abs.busy /\ hart = "halted" /\ Exec /\ UNCHANGED trap
  <2>1. abs.pair \in PairType /\ Isolated(Completed(abs.pair))
    BY <1>2, Zenon DEF IsolatedInv
  <2>2. ~abs'.busy /\ regs' = Completed(abs.pair)
    BY <1>2, <2>1, ExecDoes
  <2>3. PICK W : W = Completed(abs.pair)
    OBVIOUS
  <2>4. Isolated(W) /\ regs' = W
    BY <2>1, <2>2, <2>3, Zenon
  <2>5. Isolated(regs)'
    BY <1>1, <1>2, <2>4 DEF Isolated, Foreign
  <2> QED BY <2>2, <2>5 DEF IsolatedInv
<1>3. CASE /\ hart = "running" /\ UNCHANGED <<abs, trap>>
           /\ \/ /\ InCallee
                 /\ \A r \in {"mstatus", "dcsr"} : regs'[r] = regs[r]
              \/ ~InCallee /\ regs' = regs
  <2>1. ~abs'.busy
    BY <1>3 DEF IsolatedInv
  <2>2. Isolated(regs)'
    BY <1>1, <1>3 DEF IsolatedInv, Isolated, Foreign, InCallee, Program
  <2> QED BY <2>1, <2>2 DEF IsolatedInv
<1>4. CASE hart = "reset" /\ abs' = abs /\ regs' = [r \in Regs |-> <<r, "app">>]
  <2>1. ~abs'.busy
    BY <1>4 DEF IsolatedInv
  <2>2. regs'["dpc"] = <<"dpc", "app">>
    BY <1>4 DEF Regs
  <2>3. Isolated(regs)'
    BY <2>2 DEF Isolated, Foreign
  <2> QED BY <2>1, <2>3 DEF IsolatedInv
<1> QED BY <1>1, <1>2, <1>3, <1>4

(***************************************************************************)
(* Types                                                                   *)
(***************************************************************************)
DataType ==
  /\ polls \in 0..Polls
  /\ regs \in [Regs -> Value] /\ \A r \in Regs : regs[r][1] = r
  /\ vals \in [Regs -> Value \cup {None}]
  /\ abs \in [busy : BOOLEAN, cmderr : {0, 1, 4}, pair : PairType \cup {<<>>}, data0 : Value]

\* What is read is in the register, in the step in which it is.
ReadsExactly == \A r \in Regs : vals'[r] \in {None, vals[r], regs[r]}

\* A command keeps the types, and hands nothing out.
LEMMA CommandType ==
  ASSUME TypeInv, NEW P, Proper(P), Working(P), CommandWrite
  PROVE  DataType' /\ ReadsExactly
<1> USE ProperKinds
<1>1. /\ code # <<>> /\ Next1.op = "access" /\ WorkingOn(P)
  BY Zenon DEF CommandWrite, At, Doing, Working
<1>2. PICK k \in 1..Len(P) : Pair = P[k]
  BY <1>1, OneAccess, Zenon
<1>3. /\ vals' = IF P[k][2] = None THEN [vals EXCEPT ![P[k][1]] = None] ELSE vals
      /\ UNCHANGED regs /\ polls' = 0
  BY <1>2 DEF CommandWrite
<1>4. \/ abs' = abs
      \/ abs' = [abs EXCEPT !.cmderr = 1]
      \/ abs' = [abs EXCEPT !.cmderr = 4]
      \/ abs' = [abs EXCEPT !.busy = TRUE, !.pair = P[k]]
  BY <1>2, Zenon DEF CommandWrite
<1>5. abs \in [busy : BOOLEAN, cmderr : {0, 1, 4}, pair : PairType \cup {<<>>}, data0 : Value]
  BY DEF TypeInv
<1>6. abs' \in [busy : BOOLEAN, cmderr : {0, 1, 4}, pair : PairType \cup {<<>>}, data0 : Value]
  <2>1. CASE abs' = abs
    BY <1>5, <2>1
  <2>2. CASE abs' = [abs EXCEPT !.cmderr = 1]
    BY <1>5, <2>2
  <2>3. CASE abs' = [abs EXCEPT !.cmderr = 4]
    BY <1>5, <2>3
  <2>4. CASE abs' = [abs EXCEPT !.busy = TRUE, !.pair = P[k]]
    <3>1. abs' = [busy |-> TRUE, cmderr |-> abs.cmderr, pair |-> P[k], data0 |-> abs.data0]
      BY <1>5, <2>4
    <3>2. P[k] \in PairType
      BY <1>2
    <3> QED BY <1>5, <3>1, <3>2
  <2> QED BY <1>4, <2>1, <2>2, <2>3, <2>4
<1>7. vals' \in [Regs -> Value \cup {None}] /\ ReadsExactly
  BY <1>3 DEF TypeInv, ReadsExactly
<1>8. polls' \in 0..Polls
  BY <1>3, RunControlAssumption
<1>9. regs' \in [Regs -> Value] /\ \A r \in Regs : regs'[r][1] = r
  BY <1>3 DEF TypeInv
<1> QED BY <1>6, <1>7, <1>8, <1>9 DEF DataType

\* A check keeps the types, and hands out what is in the registers.
LEMMA CheckType ==
  ASSUME TypeInv, NEW P, Proper(P), Working(P), BatchCheck
  PROVE  DataType' /\ ReadsExactly
<1> USE ProperKinds
<1>1. code # <<>> /\ Next1.op = "check" /\ WorkingOn(P) /\ CheckInv
  BY Zenon DEF BatchCheck, Doing, Working
<1>2. Next1.pairs = P /\ Next1.got \in [1..Len(P) -> Value] /\ DOMAIN P = 1..Len(P)
  <2>1. Next1 # Batch(P)
    BY <1>1 DEF Batch
  <2>2. /\ Next1 = Check(P, Next1.got, Next1.dirty)
        /\ Next1.dirty \in BOOLEAN /\ Next1.got \in [1..Len(P) -> Value]
    BY <1>1, <2>1 DEF WorkingOn
  <2>3. Next1.pairs = P
    BY <2>2 DEF Check
  <2> QED BY <2>2, <2>3
<1>3. UNCHANGED regs /\ polls' \in 0..Polls
  BY RunControlAssumption DEF BatchCheck, TypeInv, Proceed, Again, Accept
<1>4. /\ abs' = abs \/ abs' = [abs EXCEPT !.cmderr = 0]
      /\ \/ vals' = vals
         \/ ~Next1.dirty /\ ~abs.busy /\ abs.cmderr = 0 /\ vals' = Captured(Next1)
  BY Zenon DEF BatchCheck, Again, Accept
<1>5. abs' \in [busy : BOOLEAN, cmderr : {0, 1, 4}, pair : PairType \cup {<<>>}, data0 : Value]
  BY <1>4 DEF TypeInv
<1>6. vals' \in [Regs -> Value \cup {None}] /\ ReadsExactly
  <2>1. CASE vals' = vals
    BY <2>1 DEF TypeInv, ReadsExactly
  <2>2. CASE ~Next1.dirty /\ ~abs.busy /\ abs.cmderr = 0 /\ vals' = Captured(Next1)
    <3> DEFINE at(r) == CHOOSE i \in 1..Len(P) : P[i] = <<r, None>>
    <3>1. vals' = [r \in Regs |-> IF \E i \in 1..Len(P) : P[i] = <<r, None>>
                                  THEN Next1.got[at(r)] ELSE vals[r]]
      BY <1>2, <2>2 DEF Captured
    <3>2. ASSUME NEW r \in Regs, \E i \in 1..Len(P) : P[i] = <<r, None>>
          PROVE  Next1.got[at(r)] = regs[r]
      <4>1. at(r) \in 1..Len(P) /\ P[at(r)] = <<r, None>>
        BY <3>2
      <4> HIDE DEF at
      <4>2. Next1.got[at(r)] = regs[P[at(r)][1]]
        BY <1>1, <1>2, <2>2, <4>1 DEF CheckInv
      <4> QED BY <4>1, <4>2
    <3> HIDE DEF at
    <3>3. \A r \in Regs : vals'[r] \in {vals[r], regs[r]}
      BY <3>1, <3>2
    <3>4. \A r \in Regs : vals'[r] \in Value \cup {None}
      BY <3>3 DEF TypeInv
    <3>5. vals' = [r \in Regs |-> vals'[r]]
      BY <3>1
    <3> QED BY <3>3, <3>4, <3>5 DEF ReadsExactly
  <2> QED BY <1>4, <2>1, <2>2
<1>7. regs' \in [Regs -> Value] /\ \A r \in Regs : regs'[r][1] = r
  BY <1>3 DEF TypeInv
<1> QED BY <1>3, <1>5, <1>6, <1>7 DEF DataType

\* So does every access.
LEMMA AccessType ==
  ASSUME TypeInv, NEW P, Proper(P), Working(P), AccessStep
  PROVE  DataType' /\ ReadsExactly
<1>0. WorkingOn(P) /\ Polls \in Nat /\ Polls > 0
  BY RunControlAssumption DEF Working
<1>1. CASE BatchRun
  <2>1. PICK d \in 0..Len(P), late \in BOOLEAN, dirty \in BOOLEAN : BatchDone(P, d, late, dirty)
    BY <1>0, <1>1, BatchDoes, Zenon
  <2>2. /\ regs' = Written(SubSeq(P, 1, d))
        /\ abs' \in [busy : BOOLEAN, cmderr : {0, 1, 4}, pair : PairType \cup {<<>>}, data0 : Value]
    BY <2>1, Zenon DEF BatchDone
  <2>3. regs' \in [Regs -> Value] /\ \A r \in Regs : regs'[r][1] = r
    BY <2>2, WrittenIs
  <2>4. polls' = 0 /\ vals' = vals
    BY <1>1 DEF BatchRun
  <2> QED BY <1>0, <2>2, <2>3, <2>4 DEF DataType, ReadsExactly, TypeInv
<1>2. CASE BatchCheck
  BY <1>2, CheckType, Zenon
<1>3. CASE CommandWrite
  BY <1>3, CommandType, Zenon
<1>4. CASE AbstractWait
  <2>1. UNCHANGED <<regs, vals>> /\ polls' \in 0..Polls
    BY <1>0, <1>4 DEF AbstractWait, TypeInv, Raised
  <2>2. abs' = abs \/ abs' = [abs EXCEPT !.cmderr = 0]
    BY <1>4, Zenon DEF AbstractWait
  <2>3. abs' \in [busy : BOOLEAN, cmderr : {0, 1, 4}, pair : PairType \cup {<<>>}, data0 : Value]
    BY <2>2 DEF TypeInv
  <2> QED BY <2>1, <2>3 DEF DataType, ReadsExactly, TypeInv
<1>5. CASE DataRead
  <2>1. Next1.op = "access" /\ Next1.at = "data0" /\ code # <<>>
    BY <1>5 DEF DataRead, At, Doing
  <2>2. abs.data0 = regs[Pair[1]]
    BY <2>1, Zenon DEF Working, AccessInv
  <2>3. /\ vals' = [vals EXCEPT ![Pair[1]] = abs.data0] /\ UNCHANGED <<regs, abs>> /\ polls' = 0
    BY <1>5 DEF DataRead, device
  <2>4. vals' \in [Regs -> Value \cup {None}]
    BY <2>3 DEF TypeInv
  <2>5. ReadsExactly
    BY <2>2, <2>3 DEF TypeInv, ReadsExactly
  <2> QED BY <1>0, <2>3, <2>4, <2>5 DEF DataType, TypeInv
<1> QED BY <1>1, <1>2, <1>3, <1>4, <1>5 DEF AccessStep

\* The hart keeps the types.
LEMMA HartType ==
  ASSUME TypeInv, IsolatedInv, Hart
  PROVE  DataType'
<1>1. polls' = polls /\ vals' = vals
  BY HartDoes
<1>2. CASE Exec
  <2> DEFINE r == abs.pair[1]  v == abs.pair[2]
  <2>1. /\ abs.pair \in PairType /\ (v # None => v[1] = r)
    BY <1>2 DEF Exec, IsolatedInv
  <2>2. /\ r \in Regs /\ (v # None => v \in Value)
    BY <2>1 DEF PairType
  <2>3. /\ regs' = (IF v = None THEN regs ELSE [regs EXCEPT ![r] = v])
        /\ abs' = [abs EXCEPT !.busy = FALSE, !.data0 = IF v = None THEN regs[r] ELSE v]
    BY <1>2, Zenon DEF Exec
  <2> DEFINE d == IF v = None THEN regs[r] ELSE v
  <2>4. d \in Value
    BY <2>2 DEF TypeInv
  <2>5. abs' = [abs EXCEPT !.busy = FALSE, !.data0 = d]
    BY <2>3, Zenon
  <2> HIDE DEF d, r, v
  <2>6. abs' = [busy |-> FALSE, cmderr |-> abs.cmderr, pair |-> abs.pair, data0 |-> d]
    BY <2>5 DEF TypeInv
  <2>7. abs' \in [busy : BOOLEAN, cmderr : {0, 1, 4}, pair : PairType \cup {<<>>}, data0 : Value]
    BY <2>4, <2>6 DEF TypeInv
  <2>8. regs' \in [Regs -> Value] /\ \A q \in Regs : regs'[q][1] = q
    <3>1. CASE v = None
      BY <2>3, <3>1 DEF TypeInv
    <3>2. CASE v # None
      BY <2>1, <2>2, <2>3, <3>2 DEF TypeInv
    <3> QED BY <3>1, <3>2
  <2> QED BY <1>1, <2>7, <2>8 DEF DataType, TypeInv
<1>3. ASSUME NEW rs, regs' = Clobber(rs), abs' = abs
      PROVE  DataType'
  <2>1. \A r \in Regs : <<r, "callee">> \in Value
    BY DEF Value, Kinds
  <2>2. regs' \in [Regs -> Value] /\ \A r \in Regs : regs'[r][1] = r
    BY <1>3, <2>1 DEF Clobber, TypeInv
  <2> QED BY <1>1, <1>3, <2>2 DEF DataType, TypeInv
<1>4. CASE HartHalts
  BY <1>1, <1>3, <1>4 DEF HartHalts, DataType, TypeInv
<1>5. CASE CalleeTraps
  BY <1>3, <1>5 DEF CalleeTraps
<1>6. CASE ProgramStops
  BY <1>1, <1>6 DEF ProgramStops, DataType, TypeInv
<1>7. CASE LeaveReset
  <2>1. \A r \in Regs : <<r, "app">> \in Value
    BY DEF Value, Kinds
  <2>2. regs' = [r \in Regs |-> <<r, "app">>] /\ abs' = abs
    BY <1>7 DEF LeaveReset
  <2> QED BY <1>1, <2>1, <2>2 DEF DataType, TypeInv
<1> QED BY <1>2, <1>4, <1>5, <1>6, <1>7 DEF Hart

-----------------------------------------------------------------------------
(***************************************************************************)
(* Second part: the calls                                                  *)
(***************************************************************************)
(***************************************************************************)
(* call_function                                                           *)
(***************************************************************************)

\* What was read at the entry, and what is to be put back.
ReadAll(n) == \A i \in DOMAIN SaveRegs(n) : vals[SaveRegs(n)[i]] = regs[SaveRegs(n)[i]]
Unchanged == before # None => hart = "halted" /\ regs = before
Called(n) ==
  /\ SavedInv(n) /\ trap /\ InCallee
  /\ hart \in {"running", "halted"}
  /\ hart = "halted" => regs["a0"] = <<"a0", "callee">>
Result(success) == ~dm.haltreq /\ (success => vals["a0"] = <<"a0", "callee">>)

Saving(n) ==
  \/ code = CallCode(n) /\ ~abs.busy
  \/ /\ Working(Reads(n)) /\ Tail(code) = <<Memory("trap"), Setup(n)>>
     /\ Unchanged
  \/ code = <<Memory("trap"), Setup(n)>> /\ Quiet /\ ReadAll(n) /\ Unchanged
  \/ code = <<Setup(n)>> /\ Quiet /\ ReadAll(n) /\ Unchanged /\ trap

SettingUp(n) ==
  /\ WorkingIn({SetupPairs(n)}) /\ Tail(code) = GoCode
  /\ hart = "halted" /\ trap /\ SavedInv(n)

GoCode2 == Tail(GoCode)
GoCode3 == Tail(GoCode2)
Going(n) ==
  \/ code = GoCode /\ Quiet /\ InCallee /\ SavedInv(n) /\ trap
  \/ code \in {GoCode2, GoCode3} /\ ~abs.busy /\ Called(n)
  \/ code = FinishCode /\ ~abs.busy /\ Called(n) /\ ~dm.haltreq

ReHaltCode2 == Tail(ReHaltCode)
ReHaltCode3 == Tail(ReHaltCode2)
ReHaltCode4 == Tail(ReHaltCode3)
ReHalting(n) ==
  \/ code \in {ReHaltCode, ReHaltCode2, ReHaltCode3} /\ ~abs.busy /\ Called(n)
  \/ code = ReHaltCode4 /\ ~abs.busy /\ Called(n) /\ ~dm.haltreq
  \/ code = <<Lost>> /\ ~abs.busy

Restoring(n) ==
  \/ /\ Working(A0) /\ Tail(code) = RestoreCode
     /\ hart = "halted" /\ Called(n) /\ ~dm.haltreq
  \/ \E success \in BOOLEAN :
       /\ code = <<Restore, Return(success)>>
       /\ Quiet /\ SavedInv(n) /\ trap /\ InCallee /\ Result(success)
  \/ \E success \in BOOLEAN :
       /\ WorkingIn({saved}) /\ Tail(code) = <<Return(success)>>
       /\ hart = "halted" /\ SavedInv(n) /\ trap /\ PutBack /\ Result(success)
  \/ \E success \in BOOLEAN :
       /\ code = <<Return(success)>>
       /\ Quiet /\ SavedInv(n) /\ Result(success)
       /\ \A i \in 1..Len(saved) : regs[saved[i][1]] = saved[i][2]

CallAt(n) ==
  /\ hart # "reset"
  /\ Saving(n) \/ SettingUp(n) \/ Going(n) \/ ReHalting(n) \/ Restoring(n)

(***************************************************************************)
(* The other calls                                                         *)
(***************************************************************************)
\* A halt that was asked for is not, or is no longer, what the hart waits for.
Released == ~dm.haltreq /\ (hart = "halted" => cause # "haltreq")
Suffixes(c) == {SubSeq(c, i, Len(c)) : i \in 1..Len(c)}

ExamineAt ==
  \/ code = ExamineCode
  \/ code \in {<<DmStatus>>, <<Write({"ackhavereset", "dmactive"})>>} /\ ~abs.busy
HaltAt ==
  /\ ~abs.busy
  /\ \/ code \in {HaltCode, Tail(HaltCode), <<Return(FALSE)>>}
     \/ code \in {<<Write({"dmactive"}), Memory("none")>>, <<Memory("none")>>} /\ hart = "halted"
ResumeAt ==
  \/ code \in {ResumeCode, <<Return(FALSE)>>}
  \/ code = Tail(ResumeCode) /\ ~dm.haltreq
  \/ code = <<Write({"dmactive"})>> /\ Released

\* The ways through the reset from ROM: no command is left over from before, and from
\* the reset on the program is a fresh one.
Fresh == ~abs.busy /\ (hart = "reset" \/ ~InCallee)
SocResetAt ==
  \/ code = SocResetCode
  \/ code = Tail(SocResetCode) /\ ~abs.busy
  \/ code \in Suffixes(Tail(Tail(SocResetCode))) /\ Fresh
SetEbreakAt ==
  /\ hart = "reset" \/ ~InCallee
  /\ \/ /\ Working(<<<<"dcsr", None>>>>)
        /\ Tail(code) = <<WriteRegister("dcsr", <<"dcsr", "ebreak">>)>>
     \/ Working(<<<<"dcsr", <<"dcsr", "ebreak">>>>>>) /\ Tail(code) = <<>>
EbreakSet == Quiet /\ ~InCallee /\ regs["dcsr"] = <<"dcsr", "ebreak">>
FreshRuns ==
  /\ Released /\ ~abs.busy /\ hart # "reset" /\ ~InCallee
  /\ regs["dcsr"] = <<"dcsr", "ebreak">>
ResumeGoAt ==
  \/ code = ResumeGoCode /\ EbreakSet
  \/ /\ code \in {Tail(ResumeGoCode), <<Write({"dmactive"}), Write({}), Return(FALSE)>>,
                  <<Write({"dmactive"}), Write({}), Return(TRUE)>>,
                  <<Write({}), Return(FALSE)>>, <<Write({}), Return(TRUE)>>,
                  <<Return(FALSE)>>, <<Return(TRUE)>>}
     /\ FreshRuns

CallInv(call) ==
  CASE call = "examine" -> ExamineAt
    [] call \in {"halt", "halt_if_running", "halt_or_exit"} -> HaltAt
    [] call \in {"resume", "resume_if_running"} -> ResumeAt
    [] call = "memory" -> code = <<Memory("none")>> /\ ~abs.busy
    [] call \in {"usb_reset", "reopen"} -> code = <<Memory("none")>>
    [] call = "read" -> Working(A0) /\ Tail(code) = <<>>
    [] call = "write" -> Working(<<<<"a0", <<"a0", "tool">>>>>>) /\ Tail(code) = <<>>
    [] call = "reset" -> code \in Suffixes(ResetCode)
    [] call = "soc_reset" -> SocResetAt
    [] call = "deassert" -> code \in {DeassertCode, Tail(DeassertCode),
                                      <<Write({"ackhavereset", "dmactive"})>>} /\ Fresh
    [] call = "halt_go" -> code \in Suffixes(HaltGoCode) /\ Fresh
    [] call = "set_ebreak" -> SetEbreakAt
    [] call = "resume_go" -> ResumeGoAt
    [] call = "call_0" -> CallAt(0)
    [] call = "call_1" -> CallAt(1)

CodeInv == code # <<>> => ~Idle /\ step > 1 /\ CallInv(This)

(***************************************************************************)
(* Between the calls of a tool                                             *)
(***************************************************************************)
Smoothly == ~Idle /\ code = <<>> /\ report = None
\* What holds when all calls before this one have returned, and none has raised.
BetweenInv ==
  /\ Smoothly /\ Calls(tool)[1] = "examine" /\ step \in 2..Len(Calls(tool)) => ~abs.busy
  /\ Smoothly /\ tool = "info" /\ step = 3 /\ ok => Quiet
  /\ Smoothly /\ tool = "info" /\ step = 4 => hart # "reset"
  /\ Smoothly /\ tool = "reset_from_rom" /\ step \in 5..7 => Fresh
  /\ Smoothly /\ tool = "reset_from_rom" /\ step = 8 => EbreakSet
  /\ Smoothly /\ tool = "reset_from_rom" /\ step = 9 => FreshRuns
  /\ Smoothly /\ tool \in Reading /\ step = Len(Calls(tool)) + 1 /\ ok /\ wasRunning => Released

\* An exception skips what is left, but for the resume of --info.
RaisedInv ==
  ~Idle /\ report # None => step >= IF tool = "info" THEN 5 ELSE Len(Calls(tool)) + 1

RunInv == TypeInv /\ IsolatedInv /\ CodeInv /\ BetweenInv /\ RaisedInv

-----------------------------------------------------------------------------
\* The codes, one access after the other.
Drop == Write({"dmactive"})
Stop == Write({"haltreq", "dmactive"})
Start == Write({"resumereq", "dmactive"})
Acknowledge == Write({"ackhavereset", "dmactive"})
ReHaltDrop == <<Drop, StillHalted, Restore, Return(FALSE)>>
GoDrop == <<Drop>> \o FinishCode

\* The codes of a call of a function.
LEMMA CallCodes ==
  /\ FinishCode = <<Poll("halted", ReHaltCode), ReadRegister("a0"), Restore, Return(TRUE)>>
  /\ ReHaltCode = <<Stop, Poll("halted", ReHaltDrop), Drop, StillHalted, Restore, Return(FALSE)>>
  /\ GoDrop = <<Drop, Poll("halted", ReHaltCode), ReadRegister("a0"), Restore, Return(TRUE)>>
  /\ GoCode = <<Start, Poll("acked", GoDrop), Drop, Poll("halted", ReHaltCode),
                ReadRegister("a0"), Restore, Return(TRUE)>>
<1>1. FinishCode = <<Poll("halted", ReHaltCode), ReadRegister("a0"), Restore, Return(TRUE)>>
  BY Join22 DEF FinishCode, RestoreCode
<1>2. GoDrop = <<Drop, Poll("halted", ReHaltCode), ReadRegister("a0"), Restore, Return(TRUE)>>
  BY <1>1, Join14 DEF GoDrop
<1>3. ReHaltCode = <<Stop, Poll("halted", ReHaltDrop)>> \o ReHaltDrop
  BY Zenon DEF ReHaltCode, Stop, Drop, ReHaltDrop
<1>4. GoCode = <<Start, Poll("acked", GoDrop)>> \o GoDrop
  BY Zenon DEF GoCode, Start, Drop, GoDrop
<1>5. ReHaltCode = <<Stop, Poll("halted", ReHaltDrop), Drop, StillHalted, Restore, Return(FALSE)>>
  <2> DEFINE p == Poll("halted", ReHaltDrop)  r == Return(FALSE)
  <2>1. ReHaltCode = <<Stop, p>> \o <<Drop, StillHalted, Restore, r>>
    BY <1>3 DEF ReHaltDrop
  <2> HIDE DEF p, r
  <2>2. ReHaltCode = <<Stop, p, Drop, StillHalted, Restore, r>>
    BY <2>1, Join24
  <2> QED BY <2>2 DEF p, r
<1>6. GoCode = <<Start, Poll("acked", GoDrop), Drop, Poll("halted", ReHaltCode),
                ReadRegister("a0"), Restore, Return(TRUE)>>
  <2> DEFINE p == Poll("acked", GoDrop)  q == Poll("halted", ReHaltCode)
             x == ReadRegister("a0")  r == Return(TRUE)
  <2>1. GoCode = <<Start, p>> \o <<Drop, q, x, Restore, r>>
    BY <1>2, <1>4
  <2> HIDE DEF p, q, x, r
  <2>2. GoCode = <<Start, p, Drop, q, x, Restore, r>>
    BY <2>1, Join25
  <2> QED BY <2>2 DEF p, q, x, r
<1> QED BY <1>1, <1>2, <1>5, <1>6

\* The codes of the reset from ROM.
LEMMA OtherCodes ==
  /\ DeassertCode = <<Drop, Poll("left", <<Acknowledge>>), Acknowledge>>
  /\ HaltGoCode = <<Stop, Poll("not_running", <<Drop>>), Drop>>
  /\ ResumeGoCode = <<Start, Poll("resumeack", <<Drop, Write({}), Return(FALSE)>>),
                      Drop, Write({}), Return(TRUE)>>
<1>1. /\ DeassertCode = <<Drop, Poll("left", <<Acknowledge>>)>> \o <<Acknowledge>>
      /\ HaltGoCode = <<Stop, Poll("not_running", <<Drop>>)>> \o <<Drop>>
      /\ ResumeGoCode = <<Start, Poll("resumeack", <<Drop, Write({}), Return(FALSE)>>)>>
                          \o <<Drop, Write({}), Return(TRUE)>>
  BY Zenon DEF DeassertCode, HaltGoCode, ResumeGoCode, Drop, Stop, Start, Acknowledge
<1> DEFINE p == Poll("left", <<Acknowledge>>)  q == Poll("not_running", <<Drop>>)
           r == Poll("resumeack", <<Drop, Write({}), Return(FALSE)>>)  w == Write({})  x == Return(TRUE)
<1> HIDE DEF p, q, r, w, x
<1>2. /\ <<Drop, p>> \o <<Acknowledge>> = <<Drop, p, Acknowledge>>
      /\ <<Stop, q>> \o <<Drop>> = <<Stop, q, Drop>>
      /\ <<Start, r>> \o <<Drop, w, x>> = <<Start, r, Drop, w, x>>
  BY Join21, Join23
<1> QED BY <1>1, <1>2 DEF p, q, r, w, x

\* The calls of each tool.
LEMMA CallsOf ==
  /\ Calls("read_memory") = <<"examine", "halt_if_running", "memory", "resume_if_running">>
  /\ Calls("read_register") = <<"examine", "halt_if_running", "read", "resume_if_running">>
  /\ Calls("probe") = <<"examine", "halt_if_running", "read", "memory", "resume_if_running">>
  /\ Calls("halt") = <<"examine", "halt">>
  /\ Calls("resume") = <<"examine", "resume">>
  /\ Calls("write_register") = <<"examine", "halt", "write", "read">>
  /\ Calls("write_memory") = <<"examine", "memory">>
  /\ Calls("reset_run") = <<"reset">>
  /\ Calls("reset_from_rom") = FromRomCalls
  /\ Calls("info") = <<"examine", "halt_or_exit", "call_0", "call_1", "resume">>
BY DEF Calls, ReadCalls, ControlCalls, ResetCalls, InfoCalls

-----------------------------------------------------------------------------
(***************************************************************************)
(* What a step of the host does, by the access that is next                *)
(***************************************************************************)
LEMMA Ops ==
  ASSUME NEW x, NEW y, NEW z
  PROVE  /\ Write(x).op = "write" /\ Write(x).bits = x
         /\ Poll(x, y).op = "poll" /\ Poll(x, y).until = x /\ Poll(x, y).missed = y
         /\ Memory(x).op = "memory" /\ Memory(x).effect = x
         /\ Access(x, y).op = "access"
         /\ Batch(x).op = "batch" /\ Batch(x).pairs = x
         /\ Check(x, y, z).op = "check"
         /\ Setup(x).op = "setup" /\ Setup(x).nargs = x
         /\ Restore.op = "restore" /\ Enter.op = "enter" /\ DmStatus.op = "status"
         /\ StillHalted.op = "halted" /\ Lost.op = "lost"
BY DEF Write, Poll, Memory, Access, Batch, Check, Setup, Restore, Enter, DmStatus, StillHalted, Lost

\* A result is what it is made of.
LEMMA ReturnOp ==
  \A success \in BOOLEAN : Return(success).op = "return" /\ Return(success).success = success
BY DEF Return

\* An exception drops what is left of the call.
Raises2 ==
  /\ code' = <<>> /\ polls' = 0 /\ report' = Raises
  /\ step' = IF tool = "info" /\ step \in 4..5 THEN 5 ELSE Len(Calls(tool)) + 1
  /\ UNCHANGED <<tool, wasRunning, vals, saved, ok>>

\* The next access says which action of the host is taken.
LEMMA HostStep ==
  ASSUME Host, code # <<>>, ~Idle
  PROVE  \/ Raise
         \/ Next1.op = "write" /\ DmWrite
         \/ Next1.op = "poll" /\ DmPoll
         \/ Next1.op = "status" /\ Status
         \/ Next1.op = "memory" /\ MemoryAccess
         \/ Next1.op \in {"enter", "return", "setup", "restore", "halted", "lost"} /\ Local
         \/ Next1.op \in {"access", "batch", "check"} /\ AccessStep
<1>1. ~\E t \in Tools : StartTool(t)
  BY DEF StartTool
<1>2. ~StartCall /\ ~EndTool
  BY DEF StartCall, EndTool
<1>3. CASE DmWrite
  BY <1>3 DEF DmWrite, Doing
<1>4. CASE DmPoll
  BY <1>4 DEF DmPoll, Doing
<1>5. CASE Status
  BY <1>5 DEF Status, Doing
<1>6. CASE MemoryAccess
  BY <1>6 DEF MemoryAccess, Doing
<1>7. CASE Local
  <2>1. Next1.op \in {"enter", "return", "setup", "restore", "halted", "lost"}
    BY <1>7, SMTT(30) DEF Local
  <2> QED BY <1>7, <2>1, SMTT(30)
<1>8. CASE CommandWrite \/ AbstractWait \/ DataRead
  BY <1>8, SMTT(30) DEF CommandWrite, AbstractWait, DataRead, At, Doing, AccessStep
<1>9. CASE BatchRun
  BY <1>9, Zenon DEF BatchRun, Doing, AccessStep
<1>10. CASE BatchCheck
  BY <1>10 DEF BatchCheck, Doing, AccessStep
<1> QED BY <1>1, <1>2, <1>3, <1>4, <1>5, <1>6, <1>7, <1>8, <1>9, <1>10, Zenon DEF Host

\* Writes of DMCONTROL.
LEMMA AnyWrite ==
  ASSUME TypeInv, DmWrite, NEW bits, Next1.bits = bits
  PROVE  /\ code' = Tail(code) /\ polls' = 0
         /\ UNCHANGED <<tool, step, report, ok, wasRunning, vals, saved, cause, regs, trap, before,
                        masked, machine, tools, troubles>>
         /\ ~abs.busy
         /\ hart' = IF "ndmreset" \in bits THEN "reset"
                    ELSE IF "resumereq" \in bits /\ "haltreq" \notin bits /\ hart = "halted"
                         THEN "running" ELSE hart
         /\ dm' \in [haltreq : BOOLEAN, ndmreset : BOOLEAN, resumeack : BOOLEAN, havereset : BOOLEAN]
         /\ dm'.haltreq = ("haltreq" \in bits)
         /\ ~abs'.busy /\ abs'.pair = abs.pair
         /\ abs' \in [busy : BOOLEAN, cmderr : {0, 1, 4}, pair : PairType \cup {<<>>}, data0 : Value]
<1> DEFINE resumes == "resumereq" \in bits /\ "haltreq" \notin bits
           h == "haltreq" \in bits
           n == "ndmreset" \in bits
           k == IF resumes THEN hart = "halted" ELSE dm.resumeack
           v == dm.havereset /\ "ackhavereset" \notin bits
           d == [haltreq |-> h, ndmreset |-> n, resumeack |-> k, havereset |-> v]
           a == IF "dmactive" \in bits THEN abs ELSE [abs EXCEPT !.busy = FALSE, !.cmderr = 0]
<1>2. /\ ~abs.busy /\ code' = Tail(code) /\ polls' = 0
      /\ dm' = d /\ abs' = a
      /\ hart' = IF "ndmreset" \in bits THEN "reset"
                 ELSE IF resumes /\ hart = "halted" THEN "running" ELSE hart
      /\ UNCHANGED <<Beside, ok, wasRunning, vals, saved, cause, regs, trap, before, Fixed>>
  BY DEF DmWrite, Proceed
<1>3. dm' \in [haltreq : BOOLEAN, ndmreset : BOOLEAN, resumeack : BOOLEAN, havereset : BOOLEAN]
      /\ dm'.haltreq = h
  <2>1. h \in BOOLEAN /\ n \in BOOLEAN /\ v \in BOOLEAN
    OBVIOUS
  <2>2. k \in BOOLEAN
    BY DEF TypeInv
  <2> HIDE DEF h, n, k, v
  <2> QED BY <1>2, <2>1, <2>2
<1>4. abs \in [busy : BOOLEAN, cmderr : {0, 1, 4}, pair : PairType \cup {<<>>}, data0 : Value]
  BY DEF TypeInv
<1>5. /\ ~abs'.busy /\ abs'.pair = abs.pair
      /\ abs' \in [busy : BOOLEAN, cmderr : {0, 1, 4}, pair : PairType \cup {<<>>}, data0 : Value]
  <2>1. CASE abs' = abs
    BY <1>2, <1>4, <2>1
  <2>2. CASE abs' = [abs EXCEPT !.busy = FALSE, !.cmderr = 0]
    <3>1. abs' = [busy |-> FALSE, cmderr |-> 0, pair |-> abs.pair, data0 |-> abs.data0]
      BY <1>4, <2>2
    <3> QED BY <1>4, <3>1
  <2> QED BY <1>2, <2>1, <2>2
<1> QED BY <1>2, <1>3, <1>5 DEF Beside, Fixed, bounds

\* The same for a write that is known.
LEMMA WriteDoes ==
  ASSUME TypeInv, DmWrite, NEW bits, Next1 = Write(bits)
  PROVE  /\ code' = Tail(code) /\ polls' = 0
         /\ UNCHANGED <<tool, step, report, ok, wasRunning, vals, saved, cause, regs, trap, before,
                        masked, machine, tools, troubles>>
         /\ ~abs.busy
         /\ hart' = IF "ndmreset" \in bits THEN "reset"
                    ELSE IF "resumereq" \in bits /\ "haltreq" \notin bits /\ hart = "halted"
                         THEN "running" ELSE hart
         /\ dm' \in [haltreq : BOOLEAN, ndmreset : BOOLEAN, resumeack : BOOLEAN, havereset : BOOLEAN]
         /\ dm'.haltreq = ("haltreq" \in bits)
         /\ ~abs'.busy /\ abs'.pair = abs.pair
         /\ abs' \in [busy : BOOLEAN, cmderr : {0, 1, 4}, pair : PairType \cup {<<>>}, data0 : Value]
<1>1. Next1.bits = bits
  BY Ops
<1> QED BY <1>1, AnyWrite, Zenon

\* A poll goes on, is served, or gives up.
LEMMA PollDoes ==
  ASSUME TypeInv, DmPoll, NEW until, NEW missed, Next1 = Poll(until, missed)
  PROVE  /\ UNCHANGED <<tool, step, report, ok, wasRunning, vals, saved, hart, cause, regs, dm, abs,
                        trap, before, masked, machine, tools, troubles>>
         /\ polls' \in 0..Polls
         /\ \/ Seen(until) /\ code' = Tail(code)
            \/ code' = code
            \/ code' = missed
<1>1. Next1.until = until /\ Next1.missed = missed
  BY Ops
<1>2. Polls \in Nat /\ Polls > 0
  BY RunControlAssumption
<1>3. /\ \/ Seen(until) /\ code' = Tail(code) /\ polls' = 0
         \/ polls + 1 < Polls /\ polls' = polls + 1 /\ code' = code
         \/ polls' = 0 /\ code' = missed
      /\ UNCHANGED <<Beside, ok, wasRunning, vals, saved, device, before, Fixed>>
  BY <1>1, Zenon DEF DmPoll, Proceed
<1> QED BY <1>2, <1>3 DEF Beside, device, Fixed, bounds, TypeInv

-----------------------------------------------------------------------------
(***************************************************************************)
(* The calls that write DMCONTROL and poll DMSTATUS                        *)
(***************************************************************************)
\* A step inside a call, without an exception.
CallStep == ~Idle /\ code # <<>> /\ ((Host /\ ~Raise) \/ Hart)

\* Heads and tails of short codes.
LEMMA CodeTail ==
  ASSUME NEW a, NEW b, NEW c, NEW d
  PROVE  /\ Head(<<a>>) = a /\ Tail(<<a>>) = <<>> /\ <<a>> # <<>>
         /\ Head(<<a, b>>) = a /\ Tail(<<a, b>>) = <<b>> /\ <<a, b>> # <<>>
         /\ Head(<<a, b, c>>) = a /\ Tail(<<a, b, c>>) = <<b, c>> /\ <<a, b, c>> # <<>>
         /\ Head(<<a, b, c, d>>) = a /\ Tail(<<a, b, c, d>>) = <<b, c, d>> /\ <<a, b, c, d>> # <<>>
OBVIOUS

\* The codes of examine, halt and resume.
LEMMA SimpleCodes ==
  /\ ExamineCode = <<Drop, DmStatus>>
  /\ HaltCode = <<Stop, Poll("halted", <<Return(FALSE)>>), Drop, Memory("none")>>
  /\ Tail(HaltCode) = <<Poll("halted", <<Return(FALSE)>>), Drop, Memory("none")>>
  /\ ResumeCode = <<Start, Poll("running", <<Return(FALSE)>>), Drop>>
  /\ Tail(ResumeCode) = <<Poll("running", <<Return(FALSE)>>), Drop>>
<1>1. ExamineCode = <<Drop, DmStatus>>
  BY Zenon DEF ExamineCode, Drop
<1>2. HaltCode = <<Stop, Poll("halted", <<Return(FALSE)>>), Drop, Memory("none")>>
  BY Zenon DEF HaltCode, Stop, Drop
<1>3. ResumeCode = <<Start, Poll("running", <<Return(FALSE)>>), Drop>>
  BY Zenon DEF ResumeCode, Start, Drop
<1>4. Tail(HaltCode) = <<Poll("halted", <<Return(FALSE)>>), Drop, Memory("none")>>
  BY <1>2, CodeTail
<1>5. Tail(ResumeCode) = <<Poll("running", <<Return(FALSE)>>), Drop>>
  BY <1>3, CodeTail
<1> QED BY <1>1, <1>2, <1>3, <1>4, <1>5

\* The three writes most calls are made of.
LEMMA DropDoes ==
  ASSUME TypeInv, DmWrite, Next1 = Drop
  PROVE  /\ code' = Tail(code) /\ hart' = hart /\ ~dm'.haltreq /\ ~abs.busy /\ ~abs'.busy
         /\ UNCHANGED <<tool, step, report, ok, vals, saved, cause, regs, trap, before, masked, machine>>
<1>1. "haltreq" \notin {"dmactive"} /\ "ndmreset" \notin {"dmactive"} /\ "resumereq" \notin {"dmactive"}
  OBVIOUS
<1>2. /\ code' = Tail(code) /\ ~abs.busy /\ ~abs'.busy
      /\ hart' = (IF "ndmreset" \in {"dmactive"} THEN "reset"
                  ELSE IF "resumereq" \in {"dmactive"} /\ "haltreq" \notin {"dmactive"} /\ hart = "halted"
                       THEN "running" ELSE hart)
      /\ dm'.haltreq = ("haltreq" \in {"dmactive"})
      /\ UNCHANGED <<tool, step, report, ok, wasRunning, vals, saved, cause, regs, trap, before,
                     masked, machine, tools, troubles>>
  BY WriteDoes, Zenon DEF Drop
<1> QED BY <1>1, <1>2

\* A halt request.
LEMMA StopDoes ==
  ASSUME TypeInv, DmWrite, Next1 = Stop
  PROVE  /\ code' = Tail(code) /\ hart' = hart /\ ~abs.busy /\ ~abs'.busy
         /\ UNCHANGED <<tool, step, report, ok, vals, saved, cause, regs, trap, before, masked, machine>>
<1> DEFINE b == {"haltreq", "dmactive"}
<1>1. "haltreq" \in b /\ "ndmreset" \notin b
  OBVIOUS
<1>2. /\ code' = Tail(code) /\ ~abs.busy /\ ~abs'.busy
      /\ hart' = (IF "ndmreset" \in b THEN "reset"
                  ELSE IF "resumereq" \in b /\ "haltreq" \notin b /\ hart = "halted"
                       THEN "running" ELSE hart)
      /\ UNCHANGED <<tool, step, report, ok, wasRunning, vals, saved, cause, regs, trap, before,
                     masked, machine, tools, troubles>>
  BY WriteDoes, Zenon DEF Stop
<1> QED BY <1>1, <1>2

\* A resume request.
LEMMA StartDoes ==
  ASSUME TypeInv, DmWrite, Next1 = Start
  PROVE  /\ code' = Tail(code) /\ hart' = (IF hart = "halted" THEN "running" ELSE hart)
         /\ ~dm'.haltreq /\ ~abs.busy /\ ~abs'.busy
         /\ UNCHANGED <<tool, step, report, ok, vals, saved, cause, regs, trap, before, masked, machine>>
<1> DEFINE b == {"resumereq", "dmactive"}
<1>1. "haltreq" \notin b /\ "ndmreset" \notin b /\ "resumereq" \in b
  OBVIOUS
<1>2. /\ code' = Tail(code) /\ ~abs.busy /\ ~abs'.busy
      /\ hart' = (IF "ndmreset" \in b THEN "reset"
                  ELSE IF "resumereq" \in b /\ "haltreq" \notin b /\ hart = "halted"
                       THEN "running" ELSE hart)
      /\ dm'.haltreq = ("haltreq" \in b)
      /\ UNCHANGED <<tool, step, report, ok, wasRunning, vals, saved, cause, regs, trap, before,
                     masked, machine, tools, troubles>>
  BY WriteDoes, Zenon DEF Start
<1> QED BY <1>1, <1>2

\* Memory and results, for the calls without a call of a function.
LEMMA MemoryDoes ==
  ASSUME MemoryAccess, NEW effect, Next1 = Memory(effect)
  PROVE  /\ code' = Tail(code) /\ polls' = 0
         /\ hart' = (IF effect = "reset" THEN "reset" ELSE hart)
         /\ trap' = (trap \/ effect = "trap")
         /\ UNCHANGED <<tool, step, report, ok, wasRunning, vals, saved, cause, regs, dm, abs, before,
                        masked, machine, tools, troubles>>
<1>1. Next1.effect = effect
  BY Ops
<1> QED BY <1>1 DEF MemoryAccess, Proceed, Beside, Fixed, bounds

\* A result.
LEMMA ReturnDoes ==
  ASSUME Local, NEW success \in BOOLEAN, Next1 = Return(success)
  PROVE  /\ code' = Tail(code) /\ ok' = success
         /\ UNCHANGED <<tool, step, report, wasRunning, vals, saved, hart, cause, regs, dm, abs, trap,
                        before, masked, machine, tools, troubles>>
<1>1. Next1.op = "return" /\ Next1.success = success
  BY ReturnOp
<1> QED BY <1>1 DEF Local, Proceed, device, Fixed, bounds

\* One step of examine.
LEMMA ExamineNext ==
  ASSUME TypeInv, IsolatedInv, ExamineAt, CallStep
  PROVE  ExamineAt' \/ (code' = <<>> /\ ~abs'.busy)
<1>1. CASE Hart
  <2>1. code' = code /\ (~abs.busy => abs' = abs)
    BY <1>1, HartDoes
  <2> QED BY <2>1 DEF ExamineAt
<1> SUFFICES ASSUME Host, ~Raise PROVE ExamineAt' \/ (code' = <<>> /\ ~abs'.busy)
  BY <1>1 DEF CallStep
<1> USE HostStep
<1>2. CASE code = ExamineCode
  <2>1. Next1 = Drop /\ Tail(code) = <<DmStatus>> /\ Next1.op = "write"
    BY <1>2, SimpleCodes, CodeTail, Ops, SMTT(30) DEF Next1, Drop
  <2>2. DmWrite
    BY <2>1 DEF CallStep
  <2> QED BY <2>1, <2>2, DropDoes DEF ExamineAt
<1>3. CASE code = <<DmStatus>> /\ ~abs.busy
  <2>1. Next1 = DmStatus /\ Tail(code) = <<>> /\ Next1.op = "status"
    BY <1>3, CodeTail, Ops DEF Next1
  <2>2. Status
    BY <2>1 DEF CallStep
  <2>3. code' = <<Acknowledge>> \o <<>> \/ code' = <<>> \o <<>>
    BY <2>1, <2>2 DEF Status, Acknowledge
  <2>4. <<Acknowledge>> \o <<>> = <<Acknowledge>> /\ <<>> \o <<>> = <<>>
    <3>1. <<Acknowledge>> \in Seq({Acknowledge}) /\ <<>> \in Seq({Acknowledge})
      OBVIOUS
    <3> QED BY <3>1, ConcatEmptySeq
  <2>5. abs' = abs
    BY <2>2 DEF Status, device
  <2> QED BY <1>3, <2>3, <2>4, <2>5 DEF ExamineAt, Acknowledge
<1>4. CASE code = <<Acknowledge>> /\ ~abs.busy
  <2>1. Next1 = Acknowledge /\ Tail(code) = <<>> /\ Next1.op = "write"
    BY <1>4, CodeTail, Ops DEF Next1, Acknowledge
  <2>2. DmWrite
    BY <2>1 DEF CallStep
  <2> QED BY <2>1, <2>2, WriteDoes DEF ExamineAt, Acknowledge
<1> QED BY <1>2, <1>3, <1>4 DEF ExamineAt, Acknowledge

\* One step of halt: when it reports success the hart is halted.
LEMMA HaltNext ==
  ASSUME TypeInv, IsolatedInv, HaltAt, CallStep
  PROVE  HaltAt' \/ (code' = <<>> /\ ~abs'.busy /\ (ok' => hart' = "halted"))
<1>1. CASE Hart
  <2>1. code' = code /\ abs' = abs /\ (hart = "halted" => hart' = "halted")
    BY <1>1, HartDoes DEF HaltAt
  <2> QED BY <2>1 DEF HaltAt
<1> SUFFICES ASSUME Host, ~Raise PROVE HaltAt' \/ (code' = <<>> /\ ~abs'.busy /\ (ok' => hart' = "halted"))
  BY <1>1 DEF CallStep
<1> USE HostStep
<1>2. CASE code = HaltCode
  <2>1. Next1 = Stop /\ Tail(code) = Tail(HaltCode) /\ Next1.op = "write"
    BY <1>2, SimpleCodes, CodeTail, Ops DEF Next1, Stop
  <2>2. DmWrite
    BY <2>1 DEF CallStep
  <2> QED BY <2>1, <2>2, StopDoes DEF HaltAt
<1>3. CASE code = Tail(HaltCode)
  <2>1. /\ Next1 = Poll("halted", <<Return(FALSE)>>) /\ Next1.op = "poll"
        /\ Tail(code) = <<Drop, Memory("none")>>
    BY <1>3, SimpleCodes, CodeTail, Ops DEF Next1
  <2>2. DmPoll
    BY <2>1 DEF CallStep
  <2>3. /\ hart' = hart /\ abs' = abs
        /\ \/ Seen("halted") /\ code' = <<Drop, Memory("none")>>
           \/ code' = code
           \/ code' = <<Return(FALSE)>>
    BY <2>1, <2>2, PollDoes
  <2>4. Seen("halted") => hart = "halted"
    BY DEF Seen
  <2> QED BY <1>3, <2>3, <2>4 DEF HaltAt, Drop
<1>4. CASE code = <<Return(FALSE)>>
  <2>1. Next1 = Return(FALSE) /\ Tail(code) = <<>> /\ Next1.op = "return"
    BY <1>4, CodeTail, ReturnOp DEF Next1
  <2>2. Local
    BY <2>1 DEF CallStep
  <2> QED BY <2>1, <2>2, ReturnDoes DEF HaltAt
<1>5. CASE code = <<Drop, Memory("none")>> /\ hart = "halted"
  <2>1. Next1 = Drop /\ Tail(code) = <<Memory("none")>> /\ Next1.op = "write"
    BY <1>5, CodeTail, Ops DEF Next1, Drop
  <2>2. DmWrite
    BY <2>1 DEF CallStep
  <2> QED BY <1>5, <2>1, <2>2, DropDoes DEF HaltAt
<1>6. CASE code = <<Memory("none")>> /\ hart = "halted"
  <2>1. Next1 = Memory("none") /\ Tail(code) = <<>> /\ Next1.op = "memory"
    BY <1>6, CodeTail, Ops DEF Next1
  <2>2. MemoryAccess
    BY <2>1 DEF CallStep
  <2>3. code' = <<>> /\ hart' = hart /\ abs' = abs
    <3>1. /\ code' = Tail(code) /\ abs' = abs
          /\ hart' = (IF "none" = "reset" THEN "reset" ELSE hart)
      BY <2>1, <2>2, MemoryDoes, Zenon
    <3> QED BY <2>1, <3>1
  <2> QED BY <1>6, <2>3 DEF HaltAt
<1> QED BY <1>2, <1>3, <1>4, <1>5, <1>6 DEF HaltAt, Drop

\* One step of resume: when it reports success no halt request is left.
LEMMA ResumeNext ==
  ASSUME TypeInv, IsolatedInv, ResumeAt, CallStep
  PROVE  ResumeAt' \/ (code' = <<>> /\ (ok' => Released'))
<1>1. CASE Hart
  <2>1. code' = code /\ dm'.haltreq = dm.haltreq
    BY <1>1, HartDoes
  <2>2. Released => Released'
    BY <1>1, HartDoes DEF Released
  <2> QED BY <2>1, <2>2 DEF ResumeAt
<1> SUFFICES ASSUME Host, ~Raise PROVE ResumeAt' \/ (code' = <<>> /\ (ok' => Released'))
  BY <1>1 DEF CallStep
<1> USE HostStep
<1>2. CASE code = ResumeCode
  <2>1. Next1 = Start /\ Tail(code) = Tail(ResumeCode) /\ Next1.op = "write"
    BY <1>2, SimpleCodes, CodeTail, Ops DEF Next1, Start
  <2>2. DmWrite
    BY <2>1 DEF CallStep
  <2> QED BY <2>1, <2>2, StartDoes DEF ResumeAt
<1>3. CASE code = Tail(ResumeCode) /\ ~dm.haltreq
  <2>1. /\ Next1 = Poll("running", <<Return(FALSE)>>) /\ Next1.op = "poll"
        /\ Tail(code) = <<Drop>>
    BY <1>3, SimpleCodes, CodeTail, Ops DEF Next1
  <2>2. DmPoll
    BY <2>1 DEF CallStep
  <2>3. /\ UNCHANGED <<hart, dm, cause>>
        /\ \/ Seen("running") /\ code' = <<Drop>>
           \/ code' = code
           \/ code' = <<Return(FALSE)>>
    BY <2>1, <2>2, PollDoes
  <2>4. Seen("running") => hart = "running"
    BY DEF Seen
  <2> QED BY <1>3, <2>3, <2>4 DEF ResumeAt, Drop, Released
<1>4. CASE code = <<Return(FALSE)>>
  <2>1. Next1 = Return(FALSE) /\ Tail(code) = <<>> /\ Next1.op = "return"
    BY <1>4, CodeTail, ReturnOp DEF Next1
  <2>2. Local
    BY <2>1 DEF CallStep
  <2> QED BY <2>1, <2>2, ReturnDoes DEF ResumeAt
<1>5. CASE code = <<Drop>> /\ Released
  <2>1. Next1 = Drop /\ Tail(code) = <<>> /\ Next1.op = "write"
    BY <1>5, CodeTail, Ops DEF Next1, Drop
  <2>2. DmWrite
    BY <2>1 DEF CallStep
  <2> QED BY <1>5, <2>1, <2>2, DropDoes DEF Released
<1> QED BY <1>2, <1>3, <1>4, <1>5 DEF ResumeAt, Drop

\* The accesses to registers, whatever step comes.
LEMMA WorkNext ==
  ASSUME TypeInv, IsolatedInv, NEW P, Proper(P), Working(P), CallStep,
         NEW S, NEW t \in Seq(S), Tail(code) = t
  PROVE  \/ GoesOn(P, t) /\ UNCHANGED <<step, report>>
         \/ Raises2
<1>1. CASE Hart
  <2>1. code' = code /\ UNCHANGED <<step, report>>
    BY <1>1, HartDoes
  <2>2. Exec \/ (hart # "halted" /\ abs' = abs)
    BY <1>1, HartDoes
  <2>3. StillWorking(P)
    <3>1. CASE Exec
      BY <3>1, ExecWorks, Zenon
    <3>2. CASE hart # "halted" /\ abs' = abs
      BY <2>1, <3>2, HartWorks
    <3> QED BY <2>2, <3>1, <3>2
  <2> QED BY <2>1, <2>3 DEF GoesOn
<1>2. CASE Host /\ ~Raise
  <2>1. Next1.op \in {"access", "batch", "check"}
    BY Ops DEF Working, WorkingOn
  <2>2. AccessStep
    BY <1>2, <2>1, HostStep DEF CallStep
  <2>3. \/ GoesOn(P, t) /\ UNCHANGED <<step, report>>
        \/ AbstractWait /\ Raised
    BY <2>2, AccessWorks, Zenon
  <2>4. Raised => Raises2
    BY DEF Raised, Raises2, Raises
  <2> QED BY <2>3, <2>4
<1> QED BY <1>1, <1>2 DEF CallStep

\* The code behind a single access.
LEMMA EmptyTail == <<>> \in Seq({<<>>})
OBVIOUS

\* One step of a memory access.
LEMMA MemoryNext ==
  ASSUME TypeInv, IsolatedInv, code = <<Memory("none")>>, CallStep
  PROVE  \/ code' = code /\ (~abs.busy => ~abs'.busy)
         \/ code' = <<>> /\ abs' = abs
<1>1. CASE Hart
  BY <1>1, HartDoes
<1>2. CASE Host /\ ~Raise
  <2>1. Next1 = Memory("none") /\ Tail(code) = <<>> /\ Next1.op = "memory"
    BY CodeTail, Ops DEF Next1
  <2>2. MemoryAccess
    BY <1>2, <2>1, HostStep DEF CallStep
  <2>3. code' = Tail(code) /\ abs' = abs
    BY <2>1, <2>2, MemoryDoes, Zenon
  <2> QED BY <2>1, <2>3
<1> QED BY <1>1, <1>2 DEF CallStep

\* What is left of a code is the rest of it, or nothing.
LEMMA SuffixStep ==
  ASSUME NEW S, NEW c \in Seq(S), code \in Suffixes(c)
  PROVE  /\ code # <<>> /\ \E i \in 1..Len(c) : Next1 = c[i]
         /\ Tail(code) \in Suffixes(c) \/ Tail(code) = <<>>
<1>1. PICK i \in 1..Len(c) : code = SubSeq(c, i, Len(c))
  BY DEF Suffixes
<1>2. Len(c) \in Nat
  OBVIOUS
<1>3. /\ code \in Seq(S) /\ Len(code) = Len(c) - i + 1
      /\ \A j \in 1..Len(c) - i + 1 : code[j] = c[i + j - 1]
  BY <1>1, <1>2, SubSeqProperties
<1>4. code # <<>>
  BY <1>2, <1>3
<1>5. Next1 = c[i]
  <2>1. Next1 = code[1]
    BY <1>3, <1>4, HeadTailProperties DEF Next1
  <2> QED BY <1>2, <1>3, <2>1
<1>6. Tail(code) \in Seq(S) /\ Len(Tail(code)) = Len(c) - i
      /\ \A j \in 1..Len(c) - i : Tail(code)[j] = code[j + 1]
  BY <1>2, <1>3, <1>4, HeadTailProperties
<1>7. CASE i = Len(c)
  <2>1. Len(Tail(code)) = 0
    BY <1>2, <1>6, <1>7
  <2>2. Tail(code) = <<>>
    BY <1>6, <2>1, EmptySeq
  <2> QED BY <1>4, <1>5, <2>2
<1>8. CASE i < Len(c)
  <2>1. i + 1 \in 1..Len(c)
    BY <1>2, <1>8
  <2> DEFINE r == SubSeq(c, i + 1, Len(c))
  <2>2. /\ r \in Seq(S) /\ Len(r) = Len(c) - i
        /\ \A j \in 1..Len(c) - i : r[j] = c[i + j]
    <3>1. /\ r \in Seq(S)
          /\ Len(r) = IF i + 1 <= Len(c) THEN Len(c) - (i + 1) + 1 ELSE 0
          /\ \A j \in 1..Len(c) - (i + 1) + 1 : r[j] = c[i + 1 + j - 1]
      BY <1>2, <2>1, SubSeqProperties
    <3> QED BY <1>2, <2>1, <3>1
  <2>3. \A j \in 1..Len(c) - i : Tail(code)[j] = r[j]
    BY <1>2, <1>3, <1>6, <2>2
  <2>4. Tail(code) = r
    <3> HIDE DEF r
    <3> QED BY <1>6, <2>2, <2>3, SeqEqual
  <2> QED BY <1>4, <1>5, <2>1, <2>4 DEF Suffixes
<1> QED BY <1>2, <1>7, <1>8

\* One step of the reset of reset_run.
LEMMA ResetNext ==
  ASSUME TypeInv, IsolatedInv, code \in Suffixes(ResetCode), CallStep
  PROVE  code' \in Suffixes(ResetCode) \cup {<<>>}
<1>1. CASE Hart
  BY <1>1, HartDoes
<1>2. CASE Host /\ ~Raise
  <2> DEFINE S == {Write({"dmactive"}), Write({"resumereq", "dmactive"}),
                   Write({"haltreq", "ndmreset", "dmactive"}), Write({"haltreq", "dmactive"}),
                   Write({"ackhavereset", "dmactive"}), Write({})}
  <2>1. ResetCode \in Seq(S)
    BY DEF ResetCode
  <2>2. \A x \in S : \E bits : x = Write(bits)
    BY Zenon
  <2>3. \A i \in 1..Len(ResetCode) : ResetCode[i] \in S
    BY <2>1
  <2> HIDE DEF S
  <2>4. /\ \E i \in 1..Len(ResetCode) : Next1 = ResetCode[i]
        /\ Tail(code) \in Suffixes(ResetCode) \cup {<<>>}
    BY <2>1, SuffixStep
  <2>5. PICK bits : Next1 = Write(bits)
    BY <2>2, <2>3, <2>4
  <2>6. DmWrite
    BY <1>2, <2>5, HostStep, Ops DEF CallStep
  <2>7. code' = Tail(code)
    BY <2>6 DEF DmWrite, Proceed
  <2> QED BY <2>4, <2>7
<1> QED BY <1>1, <1>2 DEF CallStep

\* A fresh program stays one.
LEMMA FreshHart ==
  ASSUME TypeInv, IsolatedInv, Hart, Fresh
  PROVE  Fresh' /\ code' = code
<1>1. code' = code
  BY HartDoes
<1>2. CASE hart = "running" /\ hart' = "halted" /\ abs' = abs
  <2>1. ~InCallee /\ regs' = regs
    <3>1. ~InCallee
      BY <1>2 DEF Fresh
    <3> QED BY <1>2, <3>1, HartDoes DEF Fresh
  <2> QED BY <1>1, <1>2, <2>1 DEF Fresh, InCallee, Program
<1>3. CASE hart = "reset" /\ abs' = abs /\ regs' = [r \in Regs |-> <<r, "app">>]
  <2>1. regs'["dpc"] = <<"dpc", "app">>
    BY <1>3 DEF Regs
  <2>2. ~InCallee'
    BY <2>1 DEF InCallee, Program
  <2> QED BY <1>1, <1>3, <2>2 DEF Fresh
<1> QED BY <1>2, <1>3, HartDoes DEF Fresh

\* No write of DMCONTROL brings the old program back.
LEMMA FreshWrite ==
  ASSUME TypeInv, DmWrite, Fresh, NEW bits, Next1 = Write(bits)
  PROVE  Fresh' /\ code' = Tail(code)
<1>1. /\ code' = Tail(code) /\ ~abs'.busy /\ regs' = regs
      /\ hart' = IF "ndmreset" \in bits THEN "reset"
                 ELSE IF "resumereq" \in bits /\ "haltreq" \notin bits /\ hart = "halted"
                      THEN "running" ELSE hart
  BY WriteDoes
<1>2. hart = "reset" => hart' = "reset"
  BY <1>1
<1> QED BY <1>1, <1>2 DEF Fresh, InCallee, Program

\* A code is a suffix of itself, and so is its last access.
LEMMA Ends ==
  ASSUME NEW S, NEW c \in Seq(S), c # <<>>
  PROVE  c \in Suffixes(c) /\ <<c[Len(c)]>> \in Suffixes(c)
<1>1. Len(c) \in Nat /\ Len(c) > 0
  BY EmptySeq
<1>2. SubSeq(c, 1, Len(c)) = c
  <2> DEFINE s == SubSeq(c, 1, Len(c))
  <2>1. s \in Seq(S) /\ Len(s) = Len(c) /\ \A j \in 1..Len(c) : s[j] = c[j]
    <3>1. /\ s \in Seq(S)
          /\ Len(s) = IF 1 <= Len(c) THEN Len(c) - 1 + 1 ELSE 0
          /\ \A j \in 1..Len(c) - 1 + 1 : s[j] = c[1 + j - 1]
      BY <1>1, SubSeqProperties
    <3> QED BY <1>1, <3>1
  <2> HIDE DEF s
  <2> QED BY <2>1, SeqEqual
<1>3. SubSeq(c, Len(c), Len(c)) = <<c[Len(c)]>>
  <2> DEFINE s == SubSeq(c, Len(c), Len(c))  x == c[Len(c)]
  <2>1. s \in Seq(S) /\ Len(s) = 1 /\ s[1] = x
    <3>1. /\ s \in Seq(S)
          /\ Len(s) = IF Len(c) <= Len(c) THEN Len(c) - Len(c) + 1 ELSE 0
          /\ \A j \in 1..Len(c) - Len(c) + 1 : s[j] = c[Len(c) + j - 1]
      BY <1>1, SubSeqProperties
    <3> QED BY <1>1, <3>1
  <2> HIDE DEF s
  <2>2. x \in S
    BY <1>1
  <2>3. <<x>> \in Seq(S) /\ Len(<<x>>) = 1 /\ <<x>>[1] = x
    BY <2>2
  <2> HIDE DEF x
  <2>4. s = <<x>>
    BY <2>1, <2>3, SeqEqual
  <2> QED BY <2>4 DEF s, x
<1> QED BY <1>1, <1>2, <1>3 DEF Suffixes

\* One step of the halt out of reset.
LEMMA HaltGoNext ==
  ASSUME TypeInv, IsolatedInv, code \in Suffixes(HaltGoCode), Fresh, CallStep
  PROVE  code' \in Suffixes(HaltGoCode) \cup {<<>>} /\ Fresh'
<1>1. CASE Hart
  BY <1>1, FreshHart
<1>2. CASE Host /\ ~Raise
  <2> DEFINE p == Poll("not_running", <<Drop>>)  S == {Stop, p, Drop}
  <2>1. HaltGoCode = <<Stop, p, Drop>>
    BY OtherCodes
  <2> HIDE DEF p
  <2>2. HaltGoCode \in Seq(S) /\ Len(HaltGoCode) = 3 /\ HaltGoCode # <<>> /\ HaltGoCode[3] = Drop
    BY <2>1
  <2>3. \A i \in 1..Len(HaltGoCode) : HaltGoCode[i] \in S
    BY <2>2
  <2>4. <<Drop>> \in Suffixes(HaltGoCode)
    BY <2>2, Ends
  <2> HIDE DEF S
  <2>5. /\ \E i \in 1..Len(HaltGoCode) : Next1 = HaltGoCode[i]
        /\ Tail(code) \in Suffixes(HaltGoCode) \cup {<<>>}
    BY <2>2, SuffixStep
  <2>6. Next1 \in {Stop, p, Drop}
    BY <2>3, <2>5 DEF S
  <2>7. CASE Next1 \in {Stop, Drop}
    <3>1. Next1.op = "write" /\ \E bits : Next1 = Write(bits)
      BY <2>7, Ops DEF Stop, Drop
    <3>2. DmWrite
      BY <1>2, <3>1, HostStep DEF CallStep
    <3> QED BY <2>5, <3>1, <3>2, FreshWrite
  <2>8. CASE Next1 = p
    <3>1. Next1 = Poll("not_running", <<Drop>>) /\ Next1.op = "poll"
      BY <2>8, Ops DEF p
    <3>2. DmPoll
      BY <1>2, <3>1, HostStep DEF CallStep
    <3>3. UNCHANGED <<abs, hart, regs>> /\ code' \in {Tail(code), code, <<Drop>>}
      BY <3>1, <3>2, PollDoes
    <3> QED BY <2>4, <2>5, <3>3 DEF Fresh, InCallee, Program
  <2> QED BY <2>6, <2>7, <2>8
<1> QED BY <1>1, <1>2 DEF CallStep

DeassertCodes == {DeassertCode, Tail(DeassertCode), <<Write({"ackhavereset", "dmactive"})>>}
\* One step of the release from reset.
LEMMA DeassertNext ==
  ASSUME TypeInv, IsolatedInv, code \in DeassertCodes, Fresh, CallStep
  PROVE  code' \in DeassertCodes \cup {<<>>} /\ Fresh'
<1>1. CASE Hart
  BY <1>1, FreshHart
<1>2. CASE Host /\ ~Raise
  <2> DEFINE p == Poll("left", <<Acknowledge>>)
  <2>1. DeassertCode = <<Drop, p, Acknowledge>>
    BY OtherCodes
  <2>2. <<Acknowledge>> \in DeassertCodes
    BY DEF DeassertCodes, Acknowledge
  <2>3. Tail(DeassertCode) = <<p, Acknowledge>>
    <3> HIDE DEF p
    <3> QED BY <2>1, CodeTail
  <2>4. code \in {DeassertCode, Tail(DeassertCode), <<Acknowledge>>}
    BY DEF DeassertCodes, Acknowledge
  <2>5. CASE code \in {DeassertCode, <<Acknowledge>>}
    <3>1. Next1 \in {Drop, Acknowledge} /\ Tail(code) \in {Tail(DeassertCode), <<>>}
      <4> HIDE DEF p
      <4>1. Head(DeassertCode) = Drop
        BY <2>1, CodeTail
      <4>2. Head(<<Acknowledge>>) = Acknowledge /\ Tail(<<Acknowledge>>) = <<>>
        BY CodeTail
      <4> QED BY <2>5, <4>1, <4>2 DEF Next1
    <3>2. Next1.op = "write" /\ \E bits : Next1 = Write(bits)
      BY <3>1, Ops, SMTT(30) DEF Acknowledge, Drop
    <3>3. DmWrite
      BY <1>2, <3>2, HostStep DEF CallStep
    <3>4. Tail(code) \in DeassertCodes \cup {<<>>}
      BY <3>1 DEF DeassertCodes
    <3> QED BY <3>2, <3>3, <3>4, FreshWrite
  <2>6. CASE code = Tail(DeassertCode)
    <3>1. Next1 = Poll("left", <<Acknowledge>>) /\ Next1.op = "poll" /\ Tail(code) = <<Acknowledge>>
      <4>1. p.op = "poll"
        BY Ops
      <4> HIDE DEF p
      <4>2. Head(<<p, Acknowledge>>) = p /\ Tail(<<p, Acknowledge>>) = <<Acknowledge>>
        BY CodeTail
      <4>3. Next1 = p
        BY <2>3, <2>6, <4>2 DEF Next1
      <4> QED BY <2>3, <2>6, <4>1, <4>2, <4>3 DEF p
    <3>2. DmPoll
      BY <1>2, <3>1, HostStep DEF CallStep
    <3>3. UNCHANGED <<abs, hart, regs>> /\ code' \in {Tail(code), code, <<Acknowledge>>}
      BY <3>1, <3>2, PollDoes
    <3> QED BY <2>2, <3>1, <3>3 DEF Fresh, InCallee, Program
  <2> QED BY <2>4, <2>5, <2>6
<1> QED BY <1>1, <1>2 DEF CallStep

\* Heads and tails of long codes.
LEMMA LongTails ==
  ASSUME NEW a, NEW b, NEW c, NEW d, NEW e, NEW f, NEW g, NEW h
  PROVE  /\ Tail(<<a, b, c, d, e, f, g, h>>) = <<b, c, d, e, f, g, h>>
         /\ Tail(<<b, c, d, e, f, g, h>>) = <<c, d, e, f, g, h>>
         /\ Head(<<a, b, c, d, e, f, g, h>>) = a /\ Head(<<b, c, d, e, f, g, h>>) = b
OBVIOUS

\* One step of the reset of the chip: after it the program is a fresh one.
LEMMA SocResetNext ==
  ASSUME TypeInv, IsolatedInv, SocResetAt, CallStep
  PROVE  SocResetAt' \/ (code' = <<>> /\ Fresh')
<1> DEFINE c == Tail(Tail(SocResetCode))  m == Memory("reset")  w == Write({})  x == Start
           y == Write({"haltreq", "ndmreset", "dmactive"})  S == {w, m, x, y}
<1>1. /\ SocResetCode = <<Stop, m, w, m, w, x, x, y>>
  BY Zenon DEF SocResetCode, Stop, Start
<1>2. Tail(SocResetCode) = <<m, w, m, w, x, x, y>>
  <2> HIDE DEF m, w, x, y
  <2> QED BY <1>1, LongTails
<1>3. c = <<w, m, w, x, x, y>>
  <2> HIDE DEF m, w, x, y
  <2>1. Tail(<<m, w, m, w, x, x, y>>) = <<w, m, w, x, x, y>>
    BY LongTails
  <2> QED BY <1>2, <2>1
<1>4. c \in Seq(S) /\ c # <<>> /\ Len(c) = 6
  <2> HIDE DEF m, w, x, y
  <2> HIDE DEF c
  <2>1. c = <<w, m, w, x, x, y>>
    BY <1>3
  <2> QED BY <2>1 DEF S
<1>5. \A z \in S : z = m \/ \E bits : z = Write(bits)
  BY Zenon DEF Start
<1>6. \A i \in 1..Len(c) : c[i] \in S
  <2> HIDE DEF c, S
  <2>1. c \in Seq(S)
    BY <1>4
  <2> QED BY <2>1, ElementOfSeq
<1> HIDE DEF m, w, x, y, S
<1>7. m = Memory("reset")
  BY DEF m
<1>8. CASE Hart
  <2>1. code' = code /\ (~abs.busy => ~abs'.busy)
    BY <1>8, HartDoes
  <2>2. Fresh => Fresh'
    BY <1>8, FreshHart
  <2> QED BY <2>1, <2>2 DEF SocResetAt
<1>9. CASE Host /\ ~Raise
  <2>1. CASE code = SocResetCode
    <3>1. Next1 = Stop /\ Tail(code) = Tail(SocResetCode) /\ Next1.op = "write"
      BY <1>1, <2>1, Ops DEF Next1, Stop
    <3>2. DmWrite
      BY <1>9, <2>1, <3>1, <1>1, HostStep DEF CallStep
    <3> QED BY <3>1, <3>2, StopDoes DEF SocResetAt
  <2>2. ASSUME Next1 = m PROVE hart' = "reset" /\ abs' = abs /\ code' = Tail(code)
    <3>1. MemoryAccess
      BY <1>9, <1>7, <2>2, Ops, HostStep DEF CallStep
    <3>2. hart' = (IF "reset" = "reset" THEN "reset" ELSE hart) /\ abs' = abs /\ code' = Tail(code)
      BY <1>7, <2>2, <3>1, MemoryDoes, Zenon
    <3> QED BY <3>2
  <2>3. CASE code = Tail(SocResetCode) /\ ~abs.busy
    <3>1. Next1 = m /\ Tail(code) = c
      <4>1. Head(<<m, w, m, w, x, x, y>>) = m
        BY LongTails
      <4> QED BY <1>2, <2>3, <4>1 DEF Next1
    <3>2. c \in Suffixes(c)
      BY <1>4, Ends
    <3> HIDE DEF c
    <3>3. code' \in Suffixes(c) /\ Fresh'
      BY <2>2, <2>3, <3>1, <3>2 DEF Fresh
    <3> QED BY <3>3 DEF SocResetAt, c
  <2>4. CASE code \in Suffixes(c) /\ Fresh
    <3> HIDE DEF c
    <3>1. /\ \E i \in 1..Len(c) : Next1 = c[i]
          /\ Tail(code) \in Suffixes(c) \cup {<<>>}
      BY <1>4, <2>4, SuffixStep
    <3>2. Next1 \in S
      BY <1>6, <3>1
    <3>3. Next1 = m \/ \E bits : Next1 = Write(bits)
      BY <1>5, <3>2
    <3>4. Fresh' /\ code' = Tail(code)
      <4>1. CASE Next1 = m
        BY <2>2, <2>4, <4>1 DEF Fresh
      <4>2. CASE \E bits : Next1 = Write(bits)
        <5>1. Next1.op = "write"
          BY <4>2, Ops
        <5>2. DmWrite
          BY <1>9, <5>1, HostStep DEF CallStep
        <5> QED BY <2>4, <4>2, <5>2, FreshWrite
      <4> QED BY <3>3, <4>1, <4>2
    <3> QED BY <3>1, <3>4 DEF SocResetAt, c
  <2> QED BY <2>1, <2>3, <2>4 DEF SocResetAt
<1> QED BY <1>8, <1>9 DEF CallStep

\* Accesses begin without a command in progress.
LEMMA Begins ==
  ASSUME NEW P, Proper(P), code' # <<>>, Head(code') \in {Batch(P), Slowly(P)}, ~abs'.busy
  PROVE  StillWorking(P)
<1>1. /\ P \in Seq(PairType) /\ Len(P) \in Nat /\ Len(P) > 0
  BY ProperKinds
<1>2. CASE Head(code') = Batch(P)
  <2>1. Head(code').op = "batch"
    BY <1>2, Ops
  <2>2. /\ WorkingOn(P)' /\ AccessInv' /\ CheckInv' /\ Progress(P)' /\ Pending(P)'
    BY <1>2, <2>1 DEF WorkingOn, AccessInv, CheckInv, Progress, Pending, Next1
  <2> QED BY <2>2 DEF StillWorking, Working
<1>3. CASE Head(code') = Slowly(P)
  <2>1. Head(code') = Access(P, "command")
    BY <1>3 DEF Slowly
  <2>2. Head(code').op = "access" /\ Head(code').pairs = P /\ Head(code').at = "command"
    BY <2>1 DEF Access
  <2>3. Suffix(P, P)
    BY <1>1 DEF Suffix
  <2>4. WorkingOn(P)'
    BY <2>1, <2>2, <2>3 DEF WorkingOn, Next1
  <2>5. AccessInv' /\ CheckInv'
    BY <2>2 DEF AccessInv, CheckInv, Next1
  <2>6. ~(Len(Head(code').pairs) < Len(P))
    BY <1>1, <2>2
  <2>7. Progress(P)' /\ Pending(P)'
    BY <2>6 DEF Progress, Pending, Next1
  <2> QED BY <2>4, <2>5, <2>7 DEF StillWorking, Working
<1> QED BY <1>2, <1>3

\* The registers other than these are what they were.
LEMMA WorkKeeps ==
  ASSUME TypeInv, IsolatedInv, NEW P, Proper(P), Working(P), CallStep, hart = "halted",
         NEW r \in Regs, \A i \in 1..Len(P) : P[i][1] # r \/ P[i][2] = None
  PROVE  hart' = hart /\ regs'[r] = regs[r]
<1>1. CASE Hart
  <2>1. Exec /\ abs.busy /\ hart' = hart
    BY <1>1, HartDoes
  <2>2. PICK k \in 1..Len(P) : abs.pair = P[k]
    BY <2>1 DEF Working, Pending
  <2>3. abs.pair \in PairType
    BY <2>1 DEF IsolatedInv
  <2>4. regs' = Completed(abs.pair)
    BY <2>1, <2>3, ExecDoes
  <2>5. regs \in [Regs -> Value]
    BY DEF TypeInv
  <2>6. P[k][1] # r \/ P[k][2] = None
    BY <2>2
  <2>7. regs'[r] = regs[r]
    BY <2>2, <2>4, <2>5, <2>6 DEF Completed
  <2> QED BY <2>1, <2>7
<1>2. CASE Host /\ ~Raise
  <2>1. Next1.op \in {"access", "batch", "check"}
    BY Ops DEF Working, WorkingOn
  <2>2. AccessStep
    BY <1>2, <2>1, HostStep DEF CallStep
  <2>3. hart' = hart
    BY <2>2, AccessFrame
  <2>4. PICK d \in 0..Len(P) : regs' = Written(SubSeq(P, 1, d))
    BY <2>2, AccessRegs DEF Working
  <2>5. Len(P) \in Nat
    BY ProperKinds
  <2>6. \A i \in 1..d : P[i][1] # r \/ P[i][2] = None
    BY <2>5
  <2>7. Written(SubSeq(P, 1, d))[r] = regs[r]
    BY <2>6, WrittenIs
  <2> QED BY <2>3, <2>4, <2>7
<1> QED BY <1>1, <1>2 DEF CallStep

\* The program stays what it is when other registers are accessed.
LEMMA WorkFresh ==
  ASSUME TypeInv, IsolatedInv, NEW P, Proper(P), Working(P), CallStep,
         \A i \in 1..Len(P) : P[i][1] # "dpc", hart = "reset" \/ ~InCallee
  PROVE  hart' = "reset" \/ ~InCallee'
<1>1. CASE hart = "halted"
  <2>1. "dpc" \in Regs
    BY DEF Regs
  <2>2. regs'["dpc"] = regs["dpc"]
    BY <1>1, <2>1, WorkKeeps
  <2> QED BY <1>1, <2>2 DEF InCallee, Program
<1>2. CASE hart # "halted" /\ Hart
  <2>1. \/ hart = "running" /\ ~InCallee /\ regs' = regs
        \/ regs' = [r \in Regs |-> <<r, "app">>]
    BY <1>2, HartDoes
  <2>2. regs' = [r \in Regs |-> <<r, "app">>] => regs'["dpc"] = <<"dpc", "app">>
    BY DEF Regs
  <2> QED BY <2>1, <2>2 DEF InCallee, Program
<1>3. CASE hart # "halted" /\ Host /\ ~Raise
  <2>1. Next1.op \in {"access", "batch", "check"}
    BY Ops DEF Working, WorkingOn
  <2>2. AccessStep
    BY <1>3, <2>1, HostStep DEF CallStep
  <2>3. hart' = hart
    BY <2>2, AccessFrame
  <2>4. regs' = regs
    BY <1>3, <2>2, AccessRegs DEF Working
  <2> QED BY <2>3, <2>4 DEF InCallee, Program
<1> QED BY <1>1, <1>2, <1>3 DEF CallStep

\* A call that accesses one register, and nothing else.
LEMMA OneRegisterNext ==
  ASSUME TypeInv, IsolatedInv, NEW P, Proper(P), Working(P), Tail(code) = <<>>, CallStep
  PROVE  \/ StillWorking(P) /\ Tail(code') = <<>>
         \/ code' = <<>> /\ (Quiet' \/ Raises2)
<1>1. \/ GoesOn(P, <<>>)
      \/ Raises2
  BY EmptyTail, WorkNext
<1> QED BY <1>1 DEF GoesOn, Raises2

EbreakRead == <<<<"dcsr", None>>>>
EbreakWrite == <<<<"dcsr", <<"dcsr", "ebreak">>>>>>
\* One step of _set_dcsr_ebreak: when it returns the ebreaks are on.
LEMMA SetEbreakNext ==
  ASSUME TypeInv, IsolatedInv, SetEbreakAt, CallStep
  PROVE  SetEbreakAt' \/ (code' = <<>> /\ (EbreakSet' \/ Raises2))
<1> DEFINE w == WriteRegister("dcsr", <<"dcsr", "ebreak">>)
<1>1. Proper(EbreakRead) /\ Proper(EbreakWrite)
  BY SingleProper DEF EbreakRead, EbreakWrite
<1>2. /\ \A i \in 1..Len(EbreakRead) : EbreakRead[i][1] # "dpc"
      /\ \A i \in 1..Len(EbreakWrite) : EbreakWrite[i][1] # "dpc"
  BY DEF EbreakRead, EbreakWrite
<1>3. w = Slowly(EbreakWrite)
  BY DEF WriteRegister, EbreakWrite
<1> HIDE DEF w
<1>4. CASE Working(EbreakRead) /\ Tail(code) = <<w>>
  <2>1. hart' = "reset" \/ ~InCallee'
    BY <1>1, <1>2, <1>4, WorkFresh DEF SetEbreakAt
  <2>2. <<w>> \in Seq({w})
    OBVIOUS
  <2>3. GoesOn(EbreakRead, <<w>>) \/ Raises2
    BY <1>1, <1>4, <2>2, WorkNext
  <2>4. CASE Raises2
    BY <2>4 DEF Raises2
  <2>5. CASE StillWorking(EbreakRead) /\ Tail(code') = <<w>>
    BY <2>1, <2>5 DEF SetEbreakAt, StillWorking, EbreakRead, w
  <2>6. CASE code' = <<w>> /\ Quiet'
    <3>1. Head(code') = w /\ Tail(code') = <<>> /\ code' # <<>> /\ ~abs'.busy
      BY <2>6, CodeTail DEF Quiet
    <3>2. StillWorking(EbreakWrite)
      BY <1>1, <1>3, <3>1, Begins
    <3> QED BY <2>1, <3>1, <3>2 DEF SetEbreakAt, StillWorking, EbreakWrite
  <2> QED BY <2>3, <2>4, <2>5, <2>6 DEF GoesOn
<1>5. CASE Working(EbreakWrite) /\ Tail(code) = <<>>
  <2>1. hart' = "reset" \/ ~InCallee'
    BY <1>1, <1>2, <1>5, WorkFresh DEF SetEbreakAt
  <2>2. GoesOn(EbreakWrite, <<>>) \/ Raises2
    BY <1>1, <1>5, EmptyTail, WorkNext
  <2>3. CASE Raises2
    BY <2>3 DEF Raises2
  <2>4. CASE StillWorking(EbreakWrite) /\ Tail(code') = <<>>
    BY <2>1, <2>4 DEF SetEbreakAt, StillWorking, EbreakWrite
  <2>5. CASE code' = <<>> /\ AllDone(EbreakWrite)' /\ Quiet'
    <3>1. regs'["dcsr"] = <<"dcsr", "ebreak">>
      <4>1. Len(EbreakWrite) = 1 /\ EbreakWrite[1] = <<"dcsr", <<"dcsr", "ebreak">>>>
        BY DEF EbreakWrite
      <4>2. Done(EbreakWrite[1])'
        BY <2>5, <4>1 DEF AllDone
      <4>3. <<"dcsr", "ebreak">> # None
        BY NoneAssumption DEF Value, Regs, Kinds
      <4> QED BY <4>1, <4>2, <4>3 DEF Done
    <3> QED BY <2>1, <2>5, <3>1 DEF EbreakSet, Quiet
  <2> QED BY <2>2, <2>3, <2>4, <2>5 DEF GoesOn
<1> QED BY <1>4, <1>5 DEF SetEbreakAt, EbreakRead, EbreakWrite, w

\* A fresh program that runs, or has stopped, stays one.
LEMMA FreshRunsHart ==
  ASSUME TypeInv, IsolatedInv, Hart, FreshRuns
  PROVE  FreshRuns' /\ code' = code
<1>1. /\ code' = code /\ dm'.haltreq = dm.haltreq
      /\ hart = "running" /\ hart' = "halted" /\ abs' = abs
      /\ cause' = "haltreq" => dm.haltreq
      /\ regs' = regs
  BY HartDoes DEF FreshRuns
<1> QED BY <1>1 DEF FreshRuns, Released, InCallee, Program

\* A halted hart without a command does nothing.
LEMMA QuietHart ==
  ASSUME TypeInv, IsolatedInv, Quiet
  PROVE  ~Hart
BY HartDoes DEF Quiet

\* One step of the resume after the reset.
LEMMA ResumeGoNext ==
  ASSUME TypeInv, IsolatedInv, ResumeGoAt, CallStep
  PROVE  ResumeGoAt' \/ (code' = <<>> /\ FreshRuns')
<1> DEFINE w == Write({})  f == Return(FALSE)  t == Return(TRUE)
           p == Poll("resumeack", <<Drop, w, f>>)
<1>1. p.op = "poll" /\ w.op = "write" /\ f.op = "return" /\ t.op = "return"
  <2>1. f.op = "return" /\ t.op = "return"
    BY ReturnOp, Zenon
  <2>2. w.op = "write"
    BY Ops
  <2> HIDE DEF w, f, t
  <2>3. p.op = "poll"
    BY Ops
  <2> QED BY <2>1, <2>2, <2>3
<1>2. ResumeGoCode = <<Start, p, Drop, w, t>>
  BY OtherCodes
<1> HIDE DEF w, f, t, p
<1>3. /\ Head(ResumeGoCode) = Start /\ Tail(ResumeGoCode) = <<p, Drop, w, t>>
      /\ ResumeGoCode # <<>>
  BY <1>2
<1>4. CASE Hart
  <2>1. ~EbreakSet
    BY <1>4, QuietHart DEF EbreakSet
  <2>2. FreshRuns => FreshRuns' /\ code' = code
    BY <1>4, FreshRunsHart
  <2> QED BY <2>1, <2>2 DEF ResumeGoAt
<1>5. CASE Host /\ ~Raise
  <2> USE HostStep
  <2>1. CASE code = ResumeGoCode /\ EbreakSet
    <3>1. Next1 = Start /\ Next1.op = "write" /\ Tail(code) = Tail(ResumeGoCode)
      BY <1>3, <2>1, Ops DEF Next1, Start
    <3>2. DmWrite
      BY <1>5, <3>1 DEF CallStep
    <3>3. FreshRuns'
      BY <2>1, <3>1, <3>2, StartDoes DEF EbreakSet, Quiet, FreshRuns, Released, InCallee, Program
    <3>4. code' = Tail(ResumeGoCode)
      BY <3>1, <3>2, StartDoes
    <3> QED BY <3>3, <3>4 DEF ResumeGoAt
  <2>2. ASSUME FreshRuns, Next1 \in {Drop, w} PROVE FreshRuns' /\ code' = Tail(code)
    <3>1. Next1.op = "write"
      BY <1>1, <2>2, Ops DEF Drop
    <3>2. DmWrite
      BY <1>5, <3>1 DEF CallStep
    <3>3. CASE Next1 = Drop
      BY <2>2, <3>2, <3>3, DropDoes DEF FreshRuns, Released, InCallee, Program
    <3>4. CASE Next1 = w
      <4>1. PICK bits : bits = {} /\ Next1 = Write(bits)
        BY <3>4 DEF w
      <4>2. /\ code' = Tail(code) /\ ~abs'.busy /\ regs' = regs /\ cause' = cause
            /\ hart' = (IF "ndmreset" \in bits THEN "reset"
                        ELSE IF "resumereq" \in bits /\ "haltreq" \notin bits /\ hart = "halted"
                             THEN "running" ELSE hart)
            /\ dm'.haltreq = ("haltreq" \in bits)
        BY <3>2, <4>1, WriteDoes, Zenon
      <4>3. hart' = hart /\ ~dm'.haltreq
        BY <4>1, <4>2
      <4> QED BY <2>2, <4>2, <4>3 DEF FreshRuns, Released, InCallee, Program
    <3> QED BY <2>2, <3>3, <3>4
  <2>3. CASE code = Tail(ResumeGoCode) /\ FreshRuns
    <3>1. Next1 = p /\ Tail(code) = <<Drop, w, t>>
      <4>1. Head(<<p, Drop, w, t>>) = p /\ Tail(<<p, Drop, w, t>>) = <<Drop, w, t>>
        BY CodeTail
      <4> QED BY <1>3, <2>3, <4>1 DEF Next1
    <3>2. DmPoll
      BY <1>1, <1>5, <3>1 DEF CallStep
    <3>3. Next1 = Poll("resumeack", <<Drop, w, f>>)
      BY <3>1 DEF p
    <3>4. UNCHANGED <<abs, hart, regs, dm, cause>> /\ code' \in {Tail(code), code, <<Drop, w, f>>}
      BY <3>2, <3>3, PollDoes
    <3>5. FreshRuns'
      BY <2>3, <3>4 DEF FreshRuns, Released, InCallee, Program
    <3>6. code' \in {<<Drop, w, t>>, <<Drop, w, f>>, Tail(ResumeGoCode)}
      BY <2>3, <3>1, <3>4
    <3> QED BY <3>5, <3>6 DEF ResumeGoAt, Drop, w, t, f
  <2>4. CASE code \in {<<Drop, w, f>>, <<Drop, w, t>>} /\ FreshRuns
    <3>1. Next1 = Drop /\ Tail(code) \in {<<w, f>>, <<w, t>>}
      <4>1. \A r : Head(<<Drop, w, r>>) = Drop /\ Tail(<<Drop, w, r>>) = <<w, r>>
        OBVIOUS
      <4> QED BY <2>4, <4>1 DEF Next1
    <3>2. FreshRuns' /\ code' \in {<<w, f>>, <<w, t>>}
      BY <2>2, <2>4, <3>1
    <3> QED BY <3>2 DEF ResumeGoAt, w, t, f
  <2>5. CASE code \in {<<w, f>>, <<w, t>>} /\ FreshRuns
    <3>1. Next1 = w /\ Tail(code) \in {<<f>>, <<t>>}
      <4>1. \A r : Head(<<w, r>>) = w /\ Tail(<<w, r>>) = <<r>>
        OBVIOUS
      <4> QED BY <2>5, <4>1 DEF Next1
    <3>2. FreshRuns' /\ code' \in {<<f>>, <<t>>}
      BY <2>2, <2>5, <3>1
    <3> QED BY <3>2 DEF ResumeGoAt, t, f
  <2>6. CASE code \in {<<f>>, <<t>>} /\ FreshRuns
    <3>1. Next1 \in {f, t} /\ Tail(code) = <<>>
      BY <2>6, CodeTail, Zenon DEF Next1
    <3>2. Local
      BY <1>1, <1>5, <3>1 DEF CallStep
    <3>3. \E success \in BOOLEAN : Next1 = Return(success)
      BY <3>1 DEF f, t
    <3>4. code' = Tail(code) /\ UNCHANGED <<abs, hart, regs, dm, cause>>
      BY <3>2, <3>3, ReturnDoes
    <3> QED BY <2>6, <3>1, <3>4 DEF FreshRuns, Released, InCallee, Program
  <2> QED BY <2>1, <2>3, <2>4, <2>5, <2>6 DEF ResumeGoAt, Drop, w, t, f
<1> QED BY <1>4, <1>5 DEF CallStep

-----------------------------------------------------------------------------
(***************************************************************************)
(* call_function                                                           *)
(***************************************************************************)
StillCalling(n) == CallAt(n)'
Returned == Raises2 \/ (~abs'.busy /\ hart' # "reset")
CallGoesOn(n) == StillCalling(n) \/ (code' = <<>> /\ Returned)

\* What accesses leave alone.
LEMMA WorkFrame ==
  ASSUME TypeInv, IsolatedInv, NEW P, Proper(P), Working(P), CallStep, hart # "reset"
  PROVE  /\ UNCHANGED <<saved, before, masked, machine, trap>> /\ dm'.haltreq = dm.haltreq
         /\ hart' # "reset" /\ (hart = "halted" => hart' = hart)
<1>1. CASE Hart
  BY <1>1, HartDoes
<1>2. CASE Host /\ ~Raise
  <2>1. Next1.op \in {"access", "batch", "check"}
    BY Ops DEF Working, WorkingOn
  <2>2. AccessStep
    BY <1>2, <2>1, HostStep DEF CallStep
  <2> QED BY <2>2, AccessFrame
<1> QED BY <1>1, <1>2 DEF CallStep

\* A register is what it was, or one of the values written to it.
LEMMA WorkWrites ==
  ASSUME TypeInv, IsolatedInv, NEW P, Proper(P), Working(P), CallStep, hart = "halted", NEW r \in Regs
  PROVE  \/ regs'[r] = regs[r]
         \/ \E i \in 1..Len(P) : P[i][1] = r /\ P[i][2] # None /\ regs'[r] = P[i][2]
<1>1. CASE Hart
  <2>1. Exec /\ abs.busy
    BY <1>1, HartDoes
  <2>2. PICK k \in 1..Len(P) : abs.pair = P[k]
    BY <2>1 DEF Working, Pending
  <2>3. abs.pair \in PairType
    BY <2>1 DEF IsolatedInv
  <2>4. regs' = Completed(P[k])
    BY <2>1, <2>2, <2>3, ExecDoes
  <2> QED BY <2>4, CompletedAt
<1>2. CASE Host /\ ~Raise
  <2>1. Next1.op \in {"access", "batch", "check"}
    BY Ops DEF Working, WorkingOn
  <2>2. AccessStep
    BY <1>2, <2>1, HostStep DEF CallStep
  <2>3. PICK d \in 0..Len(P) : regs' = Written(SubSeq(P, 1, d))
    BY <2>2, AccessRegs DEF Working
  <2>4. Len(P) \in Nat
    BY ProperKinds
  <2>5. \/ regs'[r] = regs[r]
        \/ \E i \in 1..d : P[i][1] = r /\ P[i][2] # None /\ regs'[r] = P[i][2]
    BY <2>3, WrittenAt
  <2>6. \A i \in 1..d : i \in 1..Len(P)
    BY <2>4
  <2> QED BY <2>5, <2>6
<1> QED BY <1>1, <1>2 DEF CallStep

\* A value is never None.
LEMMA SomeValue == \A v \in Value : v # None
BY NoneAssumption

\* The code a call begins with.
LEMMA CallCodeIs ==
  ASSUME NEW n \in {0, 1}
  PROVE  /\ CallCode(n) = <<Enter, Batch(Reads(n)), Memory("trap"), Setup(n)>>
         /\ CallCode(n) # <<>> /\ Head(CallCode(n)) = Enter
         /\ Tail(CallCode(n)) = <<Batch(Reads(n)), Memory("trap"), Setup(n)>>
<1>1. CallCode(n) = <<Enter, Batch(Reads(n)), Memory("trap"), Setup(n)>>
  BY Zenon DEF CallCode, Reads
<1> DEFINE b == Batch(Reads(n))  m == Memory("trap")  s == Setup(n)
<1>2. CallCode(n) = <<Enter, b, m, s>>
  BY <1>1
<1> HIDE DEF b, m, s
<1>3. /\ <<Enter, b, m, s>> # <<>> /\ Head(<<Enter, b, m, s>>) = Enter
      /\ Tail(<<Enter, b, m, s>>) = <<b, m, s>>
  BY CodeTail
<1> QED BY <1>1, <1>2, <1>3 DEF b, m, s

\* The entry: what the registers are.
LEMMA EntryNext ==
  ASSUME TypeInv, IsolatedInv, NEW n \in {0, 1}, CallStep, hart # "reset",
         code = CallCode(n), ~abs.busy
  PROVE  CallGoesOn(n)
<1> DEFINE b == Batch(Reads(n))  m == Memory("trap")  s == Setup(n)
<1>1. CASE Hart
  <2>1. code' = code /\ ~abs'.busy /\ hart' # "reset"
    BY <1>1, HartDoes
  <2> QED BY <2>1 DEF CallGoesOn, StillCalling, CallAt, Saving
<1>2. CASE Host /\ ~Raise
  <2>1. Next1 = Enter /\ Next1.op = "enter" /\ Tail(code) = <<b, m, s>>
    BY CallCodeIs, Ops DEF Next1
  <2>2. Local
    BY <1>2, <2>1, HostStep DEF CallStep
  <2>3. /\ code' = <<b, m, s>> /\ before' = (IF hart = "halted" THEN regs ELSE None)
        /\ UNCHANGED <<hart, regs, abs>>
    BY <2>1, <2>2 DEF Local, Proceed, device
  <2>4. b = Batch(Reads(n)) /\ m = Memory("trap") /\ s = Setup(n)
    OBVIOUS
  <2> HIDE DEF b, m, s
  <2>5. code' # <<>> /\ Head(code') = b /\ Tail(code') = <<m, s>>
    BY <2>3, CodeTail
  <2>6. StillWorking(Reads(n))
    BY <2>3, <2>4, <2>5, ReadsProper, Begins
  <2>7. Unchanged'
    BY <2>3 DEF Unchanged
  <2>8. Saving(n)'
    BY <2>4, <2>5, <2>6, <2>7 DEF Saving, StillWorking
  <2> QED BY <2>3, <2>8 DEF CallGoesOn, StillCalling, CallAt
<1> QED BY <1>1, <1>2 DEF CallStep

\* The registers are read.
LEMMA ReadingNext ==
  ASSUME TypeInv, IsolatedInv, NEW n \in {0, 1}, CallStep, hart # "reset",
         Working(Reads(n)), Tail(code) = <<Memory("trap"), Setup(n)>>, Unchanged
  PROVE  CallGoesOn(n)
<1> DEFINE m == Memory("trap")  s == Setup(n)  P == Reads(n)
<1>1. Proper(P) /\ \A i \in 1..Len(P) : P[i][2] = None
  BY ReadsProper
<1>2. /\ UNCHANGED before /\ hart' # "reset"
      /\ hart = "halted" => hart' = hart
  BY <1>1, WorkFrame
<1>3. Unchanged'
  <2>1. CASE before = None
    BY <1>2, <2>1 DEF Unchanged
  <2>2. CASE before # None
    <3>1. hart = "halted" /\ regs = before
      BY <2>2 DEF Unchanged
    <3>2. \A r \in Regs : regs'[r] = regs[r]
      BY <1>1, <3>1, WorkKeeps
    <3>3. regs \in [Regs -> Value]
      BY DEF TypeInv
    <3>4. regs' = regs
      <4>1. regs' \in [Regs -> Value]
        <5>1. CASE Hart
          BY <5>1, HartType DEF DataType
        <5>2. CASE Host /\ ~Raise
          <6>1. Next1.op \in {"access", "batch", "check"}
            BY Ops DEF Working, WorkingOn
          <6>2. AccessStep
            BY <5>2, <6>1, HostStep DEF CallStep
          <6> QED BY <1>1, <6>2, AccessType DEF DataType
        <5> QED BY <5>1, <5>2 DEF CallStep
      <4> QED BY <3>2, <3>3, <4>1
    <3> QED BY <1>2, <3>1, <3>4 DEF Unchanged
  <2> QED BY <2>1, <2>2
<1>4. <<m, s>> \in Seq({m, s})
  OBVIOUS
<1>5. m = Memory("trap") /\ s = Setup(n) /\ P = Reads(n)
  OBVIOUS
<1> HIDE DEF m, s, P
<1>6. GoesOn(P, <<m, s>>) \/ Raises2
  BY <1>1, <1>4, <1>5, WorkNext
<1>7. CASE Raises2
  BY <1>7 DEF CallGoesOn, Returned, Raises2
<1>8. CASE StillWorking(P) /\ Tail(code') = <<m, s>>
  <2>1. Saving(n)'
    BY <1>3, <1>5, <1>8 DEF Saving, StillWorking
  <2> QED BY <1>2, <2>1 DEF CallGoesOn, StillCalling, CallAt
<1>9. CASE code' = <<m, s>> /\ AllDone(P)' /\ Quiet'
  <2>1. ReadAll(n)'
    <3> SUFFICES ASSUME NEW i \in DOMAIN SaveRegs(n)
                 PROVE  vals'[SaveRegs(n)[i]] = regs'[SaveRegs(n)[i]]
      BY DEF ReadAll
    <3>1. i \in 1..Len(P) /\ P[i] = <<SaveRegs(n)[i], None>>
      <4>1. n = 0 \/ n = 1
        OBVIOUS
      <4>2. P = [j \in DOMAIN SaveRegs(n) |-> <<SaveRegs(n)[j], None>>]
        BY <1>5 DEF Reads
      <4>3. DOMAIN P = 1..Len(P)
        BY <1>1, ProperKinds, LenProperties
      <4> QED BY <4>2, <4>3
    <3>2. Done(P[i])'
      BY <1>9, <3>1 DEF AllDone
    <3> QED BY <3>1, <3>2 DEF Done
  <2>2. Saving(n)'
    BY <1>3, <1>5, <1>9, <2>1 DEF Saving
  <2> QED BY <1>2, <2>2 DEF CallGoesOn, StillCalling, CallAt
<1> QED BY <1>6, <1>7, <1>8, <1>9 DEF GoesOn

\* The ebreak is put where the function returns to.
LEMMA TrapNext ==
  ASSUME TypeInv, IsolatedInv, NEW n \in {0, 1}, CallStep, hart # "reset",
         code = <<Memory("trap"), Setup(n)>>, Quiet, ReadAll(n), Unchanged
  PROVE  CallGoesOn(n)
<1>1. ~Hart
  BY QuietHart
<1>2. Next1 = Memory("trap") /\ Next1.op = "memory" /\ Tail(code) = <<Setup(n)>>
  BY CodeTail, Ops DEF Next1
<1>3. MemoryAccess
  BY <1>1, <1>2, HostStep DEF CallStep
<1>4. /\ code' = Tail(code) /\ UNCHANGED <<vals, regs, abs, before>>
      /\ hart' = (IF "trap" = "reset" THEN "reset" ELSE hart)
      /\ trap' = (trap \/ "trap" = "trap")
  BY <1>2, <1>3, MemoryDoes, Zenon
<1>5. hart' = hart /\ trap'
  BY <1>4
<1>6. Quiet' /\ ReadAll(n)' /\ Unchanged'
  BY <1>4, <1>5 DEF Quiet, ReadAll, Unchanged
<1>7. Saving(n)'
  BY <1>2, <1>4, <1>5, <1>6 DEF Saving
<1> QED BY <1>5, <1>7 DEF CallGoesOn, StillCalling, CallAt

\* What the setup saves is what was read.
LEMMA SavedList ==
  ASSUME NEW n \in {0, 1}
  PROVE  /\ SaveRegs(n) \in Seq(Regs) /\ Len(SaveRegs(n)) \in {5, 6}
         /\ DOMAIN SaveRegs(n) = 1..Len(SaveRegs(n))
         /\ SaveRegs(n)[1] = "dpc" /\ SaveRegs(n)[2] = "dcsr" /\ SaveRegs(n)[3] = "mstatus"
<1>1. {"dpc", "dcsr", "mstatus", "ra", "sp", "a0"} \subseteq Regs
  BY DEF Regs
<1>2. CASE n = 0
  <2> DEFINE s == <<"dpc", "dcsr", "mstatus", "ra", "sp">>
  <2>1. SaveRegs(0) = s
    BY SavedRegs
  <2>2. /\ s \in Seq(Regs) /\ Len(s) = 5 /\ DOMAIN s = 1..5
        /\ s[1] = "dpc" /\ s[2] = "dcsr" /\ s[3] = "mstatus"
    BY <1>1
  <2> HIDE DEF s
  <2> QED BY <1>2, <2>1, <2>2
<1>3. CASE n = 1
  <2> DEFINE s == <<"dpc", "dcsr", "mstatus", "ra", "sp", "a0">>
  <2>1. SaveRegs(1) = s
    BY SavedRegs
  <2>2. /\ s \in Seq(Regs) /\ Len(s) = 6 /\ DOMAIN s = 1..6
        /\ s[1] = "dpc" /\ s[2] = "dcsr" /\ s[3] = "mstatus"
    BY <1>1
  <2> HIDE DEF s
  <2> QED BY <1>3, <2>1, <2>2
<1> QED BY <1>2, <1>3

\* What was read is kept, and the registers are set up.
LEMMA SetupNext ==
  ASSUME TypeInv, IsolatedInv, NEW n \in {0, 1}, CallStep, hart # "reset",
         code = <<Setup(n)>>, Quiet, ReadAll(n), Unchanged, trap
  PROVE  CallGoesOn(n)
<1>1. ~Hart
  BY QuietHart
<1>2. Next1 = Setup(n) /\ Next1.op = "setup" /\ Next1.nargs = n /\ Tail(code) = <<>>
  BY CodeTail, Ops DEF Next1
<1>3. Local
  BY <1>1, <1>2, HostStep DEF CallStep
<1> DEFINE save == SaveRegs(n)
<1>4. /\ saved' = [i \in DOMAIN save |-> <<save[i], vals[save[i]]>>]
      /\ code' = <<Batch(SetupPairs(n))>> \o GoCode
      /\ UNCHANGED <<before, hart, regs, abs, trap, masked, machine>>
  BY <1>2, <1>3 DEF Local, device, Fixed
<1>5. SavedInv(n)'
  <2>1. /\ save \in Seq(Regs) /\ Len(save) \in {5, 6} /\ DOMAIN save = 1..Len(save)
        /\ save[1] = "dpc" /\ save[2] = "dcsr" /\ save[3] = "mstatus"
    BY SavedList
  <2> HIDE DEF save
  <2>2. regs \in [Regs -> Value] /\ \A r \in Regs : regs[r][1] = r
    BY DEF TypeInv
  <2>3. \A i \in 1..Len(save) : save[i] \in Regs /\ vals[save[i]] = regs[save[i]]
    BY <2>1 DEF ReadAll, save
  <2>4. saved' = [i \in 1..Len(save) |-> <<save[i], regs[save[i]]>>]
    BY <1>4, <2>1, <2>3
  <2>5. \A i \in 1..Len(save) : <<save[i], regs[save[i]]>> \in PairType
    BY <2>2, <2>3 DEF PairType
  <2>6. saved' \in Seq(PairType) /\ Len(saved') = Len(save)
    BY <2>1, <2>4, <2>5
  <2>7. \A i \in 1..Len(save) :
          /\ saved'[i][1] = save[i]
          /\ saved'[i][2] \in Value /\ saved'[i][2][1] = saved'[i][1]
          /\ before # None => saved'[i][2] = before[saved'[i][1]]
    BY <2>2, <2>3, <2>4 DEF Unchanged
  <2>8. /\ saved'[1][2] = regs["dpc"] /\ saved'[2][2] = regs["dcsr"] /\ saved'[3][2] = regs["mstatus"]
    BY <2>1, <2>4
  <2>9. Isolated(regs)
    BY DEF IsolatedInv
  <2>10. Foreign(saved'[1][2]) =>
           /\ masked' \/ saved'[3][2] = <<"mstatus", "call">>
           /\ machine' \/ saved'[2][2] = <<"dcsr", "call">>
    <3>1. UNCHANGED <<masked, machine>>
      BY <1>4
    <3> QED BY <2>8, <2>9, <3>1 DEF Isolated
  <2>11. before' = before
    BY <1>4
  <2> QED BY <2>6, <2>7, <2>10, <2>11 DEF SavedInv, save
<1> DEFINE P == SetupPairs(n)
<1>6. Proper(P)
  BY SetupProper
<1>7. P \in {SetupPairs(n)}'
  BY <1>4 DEF SetupPairs
<1> HIDE DEF P
<1>8. Head(code') = Batch(P) /\ Tail(code') = GoCode /\ code' # <<>>
  <2>1. GoCode \in Seq({GoCode[i] : i \in 1..7})
    <3> DEFINE p == Poll("acked", GoDrop)  q == Poll("halted", ReHaltCode)
               x == ReadRegister("a0")  r == Return(TRUE)
    <3>1. GoCode = <<Start, p, Drop, q, x, Restore, r>>
      BY CallCodes
    <3> HIDE DEF p, q, x, r
    <3> QED BY <3>1
  <2>2. code' = <<Batch(P)>> \o GoCode
    BY <1>4 DEF P
  <2> QED BY <2>1, <2>2, Front
<1>9. WorkingIn({SetupPairs(n)})'
  <2>1. ~abs'.busy
    BY <1>4 DEF Quiet
  <2>2. PICK Q : Q = P
    OBVIOUS
  <2>3. StillWorking(Q)
    BY <1>6, <1>8, <2>1, <2>2, Begins
  <2> QED BY <1>7, <2>2, <2>3 DEF WorkingIn, StillWorking
<1>10. SettingUp(n)'
  BY <1>4, <1>5, <1>8, <1>9 DEF SettingUp, Quiet
<1> QED BY <1>4, <1>10 DEF CallGoesOn, StillCalling, CallAt

\* What is set up stays, until the function is entered.
LEMMA SettingNext ==
  ASSUME TypeInv, IsolatedInv, NEW n \in {0, 1}, CallStep, hart # "reset", SettingUp(n)
  PROVE  CallGoesOn(n)
<1>1. PICK P : P = SetupPairs(n)
  OBVIOUS
<1>2. Working(P) /\ Proper(P) /\ P[Len(P)] = Set("dpc")
  BY <1>1, SetupProper DEF SettingUp, WorkingIn
<1>3. /\ UNCHANGED <<saved, before, masked, machine, trap, hart>>
  BY <1>2, WorkFrame DEF SettingUp
<1>4. trap' /\ hart' = "halted" /\ SavedInv(n)'
  BY <1>3 DEF SettingUp, SavedInv
<1>5. P \in {SetupPairs(n)}'
  BY <1>1, <1>3 DEF SetupPairs
<1>6. GoCode \in Seq({GoCode[i] : i \in 1..7}) /\ Tail(code) = GoCode
  <2> DEFINE p == Poll("acked", GoDrop)  q == Poll("halted", ReHaltCode)
             x == ReadRegister("a0")  r == Return(TRUE)
  <2>1. GoCode = <<Start, p, Drop, q, x, Restore, r>>
    BY CallCodes
  <2>2. Tail(code) = GoCode
    BY DEF SettingUp
  <2> HIDE DEF p, q, x, r
  <2> QED BY <2>1, <2>2
<1>7. GoesOn(P, GoCode) \/ Raises2
  BY <1>2, <1>6, WorkNext
<1>8. CASE Raises2
  BY <1>8 DEF CallGoesOn, Returned, Raises2
<1>9. CASE StillWorking(P) /\ Tail(code') = GoCode
  <2>1. WorkingIn({SetupPairs(n)})'
    BY <1>5, <1>9 DEF WorkingIn, StillWorking
  <2>2. SettingUp(n)'
    BY <1>4, <1>9, <2>1 DEF SettingUp
  <2> QED BY <1>4, <2>2 DEF CallGoesOn, StillCalling, CallAt
<1>10. CASE code' = GoCode /\ AllDone(P)' /\ Quiet'
  <2>1. Len(P) \in 1..Len(P)
    BY <1>2, ProperKinds
  <2>2. Done(P[Len(P)])'
    BY <1>10, <2>1 DEF AllDone
  <2>3. <<"dpc", "call">> # None
    BY NoneAssumption DEF Value, Regs, Kinds
  <2>4. regs'["dpc"] = <<"dpc", "call">>
    BY <1>2, <2>2, <2>3 DEF Done, Set
  <2>5. InCallee'
    BY <2>4 DEF InCallee, Program
  <2>6. Going(n)'
    BY <1>4, <1>10, <2>5 DEF Going
  <2> QED BY <1>4, <2>6 DEF CallGoesOn, StillCalling, CallAt
<1> QED BY <1>7, <1>8, <1>9, <1>10 DEF GoesOn

\* The codes of the call that runs, one access at a time.
LEMMA CallTails ==
  /\ GoCode # <<>> /\ Head(GoCode) = Start /\ Tail(GoCode) = GoCode2
  /\ GoCode2 # <<>> /\ Head(GoCode2) = Poll("acked", GoCode3) /\ Tail(GoCode2) = GoCode3
  /\ GoCode3 # <<>> /\ Head(GoCode3) = Drop /\ Tail(GoCode3) = FinishCode
  /\ FinishCode # <<>> /\ Head(FinishCode) = Poll("halted", ReHaltCode)
  /\ Tail(FinishCode) = <<ReadRegister("a0"), Restore, Return(TRUE)>>
  /\ ReHaltCode # <<>> /\ Head(ReHaltCode) = Stop /\ Tail(ReHaltCode) = ReHaltCode2
  /\ ReHaltCode2 # <<>> /\ Head(ReHaltCode2) = Poll("halted", ReHaltCode3)
  /\ Tail(ReHaltCode2) = ReHaltCode3
  /\ ReHaltCode3 = ReHaltDrop /\ ReHaltCode3 # <<>> /\ Head(ReHaltCode3) = Drop
  /\ Tail(ReHaltCode3) = ReHaltCode4
  /\ ReHaltCode4 = <<StillHalted, Restore, Return(FALSE)>>
<1> DEFINE p == Poll("acked", GoDrop)  q == Poll("halted", ReHaltCode)
           x == ReadRegister("a0")  t == Return(TRUE)  f == Return(FALSE)
           r == Poll("halted", ReHaltDrop)
<1>1. /\ GoCode = <<Start, p, Drop, q, x, Restore, t>>
      /\ GoDrop = <<Drop, q, x, Restore, t>>
      /\ FinishCode = <<q, x, Restore, t>>
  BY CallCodes
<1>2. ReHaltCode = <<Stop, r, Drop, StillHalted, Restore, f>>
  BY CallCodes
<1>3. ReHaltDrop = <<Drop, StillHalted, Restore, f>>
  BY Zenon DEF ReHaltDrop
<1>4. p = Poll("acked", GoDrop) /\ r = Poll("halted", ReHaltDrop)
  OBVIOUS
<1>5. q = Poll("halted", ReHaltCode) /\ x = ReadRegister("a0")
  OBVIOUS
<1>6. t = Return(TRUE) /\ f = Return(FALSE)
  BY Zenon
<1> HIDE DEF p, q, x, t, f, r
<1>7. /\ GoCode # <<>> /\ Head(GoCode) = Start /\ GoCode2 = <<p, Drop, q, x, Restore, t>>
  BY <1>1 DEF GoCode2
<1>8. /\ GoCode2 # <<>> /\ Head(GoCode2) = p /\ GoCode3 = <<Drop, q, x, Restore, t>>
  BY <1>7 DEF GoCode3
<1>9. GoCode3 = GoDrop
  BY <1>1, <1>8
<1>10. GoCode3 # <<>> /\ Head(GoCode3) = Drop /\ Tail(GoCode3) = FinishCode
  BY <1>1, <1>8
<1>11. FinishCode # <<>> /\ Head(FinishCode) = q /\ Tail(FinishCode) = <<x, Restore, t>>
  BY <1>1
<1>12. ReHaltCode # <<>> /\ Head(ReHaltCode) = Stop /\ ReHaltCode2 = <<r, Drop, StillHalted, Restore, f>>
  BY <1>2 DEF ReHaltCode2
<1>13. ReHaltCode2 # <<>> /\ Head(ReHaltCode2) = r /\ ReHaltCode3 = <<Drop, StillHalted, Restore, f>>
  BY <1>12 DEF ReHaltCode3
<1>14. ReHaltCode3 = ReHaltDrop /\ ReHaltCode3 # <<>> /\ Head(ReHaltCode3) = Drop
  BY <1>3, <1>13
<1>15. ReHaltCode4 = <<StillHalted, Restore, f>>
  BY <1>13 DEF ReHaltCode4
<1>16. Tail(GoCode) = GoCode2 /\ Tail(GoCode2) = GoCode3 /\ Tail(ReHaltCode) = ReHaltCode2
  BY Zenon DEF GoCode2, GoCode3, ReHaltCode2
<1>17. Tail(ReHaltCode2) = ReHaltCode3 /\ Tail(ReHaltCode3) = ReHaltCode4
  BY Zenon DEF ReHaltCode3, ReHaltCode4
<1>18. /\ Head(GoCode2) = Poll("acked", GoCode3) /\ Head(FinishCode) = Poll("halted", ReHaltCode)
       /\ Head(ReHaltCode2) = Poll("halted", ReHaltCode3)
  BY <1>4, <1>5, <1>8, <1>9, <1>11, <1>13, <1>14
<1>19. Tail(FinishCode) = <<ReadRegister("a0"), Restore, Return(TRUE)>>
  BY <1>5, <1>6, <1>11, Zenon
<1>20. ReHaltCode4 = <<StillHalted, Restore, Return(FALSE)>>
  BY <1>6, <1>15, Zenon
<1> QED BY <1>7, <1>8, <1>10, <1>11, <1>12, <1>13, <1>14, <1>16, <1>17, <1>18, <1>19, <1>20

\* What a call of a function rests on does not depend on what the hart does.
LEMMA CalledHart ==
  ASSUME TypeInv, IsolatedInv, NEW n \in {0, 1}, Hart, Called(n), ~abs.busy
  PROVE  Called(n)' /\ code' = code /\ ~abs'.busy /\ dm'.haltreq = dm.haltreq /\ hart' # "reset"
<1>1. /\ code' = code /\ UNCHANGED <<saved, before, masked, machine, abs, trap>>
      /\ dm'.haltreq = dm.haltreq /\ hart' = "halted"
      /\ regs'["dpc"] = <<"dpc", "callee">> /\ regs'["a0"] = <<"a0", "callee">>
  BY HartDoes DEF Called
<1>2. SavedInv(n)' /\ InCallee'
  BY <1>1 DEF Called, SavedInv, InCallee, Program
<1> QED BY <1>1, <1>2 DEF Called

\* A step that leaves these variables alone leaves the function called.
LEMMA CalledSame ==
  ASSUME NEW n \in {0, 1}, Called(n), UNCHANGED <<saved, before, masked, machine, trap, hart, regs>>
  PROVE  Called(n)'
<1>1. SavedInv(n)' /\ InCallee'
  BY DEF Called, SavedInv, InCallee, Program
<1> QED BY <1>1 DEF Called

\* The function runs.
LEMMA GoingNext ==
  ASSUME TypeInv, IsolatedInv, NEW n \in {0, 1}, CallStep, hart # "reset", Going(n)
  PROVE  CallGoesOn(n)
<1>1. ASSUME Going(n)' \/ ReHalting(n)' \/ Restoring(n)', hart' # "reset" PROVE CallGoesOn(n)
  BY <1>1 DEF CallGoesOn, StillCalling, CallAt
<1>2. CASE Hart
  <2>1. ~(code = GoCode /\ Quiet)
    BY <1>2, QuietHart
  <2>2. /\ Called(n)' /\ code' = code /\ ~abs'.busy /\ dm'.haltreq = dm.haltreq
        /\ hart' # "reset"
    BY <1>2, <2>1, CalledHart DEF Going
  <2>3. Going(n)'
    BY <2>1, <2>2 DEF Going
  <2> QED BY <1>1, <2>2, <2>3
<1>3. CASE Host /\ ~Raise
  <2> USE HostStep
  <2>1. CASE code = GoCode /\ Quiet /\ InCallee /\ SavedInv(n) /\ trap
    <3>1. Next1 = Start /\ Next1.op = "write" /\ Tail(code) = GoCode2
      <4>1. Next1 = Start /\ Tail(code) = GoCode2
        BY <2>1, CallTails, Zenon DEF Next1
      <4> QED BY <4>1, Ops DEF Start
    <3>2. DmWrite
      BY <1>3, <3>1 DEF CallStep
    <3>3. /\ code' = GoCode2 /\ hart' = "running" /\ ~abs'.busy
          /\ UNCHANGED <<saved, before, masked, machine, trap, regs>>
      BY <2>1, <3>1, <3>2, StartDoes DEF Quiet
    <3>4. Called(n)'
      <4>1. SavedInv(n)' /\ InCallee'
        BY <2>1, <3>3 DEF SavedInv, InCallee, Program
      <4> QED BY <2>1, <3>3, <4>1 DEF Called
    <3>5. Going(n)'
      BY <3>3, <3>4 DEF Going
    <3> QED BY <1>1, <3>3, <3>5
  <2>2. CASE code = GoCode2 /\ ~abs.busy /\ Called(n)
    <3>1. Next1 = Poll("acked", GoCode3) /\ Next1.op = "poll" /\ Tail(code) = GoCode3
      <4>1. Next1 = Poll("acked", GoCode3) /\ Tail(code) = GoCode3
        BY <2>2, CallTails, Zenon DEF Next1
      <4> QED BY <4>1, Ops
    <3>2. DmPoll
      BY <1>3, <3>1 DEF CallStep
    <3>3. /\ code' \in {GoCode2, GoCode3}
          /\ UNCHANGED <<saved, before, masked, machine, trap, hart, regs, abs>>
      BY <2>2, <3>1, <3>2, PollDoes
    <3>4. Called(n)'
      BY <2>2, <3>3, CalledSame
    <3>5. Going(n)'
      BY <2>2, <3>3, <3>4 DEF Going
    <3> QED BY <1>1, <3>3, <3>5
  <2>3. CASE code = GoCode3 /\ ~abs.busy /\ Called(n)
    <3>1. Next1 = Drop /\ Next1.op = "write" /\ Tail(code) = FinishCode
      <4>1. Next1 = Drop /\ Tail(code) = FinishCode
        BY <2>3, CallTails, Zenon DEF Next1
      <4> QED BY <4>1, Ops DEF Drop
    <3>2. DmWrite
      BY <1>3, <3>1 DEF CallStep
    <3>3. /\ code' = FinishCode /\ ~dm'.haltreq /\ ~abs'.busy
          /\ UNCHANGED <<saved, before, masked, machine, trap, hart, regs>>
      BY <3>1, <3>2, DropDoes
    <3>4. Called(n)'
      BY <2>3, <3>3, CalledSame
    <3>5. Going(n)'
      BY <3>3, <3>4 DEF Going
    <3> QED BY <1>1, <3>3, <3>5
  <2>4. CASE code = FinishCode /\ ~abs.busy /\ Called(n) /\ ~dm.haltreq
    <3>1. Next1 = Poll("halted", ReHaltCode) /\ Next1.op = "poll" /\ Tail(code) = Tail(FinishCode)
      <4>1. Next1 = Poll("halted", ReHaltCode) /\ Tail(code) = Tail(FinishCode)
        BY <2>4, CallTails, Zenon DEF Next1
      <4> QED BY <4>1, Ops
    <3>2. DmPoll
      BY <1>3, <3>1 DEF CallStep
    <3>3. /\ \/ Seen("halted") /\ code' = Tail(FinishCode)
             \/ code' = FinishCode
             \/ code' = ReHaltCode
          /\ UNCHANGED <<saved, before, masked, machine, trap, hart, regs, abs, dm>>
      BY <2>4, <3>1, <3>2, PollDoes
    <3>4. Called(n)'
      BY <2>4, <3>3, CalledSame
    <3>5. CASE code' = FinishCode
      <4>1. Going(n)'
        BY <2>4, <3>3, <3>4, <3>5 DEF Going
      <4> QED BY <1>1, <3>3, <4>1
    <3>6. CASE code' = ReHaltCode
      <4>1. ReHalting(n)'
        BY <2>4, <3>3, <3>4, <3>6 DEF ReHalting
      <4> QED BY <1>1, <3>3, <4>1
    <3>7. CASE Seen("halted") /\ code' = Tail(FinishCode)
      <4> DEFINE x == ReadRegister("a0")  t == Return(TRUE)
      <4>1. code' = <<x, Restore, t>> /\ RestoreCode = <<Restore, t>>
        BY <3>7, CallTails, Zenon DEF RestoreCode
      <4>2. x = Slowly(A0)
        BY DEF ReadRegister, A0
      <4> HIDE DEF x, t
      <4>3. Head(code') = x /\ Tail(code') = RestoreCode /\ code' # <<>>
        BY <4>1, CodeTail
      <4>4. StillWorking(A0)
        BY <2>4, <3>3, <4>2, <4>3, SingleProper, Begins
      <4>5. hart' = "halted"
        BY <3>3, <3>7 DEF Seen
      <4>6. Restoring(n)'
        BY <2>4, <3>3, <3>4, <4>3, <4>4, <4>5 DEF Restoring, StillWorking
      <4> QED BY <1>1, <4>5, <4>6
    <3> QED BY <3>3, <3>5, <3>6, <3>7
  <2> QED BY <2>1, <2>2, <2>3, <2>4 DEF Going
<1> QED BY <1>2, <1>3 DEF CallStep

\* The function has not come back, and is halted where it is.
LEMMA ReHaltingNext ==
  ASSUME TypeInv, IsolatedInv, NEW n \in {0, 1}, CallStep, hart # "reset", ReHalting(n)
  PROVE  CallGoesOn(n)
<1>1. ASSUME ReHalting(n)' \/ Restoring(n)', hart' # "reset" PROVE CallGoesOn(n)
  BY <1>1 DEF CallGoesOn, StillCalling, CallAt
<1>2. CASE Hart
  <2>1. CASE code = <<Lost>>
    <3>1. code' = code /\ ~abs'.busy /\ hart' # "reset"
      BY <1>2, HartDoes DEF ReHalting
    <3>2. ReHalting(n)'
      BY <2>1, <3>1 DEF ReHalting
    <3> QED BY <1>1, <3>1, <3>2
  <2>2. CASE code # <<Lost>>
    <3>1. /\ Called(n)' /\ code' = code /\ ~abs'.busy /\ dm'.haltreq = dm.haltreq
          /\ hart' # "reset"
      BY <1>2, <2>2, CalledHart DEF ReHalting
    <3>2. ReHalting(n)'
      BY <2>2, <3>1 DEF ReHalting
    <3> QED BY <1>1, <3>1, <3>2
  <2> QED BY <2>1, <2>2
<1>3. CASE Host /\ ~Raise
  <2> USE HostStep
  <2>1. CASE code = ReHaltCode /\ ~abs.busy /\ Called(n)
    <3>1. Next1 = Stop /\ Next1.op = "write" /\ Tail(code) = ReHaltCode2
      <4>1. Next1 = Stop /\ Tail(code) = ReHaltCode2
        BY <2>1, CallTails, Zenon DEF Next1
      <4> QED BY <4>1, Ops DEF Stop
    <3>2. DmWrite
      BY <1>3, <3>1 DEF CallStep
    <3>3. /\ code' = ReHaltCode2 /\ ~abs'.busy
          /\ UNCHANGED <<saved, before, masked, machine, trap, hart, regs>>
      BY <3>1, <3>2, StopDoes
    <3>4. Called(n)'
      BY <2>1, <3>3, CalledSame
    <3>5. ReHalting(n)'
      BY <3>3, <3>4 DEF ReHalting
    <3> QED BY <1>1, <3>3, <3>5
  <2>2. CASE code = ReHaltCode2 /\ ~abs.busy /\ Called(n)
    <3>1. Next1 = Poll("halted", ReHaltCode3) /\ Next1.op = "poll" /\ Tail(code) = ReHaltCode3
      <4>1. Next1 = Poll("halted", ReHaltCode3) /\ Tail(code) = ReHaltCode3
        BY <2>2, CallTails, Zenon DEF Next1
      <4> QED BY <4>1, Ops
    <3>2. DmPoll
      BY <1>3, <3>1 DEF CallStep
    <3>3. /\ code' \in {ReHaltCode2, ReHaltCode3}
          /\ UNCHANGED <<saved, before, masked, machine, trap, hart, regs, abs>>
      BY <2>2, <3>1, <3>2, PollDoes
    <3>4. Called(n)'
      BY <2>2, <3>3, CalledSame
    <3>5. ReHalting(n)'
      BY <2>2, <3>3, <3>4 DEF ReHalting
    <3> QED BY <1>1, <3>3, <3>5
  <2>3. CASE code = ReHaltCode3 /\ ~abs.busy /\ Called(n)
    <3>1. Next1 = Drop /\ Next1.op = "write" /\ Tail(code) = ReHaltCode4
      <4>1. Next1 = Drop /\ Tail(code) = ReHaltCode4
        BY <2>3, CallTails, Zenon DEF Next1
      <4> QED BY <4>1, Ops DEF Drop
    <3>2. DmWrite
      BY <1>3, <3>1 DEF CallStep
    <3>3. /\ code' = ReHaltCode4 /\ ~dm'.haltreq /\ ~abs'.busy
          /\ UNCHANGED <<saved, before, masked, machine, trap, hart, regs>>
      BY <3>1, <3>2, DropDoes
    <3>4. Called(n)'
      BY <2>3, <3>3, CalledSame
    <3>5. ReHalting(n)'
      BY <3>3, <3>4 DEF ReHalting
    <3> QED BY <1>1, <3>3, <3>5
  <2>4. CASE code = ReHaltCode4 /\ ~abs.busy /\ Called(n) /\ ~dm.haltreq
    <3> DEFINE f == Return(FALSE)
    <3>1. code = <<StillHalted, Restore, f>>
      BY <2>4, CallTails, Zenon
    <3> HIDE DEF f
    <3>2. Next1 = StillHalted /\ Next1.op = "halted" /\ Tail(code) = <<Restore, f>>
      BY <3>1, CodeTail, Ops DEF Next1
    <3>3. Local
      BY <1>3, <3>2 DEF CallStep
    <3>4. /\ code' = IF hart = "halted" THEN <<Restore, f>> ELSE <<Lost>>
          /\ UNCHANGED <<saved, before, masked, machine, trap, hart, regs, abs, dm>>
      BY <3>2, <3>3 DEF Local, device, Fixed
    <3>5. CASE hart = "halted"
      <4>1. Called(n)'
        BY <2>4, <3>4, CalledSame
      <4>2. /\ Quiet' /\ SavedInv(n)' /\ trap' /\ InCallee' /\ ~dm'.haltreq
        BY <2>4, <3>4, <3>5, <4>1 DEF Quiet, Called
      <4>3. \E success \in BOOLEAN : success = FALSE /\ code' = <<Restore, Return(success)>>
        BY <3>4, <3>5, Zenon DEF f
      <4>4. Restoring(n)'
        BY <4>2, <4>3 DEF Restoring, Result
      <4> QED BY <1>1, <3>4, <4>4
    <3>6. CASE hart # "halted"
      <4>1. ReHalting(n)'
        BY <2>4, <3>4, <3>6 DEF ReHalting
      <4> QED BY <1>1, <3>4, <4>1
    <3> QED BY <3>5, <3>6
  <2>5. CASE code = <<Lost>> /\ ~abs.busy
    <3>1. Next1 = Lost /\ Next1.op = "lost" /\ Tail(code) = <<>>
      BY <2>5, CodeTail, Ops DEF Next1
    <3>2. Local
      BY <1>3, <3>1 DEF CallStep
    <3>3. code' = <<>> /\ UNCHANGED <<hart, abs>>
      BY <3>1, <3>2 DEF Local, Proceed, device
    <3> QED BY <2>5, <3>3 DEF CallGoesOn, Returned
  <2> QED BY <2>1, <2>2, <2>3, <2>4, <2>5 DEF ReHalting
<1> QED BY <1>2, <1>3 DEF CallStep

\* Codes that end with a result.
LEMMA ReturnTail == \A success \in BOOLEAN :
  /\ <<Return(success)>> \in Seq({Return(success)})
  /\ <<Return(success)>> # <<>> /\ Head(<<Return(success)>>) = Return(success)
  /\ Tail(<<Return(success)>>) = <<>>
  /\ <<Restore, Return(success)>> # <<>> /\ Head(<<Restore, Return(success)>>) = Restore
  /\ Tail(<<Restore, Return(success)>>) = <<Return(success)>>
<1>1. \A r : /\ <<r>> \in Seq({r}) /\ <<r>> # <<>> /\ Head(<<r>>) = r /\ Tail(<<r>>) = <<>>
             /\ <<Restore, r>> # <<>> /\ Head(<<Restore, r>>) = Restore
             /\ Tail(<<Restore, r>>) = <<r>>
  OBVIOUS
<1> QED BY <1>1, Zenon

\* The result is read.
LEMMA ResultNext ==
  ASSUME TypeInv, IsolatedInv, NEW n \in {0, 1}, CallStep, hart = "halted",
         Working(A0), Tail(code) = RestoreCode, Called(n), ~dm.haltreq
  PROVE  CallGoesOn(n)
<1>1. Proper(A0) /\ Len(A0) = 1 /\ A0[1] = <<"a0", None>>
  BY SingleProper DEF A0
<1>2. /\ UNCHANGED <<saved, before, masked, machine, trap, hart>> /\ dm'.haltreq = dm.haltreq
  BY <1>1, WorkFrame
<1>3. regs'["dpc"] = regs["dpc"] /\ regs'["a0"] = regs["a0"]
  <2>1. "dpc" \in Regs /\ "a0" \in Regs
    BY DEF Regs
  <2>2. \A i \in 1..Len(A0) : A0[i][2] = None
    BY <1>1
  <2> QED BY <1>1, <2>1, <2>2, WorkKeeps
<1>4. Called(n)'
  <2>1. SavedInv(n)' /\ InCallee'
    BY <1>2, <1>3 DEF Called, SavedInv, InCallee, Program
  <2> QED BY <1>2, <1>3, <2>1 DEF Called
<1>5. GoesOn(A0, RestoreCode) \/ Raises2
  <2>1. \E success \in BOOLEAN : success = TRUE /\ RestoreCode = <<Restore, Return(success)>>
    BY Zenon DEF RestoreCode
  <2>2. \A r : <<Restore, r>> \in Seq({Restore, r})
    OBVIOUS
  <2>3. \E S : RestoreCode \in Seq(S)
    BY <2>1, <2>2, Zenon
  <2> QED BY <1>1, <2>3, WorkNext
<1>6. CASE Raises2
  BY <1>6 DEF CallGoesOn, Returned, Raises2
<1>7. CASE StillWorking(A0) /\ Tail(code') = RestoreCode
  <2>1. Restoring(n)'
    BY <1>2, <1>4, <1>7 DEF Restoring, StillWorking
  <2> QED BY <1>2, <2>1 DEF CallGoesOn, StillCalling, CallAt
<1>8. CASE code' = RestoreCode /\ AllDone(A0)' /\ Quiet'
  <2>1. vals'["a0"] = regs'["a0"]
    <3>1. 1 \in 1..Len(A0)
      BY <1>1
    <3>2. Done(A0[1])'
      BY <1>8, <3>1 DEF AllDone
    <3> QED BY <1>1, <3>2 DEF Done
  <2>2. vals'["a0"] = <<"a0", "callee">>
    BY <1>3, <2>1 DEF Called
  <2>3. \E success \in BOOLEAN : code' = <<Restore, Return(success)>>
    BY <1>8, Zenon DEF RestoreCode
  <2>4. \A success \in BOOLEAN : Result(success)'
    BY <1>2, <2>2 DEF Result
  <2>5. SavedInv(n)' /\ trap' /\ InCallee'
    BY <1>4 DEF Called
  <2>6. Restoring(n)'
    BY <1>8, <2>3, <2>4, <2>5 DEF Restoring
  <2> QED BY <1>2, <2>6 DEF CallGoesOn, StillCalling, CallAt
<1> QED BY <1>5, <1>6, <1>7, <1>8 DEF GoesOn

\* The registers are put back.
LEMMA RestoreNext ==
  ASSUME TypeInv, IsolatedInv, NEW n \in {0, 1}, CallStep, NEW success \in BOOLEAN,
         code = <<Restore, Return(success)>>,
         Quiet, SavedInv(n), trap, InCallee, Result(success)
  PROVE  CallGoesOn(n)
<1>1. ~Hart
  BY QuietHart
<1>2. Next1 = Restore /\ Next1.op = "restore" /\ Tail(code) = <<Return(success)>>
  BY ReturnTail, Zenon, Ops DEF Next1
<1>3. Local
  BY <1>1, <1>2, HostStep DEF CallStep
<1>4. /\ code' = <<Batch(saved)>> \o Tail(code)
      /\ UNCHANGED <<saved, vals, before, hart, regs, abs, dm, trap, masked, machine>>
  BY <1>2, <1>3 DEF Local, device, Fixed
<1>5. Head(code') = Batch(saved) /\ Tail(code') = Tail(code) /\ code' # <<>>
  <2>1. Tail(code) \in Seq({Return(success)})
    BY <1>2, ReturnTail, Zenon
  <2> QED BY <1>4, <2>1, Front
<1>6. Proper(saved) /\ saved \in {saved}'
  BY <1>4, SavedProper
<1>7. WorkingIn({saved})'
  <2>1. ~abs'.busy
    BY <1>4 DEF Quiet
  <2>2. PICK Q : Q = saved
    OBVIOUS
  <2>3. StillWorking(Q)
    BY <1>5, <1>6, <2>1, <2>2, Begins
  <2> QED BY <1>6, <2>2, <2>3 DEF WorkingIn, StillWorking
<1>8. SavedInv(n)' /\ PutBack' /\ trap' /\ hart' = "halted"
  BY <1>4 DEF SavedInv, PutBack, InCallee, Program, Quiet
<1>9. Result(success)'
  BY <1>4, Zenon DEF Result
<1>10. Restoring(n)'
  <2>1. Tail(code') = <<Return(success)>>
    BY <1>2, <1>5
  <2> QED BY <1>7, <1>8, <1>9, <2>1, Zenon DEF Restoring
<1> QED BY <1>8, <1>10 DEF CallGoesOn, StillCalling, CallAt

\* A write reads nothing.
LEMMA WritesRead ==
  ASSUME TypeInv, IsolatedInv, NEW P, Proper(P), Working(P), CallStep,
         \A i \in 1..Len(P) : P[i][2] # None, NEW r \in Regs
  PROVE  vals'[r] = vals[r]
<1>1. CASE Hart
  BY <1>1, HartDoes
<1>2. CASE Host /\ ~Raise
  <2>1. Next1.op \in {"access", "batch", "check"}
    BY Ops DEF Working, WorkingOn
  <2>2. AccessStep
    BY <1>2, <2>1, HostStep DEF CallStep
  <2>3. WorkingOn(P) /\ DOMAIN P = 1..Len(P)
    BY ProperKinds, LenProperties DEF Working
  <2>4. CASE BatchCheck
    <3>1. Next1.op = "check"
      BY <2>4 DEF BatchCheck, Doing
    <3>2. Next1.pairs = P
      <4>1. Next1 = Check(P, Next1.got, Next1.dirty)
        BY <2>3, <3>1, Ops DEF WorkingOn
      <4> QED BY <4>1 DEF Check
    <3>3. vals' = vals \/ vals' = Captured(Next1)
      BY <2>4, Zenon DEF BatchCheck, Again, Accept
    <3>4. ~\E i \in DOMAIN P : P[i] = <<r, None>>
      BY <2>3
    <3>5. Captured(Next1)[r] = vals[r]
      BY <3>2, <3>4 DEF Captured
    <3> QED BY <3>3, <3>5
  <2>5. CASE CommandWrite \/ DataRead
    <3>1. Next1.op = "access"
      BY <2>5, SMTT(30) DEF CommandWrite, DataRead, At, Doing
    <3>2. Pair[2] # None /\ Next1.at # "data0"
      BY <2>3, <3>1, OneAccess, SMTT(30)
    <3> QED BY <2>5, <3>2 DEF CommandWrite, DataRead, At
  <2>6. CASE BatchRun \/ AbstractWait
    BY <2>2, <2>6, AccessFrame, Zenon DEF BatchRun, AbstractWait, Raised
  <2> QED BY <2>2, <2>4, <2>5, <2>6 DEF AccessStep
<1> QED BY <1>1, <1>2 DEF CallStep

\* The registers are put back.
LEMMA PuttingNext ==
  ASSUME TypeInv, IsolatedInv, NEW n \in {0, 1}, CallStep, NEW success \in BOOLEAN,
         WorkingIn({saved}), Tail(code) = <<Return(success)>>,
         hart = "halted", SavedInv(n), trap, PutBack, Result(success)
  PROVE  CallGoesOn(n)
<1>1. PICK P : P = saved
  OBVIOUS
<1>2. /\ Working(P) /\ Proper(P) /\ Len(P) \in {5, 6} /\ P[1][1] = "dpc"
      /\ \A i \in 1..Len(P) : P[i][2] \in Value
  BY <1>1, SavedProper DEF WorkingIn
<1>3. /\ UNCHANGED <<saved, before, masked, machine, trap, hart>> /\ dm'.haltreq = dm.haltreq
  BY <1>2, WorkFrame
<1>4. SavedInv(n)' /\ trap' /\ hart' = "halted"
  BY <1>3 DEF SavedInv
<1>5. P \in {saved}'
  BY <1>1, <1>3
<1>6. PutBack'
  <2>1. "dpc" \in Regs
    BY DEF Regs
  <2>2. \A i \in 1..Len(P) : P[i][1] = "dpc" => i = 1
    <3>1. 1 \in 1..Len(P)
      BY <1>2
    <3> QED BY <1>2, <3>1, ProperKinds
  <2>3. regs'["dpc"] = regs["dpc"] \/ regs'["dpc"] = P[1][2]
    BY <1>2, <2>1, <2>2, WorkWrites
  <2> QED BY <1>1, <1>3, <2>3 DEF PutBack, InCallee, Program
<1>7. GoesOn(P, <<Return(success)>>) \/ Raises2
  <2>1. <<Return(success)>> \in Seq({Return(success)})
    BY ReturnTail, Zenon
  <2> QED BY <1>2, <2>1, WorkNext
<1>8. CASE Raises2
  BY <1>8 DEF CallGoesOn, Returned, Raises2
<1>9. Result(success)'
  <2>1. "a0" \in Regs
    BY DEF Regs
  <2>2. \A i \in 1..Len(P) : P[i][2] # None
    BY <1>2, SomeValue
  <2>3. vals'["a0"] = vals["a0"]
    BY <1>2, <2>1, <2>2, WritesRead
  <2> QED BY <1>3, <2>3, Zenon DEF Result
<1>10. CASE StillWorking(P) /\ Tail(code') = <<Return(success)>>
  <2>1. WorkingIn({saved})'
    BY <1>5, <1>10 DEF WorkingIn, StillWorking
  <2>2. Restoring(n)'
    BY <1>4, <1>6, <1>9, <1>10, <2>1, Zenon DEF Restoring
  <2> QED BY <1>4, <2>2 DEF CallGoesOn, StillCalling, CallAt
<1>11. CASE code' = <<Return(success)>> /\ AllDone(P)' /\ Quiet'
  <2>1. \A i \in 1..Len(saved') : regs'[saved'[i][1]] = saved'[i][2]
    <3> SUFFICES ASSUME NEW i \in 1..Len(P) PROVE regs'[P[i][1]] = P[i][2]
      BY <1>1, <1>3
    <3>1. Done(P[i])'
      BY <1>11 DEF AllDone
    <3>2. P[i][2] # None
      BY <1>2, SomeValue
    <3> QED BY <3>1, <3>2 DEF Done
  <2>2. Restoring(n)'
    BY <1>4, <1>9, <1>11, <2>1, Zenon DEF Restoring
  <2> QED BY <1>4, <2>2 DEF CallGoesOn, StillCalling, CallAt
<1> QED BY <1>7, <1>8, <1>10, <1>11 DEF GoesOn

\* The call returns.
LEMMA DoneNext ==
  ASSUME TypeInv, IsolatedInv, CallStep, NEW success \in BOOLEAN,
         code = <<Return(success)>>, Quiet, NEW n
  PROVE  CallGoesOn(n)
<1>1. ~Hart
  BY QuietHart
<1>2. Next1 = Return(success) /\ Tail(code) = <<>>
  BY ReturnTail, Zenon DEF Next1
<1>3. Next1.op = "return"
  BY <1>2, ReturnOp, Zenon
<1>4. Local
  BY <1>1, <1>3, HostStep DEF CallStep
<1>5. code' = Tail(code) /\ UNCHANGED <<hart, abs>>
  BY <1>2, <1>4, ReturnDoes, Zenon
<1> QED BY <1>2, <1>5 DEF CallGoesOn, Returned, Quiet

\* One step of a call of a function, wherever it is.
LEMMA CallNext ==
  ASSUME TypeInv, IsolatedInv, NEW n \in {0, 1}, CallStep, CallAt(n)
  PROVE  CallGoesOn(n)
<1>1. CASE Saving(n)
  BY <1>1, EntryNext, ReadingNext, TrapNext, SetupNext, Zenon DEF Saving, CallAt
<1>2. CASE SettingUp(n)
  BY <1>2, SettingNext DEF CallAt
<1>3. CASE Going(n)
  BY <1>3, GoingNext DEF CallAt
<1>4. CASE ReHalting(n)
  BY <1>4, ReHaltingNext DEF CallAt
<1>5. CASE Restoring(n)
  BY <1>5, ResultNext, RestoreNext, PuttingNext, DoneNext, Zenon DEF Restoring
<1> QED BY <1>1, <1>2, <1>3, <1>4, <1>5 DEF CallAt

-----------------------------------------------------------------------------
(***************************************************************************)
(* Isolation, whatever access comes                                        *)
(***************************************************************************)
\* The next access is none to a register, a result is a Boolean, and the chip is not
\* reset over a command in progress.
Aside ==
  /\ Next1.op \notin {"access", "batch", "check"}
  /\ Next1.op = "return" => Next1.success \in BOOLEAN
  /\ Next1.op = "memory" => Next1.effect # "reset" \/ ~abs.busy

\* Which accesses are aside.
LEMMA AsideOps ==
  /\ \A x : Next1 = Write(x) => Aside
  /\ \A x, y : Next1 = Poll(x, y) => Aside
  /\ \A x : Next1 = Memory(x) /\ (x # "reset" \/ ~abs.busy) => Aside
  /\ \A x : Next1 = Setup(x) => Aside
  /\ \A x \in BOOLEAN : Next1 = Return(x) => Aside
  /\ Next1 \in {Restore, Enter, DmStatus, StillHalted, Lost} => Aside
<1>1. \A x \in BOOLEAN : Next1 = Return(x) => Aside
  <2>1. \A x \in BOOLEAN : Next1 = Return(x) => Next1.op = "return" /\ Next1.success = x
    BY ReturnOp, Zenon
  <2> QED BY <2>1 DEF Aside
<1>2. /\ \A x : Next1 = Write(x) => Aside
      /\ \A x, y : Next1 = Poll(x, y) => Aside
      /\ \A x : Next1 = Memory(x) /\ (x # "reset" \/ ~abs.busy) => Aside
      /\ \A x : Next1 = Setup(x) => Aside
  <2>1. \A x, y : /\ Write(x).op = "write" /\ Poll(x, y).op = "poll"
                 /\ Memory(x).op = "memory" /\ Setup(x).op = "setup"
                 /\ Memory(x).effect = x
    BY Ops
  <2> QED BY <2>1 DEF Aside
<1>3. Next1 \in {Restore, Enter, DmStatus, StillHalted, Lost} => Aside
  BY Ops DEF Aside
<1> QED BY <1>1, <1>2, <1>3, Zenon

\* examine accesses no register.
LEMMA ExamineAside ==
  ASSUME ExamineAt
  PROVE  Aside
<1>1. code \in {<<Drop, DmStatus>>, <<DmStatus>>, <<Acknowledge>>}
  BY SimpleCodes DEF ExamineAt, Acknowledge
<1>2. code # <<>> /\ Next1 \in {Drop, DmStatus, Acknowledge}
  BY <1>1, CodeTail DEF Next1
<1> QED BY <1>2, AsideOps DEF Drop, Acknowledge

\* Nor do halt, resume and the memory accesses.
LEMMA HaltAside ==
  ASSUME HaltAt \/ ResumeAt \/ code = <<Memory("none")>>
  PROVE  Aside
<1> DEFINE p == Poll("halted", <<Return(FALSE)>>)  q == Poll("running", <<Return(FALSE)>>)
           m == Memory("none")  f == Return(FALSE)
<1>1. code \in {<<Stop, p, Drop, m>>, <<p, Drop, m>>, <<f>>, <<Drop, m>>, <<m>>,
                <<Start, q, Drop>>, <<q, Drop>>, <<Drop>>}
  BY SimpleCodes, Zenon DEF HaltAt, ResumeAt, Drop
<1> HIDE DEF p, q, m, f
<1>2. code # <<>> /\ Next1 \in {Stop, p, q, m, f, Drop, Start}
  <2>1. \A x, y, z, w :
          /\ <<x>> # <<>> /\ Head(<<x>>) = x
          /\ <<x, y>> # <<>> /\ Head(<<x, y>>) = x
          /\ <<x, y, z>> # <<>> /\ Head(<<x, y, z>>) = x
          /\ <<x, y, z, w>> # <<>> /\ Head(<<x, y, z, w>>) = x
    OBVIOUS
  <2> QED BY <1>1, <2>1 DEF Next1
<1>3. CASE Next1 = f
  BY <1>2, <1>3, AsideOps, Zenon DEF f
<1>4. CASE Next1 \in {p, q}
  BY <1>2, <1>4, AsideOps, Zenon DEF p, q
<1>5. CASE Next1 \in {Stop, Drop, Start}
  BY <1>2, <1>5, AsideOps, Zenon DEF Stop, Start, Drop
<1>6. CASE Next1 = m
  <2>1. "none" # "reset"
    OBVIOUS
  <2> QED BY <1>6, <2>1, AsideOps, Zenon DEF m
<1> QED BY <1>2, <1>3, <1>4, <1>5, <1>6

\* Nor does the reset of reset_run.
LEMMA ResetAside ==
  ASSUME code \in Suffixes(ResetCode)
  PROVE  Aside
<1> DEFINE S == {Write({"dmactive"}), Write({"resumereq", "dmactive"}),
                 Write({"haltreq", "ndmreset", "dmactive"}), Write({"haltreq", "dmactive"}),
                 Write({"ackhavereset", "dmactive"}), Write({})}
<1>1. ResetCode \in Seq(S)
  BY DEF ResetCode
<1>2. \A x \in S : \E bits : x = Write(bits)
  BY Zenon
<1> HIDE DEF S
<1>3. \A i \in 1..Len(ResetCode) : ResetCode[i] \in S
  BY <1>1, ElementOfSeq
<1>4. code # <<>> /\ \E i \in 1..Len(ResetCode) : Next1 = ResetCode[i]
  BY <1>1, SuffixStep
<1> QED BY <1>2, <1>3, <1>4, AsideOps

\* Nor does the reset of the chip, which finds no command in progress.
LEMMA SocResetAside ==
  ASSUME SocResetAt
  PROVE  Aside
<1> DEFINE c == Tail(Tail(SocResetCode))  m == Memory("reset")  w == Write({})  x == Start
           y == Write({"haltreq", "ndmreset", "dmactive"})  S == {w, m, x, y}
<1>1. SocResetCode = <<Stop, m, w, m, w, x, x, y>>
  BY Zenon DEF SocResetCode, Stop, Start
<1>2. \A z \in S \cup {Stop} : z = m \/ \E bits : z = Write(bits)
  BY Zenon DEF Start, Stop
<1> HIDE DEF m, w, x, y
<1>3. Tail(SocResetCode) = <<m, w, m, w, x, x, y>> /\ Head(SocResetCode) = Stop /\ SocResetCode # <<>>
  BY <1>1, LongTails
<1>4. Tail(Tail(SocResetCode)) = <<w, m, w, x, x, y>> /\ Head(Tail(SocResetCode)) = m
      /\ Tail(SocResetCode) # <<>>
  <2>1. /\ Tail(<<m, w, m, w, x, x, y>>) = <<w, m, w, x, x, y>>
        /\ Head(<<m, w, m, w, x, x, y>>) = m
    BY LongTails
  <2>2. <<m, w, m, w, x, x, y>> # <<>>
    OBVIOUS
  <2> QED BY <1>3, <2>1, <2>2, Zenon
<1> HIDE DEF c
<1>5. c \in Seq(S)
  <2>1. c = <<w, m, w, x, x, y>>
    BY <1>4 DEF c
  <2> QED BY <2>1
<1> HIDE DEF S
<1>6. code # <<>> /\ Next1 \in S \cup {Stop, m}
  <2>1. CASE code \in Suffixes(c)
    <3>1. code # <<>> /\ \E i \in 1..Len(c) : Next1 = c[i]
      BY <1>5, <2>1, SuffixStep
    <3>2. \A i \in 1..Len(c) : c[i] \in S
      BY <1>5, ElementOfSeq
    <3> QED BY <3>1, <3>2
  <2>2. CASE code \in {SocResetCode, Tail(SocResetCode)}
    BY <1>3, <1>4, <2>2 DEF Next1
  <2> QED BY <2>1, <2>2 DEF SocResetAt, c
<1>7. CASE \E bits : Next1 = Write(bits)
  BY <1>7, AsideOps, Zenon
<1>8. CASE Next1 = m
  <2>1. Stop # Memory("reset")
    <3>1. Stop.op = "write" /\ Memory("reset").op = "memory"
      BY Ops DEF Stop
    <3> QED BY <3>1
  <2>2. code # SocResetCode
    BY <1>3, <1>8, <2>1 DEF Next1, m
  <2>3. ~abs.busy
    BY <2>2 DEF SocResetAt, Fresh
  <2> QED BY <1>8, <2>3, AsideOps, Zenon DEF m
<1>9. Next1 = m \/ \E bits : Next1 = Write(bits)
  BY <1>2, <1>6 DEF S
<1> QED BY <1>7, <1>8, <1>9

\* Nor does what releases the hart from reset.
LEMMA GoAside ==
  ASSUME code \in DeassertCodes \/ code \in Suffixes(HaltGoCode)
  PROVE  Aside
<1> DEFINE p == Poll("not_running", <<Drop>>)  q == Poll("left", <<Acknowledge>>)  S == {Stop, p, Drop}
<1>1. HaltGoCode = <<Stop, p, Drop>> /\ DeassertCode = <<Drop, q, Acknowledge>>
  BY OtherCodes
<1>2. p = Poll("not_running", <<Drop>>) /\ q = Poll("left", <<Acknowledge>>)
  OBVIOUS
<1> HIDE DEF p, q
<1>3. HaltGoCode \in Seq(S)
  BY <1>1
<1> HIDE DEF S
<1>4. code # <<>> /\ Next1 \in {Stop, p, Drop, q, Acknowledge}
  <2>1. CASE code \in Suffixes(HaltGoCode)
    <3>1. code # <<>> /\ \E i \in 1..Len(HaltGoCode) : Next1 = HaltGoCode[i]
      BY <1>3, <2>1, SuffixStep
    <3>2. \A i \in 1..Len(HaltGoCode) : HaltGoCode[i] \in S
      BY <1>3, ElementOfSeq
    <3> QED BY <3>1, <3>2 DEF S
  <2>2. CASE code \in DeassertCodes
    <3>1. Tail(DeassertCode) = <<q, Acknowledge>>
      BY <1>1
    <3>2. code \in {<<Drop, q, Acknowledge>>, <<q, Acknowledge>>, <<Acknowledge>>}
      BY <1>1, <2>2, <3>1 DEF DeassertCodes, Acknowledge
    <3> QED BY <3>2 DEF Next1
  <2> QED BY <2>1, <2>2
<1> QED BY <1>2, <1>4, AsideOps DEF Stop, Drop, Acknowledge

\* Nor does the resume after it.
LEMMA ResumeGoAside ==
  ASSUME ResumeGoAt
  PROVE  Aside
<1> DEFINE w == Write({})  f == Return(FALSE)  t == Return(TRUE)
           p == Poll("resumeack", <<Drop, w, f>>)
<1>1. ResumeGoCode = <<Start, p, Drop, w, t>>
  BY OtherCodes
<1>2. code \in {ResumeGoCode, Tail(ResumeGoCode), <<Drop, w, f>>, <<Drop, w, t>>, <<w, f>>, <<w, t>>,
                <<f>>, <<t>>}
  BY Zenon DEF ResumeGoAt, Drop
<1> HIDE DEF w, f, t, p
<1>3. Tail(ResumeGoCode) = <<p, Drop, w, t>>
  BY <1>1
<1>4. code # <<>> /\ Next1 \in {Start, p, Drop, w, f, t}
  BY <1>1, <1>2, <1>3 DEF Next1
<1>5. CASE Next1 \in {f, t}
  BY <1>4, <1>5, AsideOps, Zenon DEF f, t
<1>6. CASE Next1 = p
  BY <1>4, <1>6, AsideOps, Zenon DEF p
<1>7. CASE Next1 \in {Start, Drop, w}
  BY <1>4, <1>7, AsideOps, Zenon DEF w, Start, Drop
<1> QED BY <1>4, <1>5, <1>6, <1>7

\* An access that runs is at work on registers that may be accessed.
SafeWork == \E P : Proper(P) /\ Working(P) /\ (hart = "halted" => Safe(P)) /\ \E S : Tail(code) \in Seq(S)

\* read_register and write_register are safe: a0 is neither jump target nor status.
LEMMA SimpleWork ==
  ASSUME TypeInv, IsolatedInv, Tail(code) = <<>>,
         Working(A0) \/ Working(<<<<"a0", <<"a0", "tool">>>>>>)
  PROVE  SafeWork
<1>1. Isolated(regs)
  BY DEF IsolatedInv
<1>2. CASE Working(A0)
  <2>1. \A i \in 1..Len(A0) : A0[i][2] = None
    BY DEF A0
  <2>2. Safe(A0)
    BY <1>1, <2>1, SingleProper, ReadsSafe
  <2> QED BY <1>2, <2>2, SingleProper, EmptyTail DEF SafeWork
<1>3. CASE Working(<<<<"a0", <<"a0", "tool">>>>>>)
  <2> DEFINE P == <<<<"a0", <<"a0", "tool">>>>>>
  <2>1. \A i \in 1..Len(P) : P[i][1] # "dpc" /\ P[i][1] \notin {"mstatus", "dcsr"}
    OBVIOUS
  <2>2. Proper(P) /\ Working(P)
    BY <1>3, SingleProper
  <2> HIDE DEF P
  <2>3. Safe(P)
    BY <1>1, <2>1, <2>2, AsideSafe
  <2> QED BY <2>2, <2>3, EmptyTail DEF SafeWork
<1> QED BY <1>2, <1>3

\* _set_dcsr_ebreak is safe: no function is called then.
LEMMA EbreakWork ==
  ASSUME TypeInv, IsolatedInv, SetEbreakAt
  PROVE  SafeWork
<1> DEFINE w == WriteRegister("dcsr", <<"dcsr", "ebreak">>)
<1>1. Isolated(regs) /\ Proper(EbreakRead) /\ Proper(EbreakWrite)
  BY SingleProper DEF EbreakRead, EbreakWrite, IsolatedInv
<1>2. CASE Working(EbreakRead) /\ Tail(code) = <<w>>
  <2>1. \A i \in 1..Len(EbreakRead) : EbreakRead[i][2] = None
    BY DEF EbreakRead
  <2>2. Safe(EbreakRead)
    BY <1>1, <2>1, ReadsSafe
  <2>3. <<w>> \in Seq({w})
    OBVIOUS
  <2> QED BY <1>1, <1>2, <2>2, <2>3 DEF SafeWork
<1>3. CASE Working(EbreakWrite) /\ Tail(code) = <<>>
  <2>1. \A i \in 1..Len(EbreakWrite) : EbreakWrite[i][1] # "dpc"
    BY DEF EbreakWrite
  <2>2. hart = "halted" => Safe(EbreakWrite)
    BY <1>1, <2>1, AsideSafe DEF SetEbreakAt
  <2> QED BY <1>1, <1>3, <2>2, EmptyTail DEF SafeWork
<1> QED BY <1>2, <1>3 DEF SetEbreakAt, EbreakRead, EbreakWrite

\* So is the call of a function, at all of its registers.
LEMMA CallWork ==
  ASSUME TypeInv, IsolatedInv, NEW n \in {0, 1}, CallAt(n), ~Aside
  PROVE  SafeWork
<1>0. Isolated(regs)
  BY DEF IsolatedInv
<1>1. CASE Saving(n)
  <2>1. code # CallCode(n)
    BY CallCodeIs, AsideOps DEF Next1
  <2>2. code # <<Memory("trap"), Setup(n)>> /\ code # <<Setup(n)>>
    <3>1. \A m, s : Head(<<m, s>>) = m /\ Head(<<s>>) = s
      OBVIOUS
    <3>2. Next1 # Memory("trap") /\ Next1 # Setup(n)
      <4>1. "trap" # "reset"
        OBVIOUS
      <4> QED BY <4>1, AsideOps, Zenon
    <3> QED BY <3>1, <3>2, Zenon DEF Next1
  <2>3. Working(Reads(n)) /\ Tail(code) = <<Memory("trap"), Setup(n)>>
    BY <1>1, <2>1, <2>2, Zenon DEF Saving
  <2>4. Proper(Reads(n)) /\ Safe(Reads(n))
    BY <1>0, ReadsProper, ReadsSafe
  <2>5. \A m, s : <<m, s>> \in Seq({m, s})
    OBVIOUS
  <2>6. \E S : Tail(code) \in Seq(S)
    <3> DEFINE m == Memory("trap")  s == Setup(n)
    <3>1. Tail(code) = <<m, s>>
      BY <2>3
    <3> HIDE DEF m, s
    <3>2. Tail(code) \in Seq({m, s})
      BY <2>5, <3>1
    <3> QED BY <3>2
  <2> QED BY <2>3, <2>4, <2>6, Zenon DEF SafeWork
<1>2. CASE SettingUp(n)
  <2>1. PICK P : P = SetupPairs(n) /\ Working(P)
    BY <1>2 DEF SettingUp, WorkingIn
  <2>2. Proper(P) /\ Safe(P)
    BY <1>0, <1>2, <2>1, SetupProper, SetupSafe DEF SettingUp
  <2>3. Tail(code) \in Seq({GoCode[i] : i \in 1..7})
    <3> DEFINE p == Poll("acked", GoDrop)  q == Poll("halted", ReHaltCode)
               x == ReadRegister("a0")  r == Return(TRUE)
    <3>1. GoCode = <<Start, p, Drop, q, x, Restore, r>>
      BY CallCodes
    <3>2. Tail(code) = GoCode
      BY <1>2 DEF SettingUp
    <3> HIDE DEF p, q, x, r
    <3>3. GoCode \in Seq({GoCode[i] : i \in 1..7})
      BY <3>1
    <3> QED BY <3>2, <3>3
  <2> QED BY <2>1, <2>2, <2>3 DEF SafeWork
<1>3. CASE Going(n)
  <2>1. code \in {GoCode, GoCode2, GoCode3, FinishCode}
    BY <1>3 DEF Going
  <2>2. Next1 \in {Start, Drop} \/ \E x, y : Next1 = Poll(x, y)
    BY <2>1, CallTails, Zenon DEF Next1
  <2> QED BY <2>2, AsideOps, Zenon DEF Start, Drop
<1>4. CASE ReHalting(n)
  <2>1. code \in {ReHaltCode, ReHaltCode2, ReHaltCode3, ReHaltCode4, <<Lost>>}
    BY <1>4 DEF ReHalting
  <2>2. \A r : Head(<<StillHalted, Restore, r>>) = StillHalted /\ Head(<<Lost>>) = Lost
    OBVIOUS
  <2>3. Next1 \in {Stop, Drop, StillHalted, Lost} \/ \E x, y : Next1 = Poll(x, y)
    BY <2>1, <2>2, CallTails, Zenon DEF Next1
  <2> QED BY <2>3, AsideOps, Zenon DEF Stop, Drop
<1>5. CASE Restoring(n)
  <2>1. \A success \in BOOLEAN : code # <<Restore, Return(success)>> /\ code # <<Return(success)>>
    BY ReturnTail, AsideOps, Zenon DEF Next1
  <2>2. CASE Working(A0) /\ Tail(code) = RestoreCode
    <3>1. Safe(A0)
      <4>1. \A i \in 1..Len(A0) : A0[i][2] = None
        BY DEF A0
      <4> QED BY <1>0, <4>1, SingleProper, ReadsSafe
    <3>2. \A x, y : <<x, y>> \in Seq({x, y})
      OBVIOUS
    <3>3. \E S : RestoreCode \in Seq(S)
      BY <3>2, Zenon DEF RestoreCode
    <3> QED BY <2>2, <3>1, <3>3, SingleProper DEF SafeWork
  <2>3. ASSUME NEW success \in BOOLEAN,
               WorkingIn({saved}), Tail(code) = <<Return(success)>>,
               hart = "halted", SavedInv(n), trap, PutBack, Result(success)
        PROVE  SafeWork
    <3>1. PICK P : P = saved /\ Working(P)
      BY <2>3 DEF WorkingIn
    <3>2. Proper(P) /\ Safe(P)
      BY <1>0, <2>3, <3>1, SavedProper, SavedSafe
    <3>3. Tail(code) \in Seq({Return(success)})
      BY <2>3, ReturnTail, Zenon
    <3> QED BY <3>1, <3>2, <3>3 DEF SafeWork
  <2> QED BY <1>5, <2>1, <2>2, <2>3, Zenon DEF Restoring
<1> QED BY <1>1, <1>2, <1>3, <1>4, <1>5 DEF CallAt

\* The calls there are.
AllCalls == {"examine", "halt", "halt_if_running", "halt_or_exit", "resume", "resume_if_running",
             "memory", "read", "write", "reset", "usb_reset", "reopen", "soc_reset", "deassert",
             "halt_go", "set_ebreak", "resume_go", "call_0", "call_1"}

\* Whatever call runs, the access that is next is none to a register or a safe one.
LEMMA AtWork ==
  ASSUME TypeInv, IsolatedInv, NEW call \in AllCalls, CallInv(call), ~Aside
  PROVE  SafeWork
<1>1. CASE call = "examine"
  BY <1>1, ExamineAside DEF CallInv
<1>2. CASE call \in {"halt", "halt_if_running", "halt_or_exit"}
  BY <1>2, HaltAside DEF CallInv
<1>3. CASE call \in {"resume", "resume_if_running"}
  BY <1>3, HaltAside DEF CallInv
<1>4. CASE call \in {"memory", "usb_reset", "reopen"}
  BY <1>4, HaltAside DEF CallInv
<1>5. CASE call \in {"read", "write"}
  BY <1>5, SimpleWork DEF CallInv
<1>6. CASE call = "reset"
  BY <1>6, ResetAside DEF CallInv
<1>7. CASE call = "soc_reset"
  BY <1>7, SocResetAside DEF CallInv
<1>8. CASE call \in {"deassert", "halt_go"}
  BY <1>8, GoAside DEF CallInv, DeassertCodes
<1>9. CASE call = "set_ebreak"
  BY <1>9, EbreakWork DEF CallInv
<1>10. CASE call = "resume_go"
  BY <1>10, ResumeGoAside DEF CallInv
<1>11. CASE call = "call_0"
  BY <1>11, CallWork DEF CallInv
<1>12. CASE call = "call_1"
  BY <1>12, CallWork DEF CallInv
<1> QED BY <1>1, <1>2, <1>3, <1>4, <1>5, <1>6, <1>7, <1>8, <1>9, <1>10, <1>11, <1>12 DEF AllCalls

-----------------------------------------------------------------------------
(***************************************************************************)
(* Types                                                                   *)
(***************************************************************************)
LEMMA ToolCalls ==
  ASSUME NEW t \in Tools
  PROVE  /\ t # None /\ Len(Calls(t)) \in 1..9
         /\ \A i \in 1..Len(Calls(t)) : Calls(t)[i] \in AllCalls
         /\ t = "info" => Len(Calls(t)) = 5
<1>1. t # None /\ t \in {"read_memory", "read_register", "probe", "halt", "resume", "write_register",
                         "write_memory", "reset_run", "reset_from_rom", "info"}
  BY NoneAssumption, RunControlAssumption
<1> DEFINE Good(c) == Len(c) \in 1..9 /\ \A i \in 1..Len(c) : c[i] \in AllCalls
<1>2. CASE t \in {"read_memory", "read_register", "probe"}
  <2>1. Good(<<"examine", "halt_if_running", "memory", "resume_if_running">>)
    BY DEF AllCalls
  <2>2. Good(<<"examine", "halt_if_running", "read", "resume_if_running">>)
    BY DEF AllCalls
  <2>3. Good(<<"examine", "halt_if_running", "read", "memory", "resume_if_running">>)
    BY DEF AllCalls
  <2> QED BY <1>1, <1>2, <2>1, <2>2, <2>3, CallsOf
<1>3. CASE t \in {"halt", "resume", "write_register", "write_memory", "reset_run"}
  <2>1. Good(<<"examine", "halt">>) /\ Good(<<"examine", "resume">>) /\ Good(<<"reset">>)
    BY DEF AllCalls
  <2>2. Good(<<"examine", "halt", "write", "read">>) /\ Good(<<"examine", "memory">>)
    BY DEF AllCalls
  <2> QED BY <1>1, <1>3, <2>1, <2>2, CallsOf
<1>4. CASE t = "reset_from_rom"
  <2>1. Good(FromRomCalls)
    BY DEF AllCalls, FromRomCalls
  <2> QED BY <1>1, <1>4, <2>1, CallsOf
<1>5. CASE t = "info"
  <2>1. Good(<<"examine", "halt_or_exit", "call_0", "call_1", "resume">>)
    BY DEF AllCalls
  <2>2. Len(<<"examine", "halt_or_exit", "call_0", "call_1", "resume">>) = 5
    OBVIOUS
  <2> QED BY <1>1, <1>5, <2>1, <2>2, CallsOf
<1> QED BY <1>1, <1>2, <1>3, <1>4, <1>5

ControlType ==
  /\ tool \in Tools \cup {None}
  /\ Idle => step = 0 /\ code = <<>>
  /\ ~Idle => step \in 1..Len(Calls(tool)) + 1 /\ report \in {None, Raises}
FlagType ==
  /\ ok \in BOOLEAN /\ wasRunning \in BOOLEAN /\ trap \in BOOLEAN
  /\ masked \in BOOLEAN /\ machine \in BOOLEAN
  /\ hart \in {"running", "halted", "reset"} /\ cause \in {"haltreq", "itself", "trap"}
  /\ dm \in [haltreq : BOOLEAN, ndmreset : BOOLEAN, resumeack : BOOLEAN, havereset : BOOLEAN]

\* The type invariant in three parts.
LEMMA TypeParts == TypeInv <=> ControlType /\ FlagType /\ DataType
BY Zenon DEF TypeInv, ControlType, FlagType, DataType

\* The same in the next state.
LEMMA TypePartsNext == ControlType' /\ FlagType' /\ DataType' => TypeInv'
BY Zenon DEF TypeInv, ControlType, FlagType, DataType

\* The call that runs is one of them.
LEMMA Running ==
  ASSUME TypeInv, CodeInv, code # <<>>
  PROVE  /\ ~Idle /\ tool \in Tools /\ step \in 2..Len(Calls(tool)) + 1
         /\ Len(Calls(tool)) \in 1..9
         /\ This \in AllCalls /\ CallInv(This)
<1>1. ~Idle /\ step > 1 /\ CallInv(This)
  BY DEF CodeInv
<1>2. tool \in Tools /\ step \in 1..Len(Calls(tool)) + 1
  BY <1>1 DEF TypeInv, Idle
<1>3. Len(Calls(tool)) \in 1..9 /\ \A i \in 1..Len(Calls(tool)) : Calls(tool)[i] \in AllCalls
  BY <1>2, ToolCalls
<1>4. step \in 2..Len(Calls(tool)) + 1 /\ step - 1 \in 1..Len(Calls(tool))
  BY <1>1, <1>2, <1>3
<1> QED BY <1>1, <1>2, <1>3, <1>4 DEF This

\* A step that leaves the tool at its call.
LEMMA SameControl ==
  ASSUME TypeInv, ~Idle, UNCHANGED <<tool, step, report>>
  PROVE  ControlType'
BY DEF TypeInv, ControlType, Idle, Raises

\* An exception leaves the tool at a call of it, or behind the last.
LEMMA RaiseControl ==
  ASSUME TypeInv, ~Idle, Raises2
  PROVE  ControlType'
<1>1. tool \in Tools
  BY DEF TypeInv, Idle
<1>2. Len(Calls(tool)) \in 1..9 /\ (tool = "info" => Len(Calls(tool)) = 5)
  BY <1>1, ToolCalls
<1>3. tool' = tool /\ report' = Raises'
  BY DEF Raises2, Raises
<1>4. step' = IF tool = "info" /\ step \in 4..5 THEN 5 ELSE Len(Calls(tool)) + 1
  BY DEF Raises2
<1>5. step' \in 1..Len(Calls(tool)) + 1
  BY <1>2, <1>4, SMTT(30)
<1> QED BY <1>1, <1>3, <1>5 DEF ControlType, Idle

\* Beginning and ending a tool or a call keeps the types.
LEMMA ToolType ==
  ASSUME TypeInv, (\E t \in Tools : StartTool(t)) \/ StartCall \/ EndTool
  PROVE  TypeInv'
<1>1. ControlType /\ FlagType /\ DataType
  BY TypeParts
<1>2. CASE \E t \in Tools : StartTool(t)
  <2>1. PICK t \in Tools : StartTool(t)
    BY <1>2
  <2>2. ControlType'
    <3>1. t # None /\ Len(Calls(t)) \in 1..9
      BY ToolCalls
    <3>2. tool' = t /\ step' = 1 /\ report' = None
      BY <2>1 DEF StartTool
    <3> QED BY <3>1, <3>2 DEF ControlType, Idle
  <2>3. FlagType' /\ DataType'
    BY <1>1, <2>1 DEF StartTool, FlagType, DataType, device
  <2> QED BY <2>2, <2>3, TypePartsNext
<1>3. CASE StartCall
  <2>1. ControlType'
    <3>1. /\ tool \in Tools /\ step \in 1..Len(Calls(tool)) + 1 /\ step <= Len(Calls(tool))
          /\ report \in {None, Raises} /\ UNCHANGED <<tool, report>>
      BY <1>1, <1>3 DEF StartCall, ControlType, Idle
    <3>2. Len(Calls(tool)) \in 1..9 /\ tool # None
      BY <3>1, ToolCalls
    <3>3. step' \in {step + 1, Len(Calls(tool)) + 1}
      BY <1>3, Zenon DEF StartCall
    <3>4. step' \in 1..Len(Calls(tool)) + 1
      BY <3>1, <3>2, <3>3
    <3> QED BY <3>1, <3>2, <3>4 DEF ControlType, Idle, Raises
  <2>2. FlagType' /\ DataType'
    <3>1. ok' \in BOOLEAN /\ UNCHANGED <<wasRunning, vals, device, masked, machine>> /\ polls' = 0
      BY <1>1, <1>3 DEF StartCall, FlagType
    <3> QED BY <1>1, <3>1, RunControlAssumption DEF FlagType, DataType, device
  <2> QED BY <2>1, <2>2, TypePartsNext
<1>4. CASE EndTool
  <2>1. ControlType'
    BY <1>4 DEF EndTool, ControlType, Idle
  <2>2. NoValues \in [Regs -> Value \cup {None}]
    BY DEF NoValues
  <2>3. FlagType' /\ DataType'
    <3>1. /\ vals' = NoValues /\ wasRunning' = FALSE /\ ok' = TRUE
          /\ UNCHANGED <<polls, hart, cause, regs, dm, abs, trap, masked, machine>>
      BY <1>4 DEF EndTool, device
    <3>2. FlagType'
      BY <1>1, <3>1 DEF FlagType
    <3>3. DataType'
      BY <1>1, <2>2, <3>1 DEF DataType
    <3> QED BY <3>2, <3>3
  <2> QED BY <2>1, <2>3, TypePartsNext
<1> QED BY <1>2, <1>3, <1>4

\* So does every access of a call.
LEMMA HostType ==
  ASSUME TypeInv, IsolatedInv, CodeInv, Host, code # <<>>
  PROVE  TypeInv'
<1>1. ControlType /\ FlagType /\ DataType /\ Polls \in Nat /\ Polls > 0
  BY TypeParts, RunControlAssumption
<1>2. ~Idle /\ (Aside \/ SafeWork)
  BY Running, AtWork
<1>3. CASE Raise
  <2>1. Raises2 /\ UNCHANGED <<device, masked, machine>> /\ polls' = 0
    BY <1>3 DEF Raise, Raised, Raises2, Raises
  <2>2. ControlType'
    BY <1>2, <2>1, RaiseControl
  <2>3. FlagType' /\ DataType'
    BY <1>1, <2>1 DEF Raises2, FlagType, DataType, device
  <2> QED BY <2>2, <2>3, TypePartsNext
<1>4. CASE DmWrite
  <2>1. PICK bits : bits = Next1.bits
    OBVIOUS
  <2>2. /\ polls' = 0
        /\ UNCHANGED <<tool, step, report, ok, wasRunning, vals, cause, regs, trap, masked, machine>>
        /\ hart' = IF "ndmreset" \in bits THEN "reset"
                   ELSE IF "resumereq" \in bits /\ "haltreq" \notin bits /\ hart = "halted"
                        THEN "running" ELSE hart
        /\ dm' \in [haltreq : BOOLEAN, ndmreset : BOOLEAN, resumeack : BOOLEAN, havereset : BOOLEAN]
        /\ abs' \in [busy : BOOLEAN, cmderr : {0, 1, 4}, pair : PairType \cup {<<>>}, data0 : Value]
    BY <1>4, <2>1, AnyWrite
  <2>3. hart' \in {"running", "halted", "reset"}
    BY <1>1, <2>2 DEF FlagType
  <2>4. FlagType' /\ DataType'
    BY <1>1, <2>2, <2>3 DEF FlagType, DataType
  <2>5. ControlType'
    BY <1>2, <2>2, SameControl
  <2> QED BY <2>4, <2>5, TypePartsNext
<1>5. CASE DmPoll
  <2>1. UNCHANGED <<tool, step, report, ok, wasRunning, vals, device, masked, machine>>
    BY <1>5 DEF DmPoll, Beside, Fixed
  <2>2. polls' \in 0..Polls
    BY <1>1, <1>5 DEF DmPoll, Proceed, DataType
  <2>3. FlagType' /\ DataType'
    BY <1>1, <2>1, <2>2 DEF FlagType, DataType, device
  <2>4. ControlType'
    BY <1>2, <2>1, SameControl
  <2> QED BY <2>3, <2>4, TypePartsNext
<1>6. CASE Status
  <2>1. /\ UNCHANGED <<tool, step, report, polls, ok, vals, device, masked, machine>>
        /\ wasRunning' \in BOOLEAN
    BY <1>6 DEF Status, Beside, Fixed
  <2>2. FlagType' /\ DataType'
    BY <1>1, <2>1 DEF FlagType, DataType, device
  <2>3. ControlType'
    BY <1>2, <2>1, SameControl
  <2> QED BY <2>2, <2>3, TypePartsNext
<1>7. CASE MemoryAccess
  <2>1. /\ UNCHANGED <<tool, step, report, ok, wasRunning, vals, cause, regs, dm, abs, masked, machine>>
        /\ polls' = 0 /\ trap' = (trap \/ Next1.effect = "trap")
        /\ hart' = IF Next1.effect = "reset" THEN "reset" ELSE hart
    BY <1>7 DEF MemoryAccess, Beside, Fixed, Proceed
  <2>2. hart' \in {"running", "halted", "reset"} /\ trap' \in BOOLEAN
    BY <1>1, <2>1 DEF FlagType
  <2>3. FlagType' /\ DataType'
    BY <1>1, <2>1, <2>2 DEF FlagType, DataType
  <2>4. ControlType'
    BY <1>2, <2>1, SameControl
  <2> QED BY <2>3, <2>4, TypePartsNext
<1>8. CASE Local
  <2>1. UNCHANGED <<tool, step, report, wasRunning, vals, device, masked, machine>>
    BY <1>8, Zenon DEF Local, Fixed
  <2>2. /\ polls' \in {0, polls}
        /\ ok' \in {ok, FALSE} \/ (ok' = Next1.success /\ Next1.op = "return")
    BY <1>8, Zenon DEF Local, Proceed
  <2>3. polls' \in 0..Polls
    <3>1. polls' \in {0, polls}
      BY <1>8, Zenon DEF Local, Proceed
    <3> QED BY <1>1, <3>1 DEF DataType
  <2>4. ok' \in BOOLEAN
    <3>1. CASE ok' \in {ok, FALSE}
      BY <1>1, <3>1 DEF FlagType
    <3>2. CASE ok' = Next1.success /\ Next1.op = "return"
      <4>1. Aside
        BY <1>2, <3>2, Ops DEF SafeWork, Working, WorkingOn
      <4> QED BY <3>2, <4>1 DEF Aside
    <3> QED BY <2>2, <3>1, <3>2
  <2>5. FlagType' /\ DataType'
    BY <1>1, <2>1, <2>3, <2>4 DEF FlagType, DataType, device
  <2>6. ControlType'
    BY <1>2, <2>1, SameControl
  <2> QED BY <2>5, <2>6, TypePartsNext
<1>9. CASE AccessStep
  <2>1. SafeWork
    BY <1>2, <1>9, Zenon DEF AccessStep, BatchRun, BatchCheck, CommandWrite, AbstractWait, DataRead, At, Doing, Aside
  <2>2. PICK P : Proper(P) /\ Working(P) /\ \E S : Tail(code) \in Seq(S)
    BY <2>1 DEF SafeWork
  <2>3. DataType'
    BY <1>9, <2>2, AccessType
  <2>4. FlagType'
    BY <1>1, <1>9, AccessFrame DEF FlagType
  <2>5. ControlType'
    <3>1. CASE UNCHANGED <<step, report>>
      BY <1>2, <1>9, <3>1, AccessFrame, SameControl
    <3>2. CASE Raised
      BY <1>2, <3>2, RaiseControl DEF Raised, Raises2, Raises
    <3>3. UNCHANGED <<step, report>> \/ Raised
      BY <1>9, <2>2, AccessWorks
    <3> QED BY <3>1, <3>2, <3>3
  <2> QED BY <2>3, <2>4, <2>5, TypePartsNext, SMTT(30)
<1> QED BY <1>2, <1>3, <1>4, <1>5, <1>6, <1>7, <1>8, <1>9, HostStep

\* Every step keeps the types.
LEMMA TypeNext ==
  ASSUME TypeInv, IsolatedInv, CodeInv, Next
  PROVE  TypeInv'
<1>1. CASE Hart
  <2>1. ControlType /\ FlagType
    BY TypeParts
  <2>2. DataType'
    BY <1>1, HartType
  <2>3. ControlType'
    BY <1>1, <2>1, HartDoes DEF ControlType, Idle, Raises
  <2>4. FlagType'
    <3>1. CASE Exec
      BY <2>1, <3>1 DEF Exec, FlagType, host, Fixed
    <3>2. CASE HartHalts
      BY <2>1, <3>2 DEF HartHalts, FlagType, host, Fixed
    <3>3. CASE CalleeTraps
      BY <2>1, <3>3 DEF CalleeTraps, FlagType, host, Fixed
    <3>4. CASE ProgramStops
      BY <2>1, <3>4 DEF ProgramStops, FlagType, host
    <3>5. CASE LeaveReset
      <4>1. dm' \in [haltreq : BOOLEAN, ndmreset : BOOLEAN, resumeack : BOOLEAN, havereset : BOOLEAN]
        BY <2>1, <3>5 DEF LeaveReset, FlagType
      <4>2. /\ hart' \in {"running", "halted"} /\ cause' \in {"haltreq", cause} /\ trap' = FALSE
            /\ UNCHANGED <<host, masked, machine>>
        BY <3>5 DEF LeaveReset, Fixed
      <4> QED BY <2>1, <4>1, <4>2 DEF FlagType, host
    <3> QED BY <1>1, <3>1, <3>2, <3>3, <3>4, <3>5 DEF Hart
  <2> QED BY <2>2, <2>3, <2>4, TypePartsNext
<1>2. CASE Host /\ code # <<>>
  BY <1>2, HostType
<1>3. CASE Host /\ code = <<>>
  <2>1. (\E t \in Tools : StartTool(t)) \/ StartCall \/ EndTool
    BY <1>3, Zenon DEF Host, Raise, DmWrite, DmPoll, Status, MemoryAccess, Local, CommandWrite,
       AbstractWait, DataRead, BatchRun, BatchCheck, At, Doing
  <2> QED BY <2>1, ToolType
<1> QED BY <1>1, <1>2, <1>3 DEF Next

-----------------------------------------------------------------------------
(***************************************************************************)
(* Isolation                                                               *)
(***************************************************************************)
\* What isolation rests on: the registers, the command in progress and the ebreak.
LEMMA IsolatedSame ==
  ASSUME IsolatedInv, UNCHANGED <<regs, masked, machine>>, trap => trap',
         abs'.busy => abs.busy /\ abs'.pair = abs.pair /\ hart' = hart
  PROVE  IsolatedInv'
<1>1. Isolated(regs)' /\ \A p : p = abs.pair => Completed(p)' = Completed(p)
  BY DEF IsolatedInv, Isolated, Completed
<1>2. ASSUME abs'.busy
      PROVE  /\ hart' = "halted"
             /\ abs'.pair \in PairType /\ (abs'.pair[2] # None => abs'.pair[2][1] = abs'.pair[1])
             /\ Isolated(Completed(abs.pair))'
  <2>1. abs.busy /\ abs'.pair = abs.pair /\ hart' = hart
    BY <1>2
  <2>2. /\ hart = "halted" /\ Isolated(Completed(abs.pair))
        /\ abs.pair \in PairType /\ (abs.pair[2] # None => abs.pair[2][1] = abs.pair[1])
    BY <2>1 DEF IsolatedInv
  <2>3. Completed(abs.pair)' = Completed(abs.pair)
    BY <2>1 DEF Completed
  <2> QED BY <2>1, <2>2, <2>3 DEF Isolated
<1> QED BY <1>1, <1>2 DEF IsolatedInv

\* Every step of the host keeps the isolation.
LEMMA HostIsolated ==
  ASSUME TypeInv, IsolatedInv, CodeInv, Host
  PROVE  IsolatedInv'
<1>1. CASE code = <<>>
  <2>1. (\E t \in Tools : StartTool(t)) \/ StartCall \/ EndTool
    BY <1>1, Zenon DEF Host, Raise, DmWrite, DmPoll, Status, MemoryAccess, Local, CommandWrite,
       AbstractWait, DataRead, BatchRun, BatchCheck, At, Doing
  <2>2. UNCHANGED <<device, masked, machine>>
    BY <2>1 DEF StartTool, StartCall, EndTool
  <2> QED BY <2>2, IsolatedSame DEF device
<1>2. CASE code # <<>>
  <2>1. ~Idle /\ (Aside \/ SafeWork)
    BY <1>2, Running, AtWork
  <2>2. CASE Raise \/ DmPoll \/ Status \/ Local
    <3>1. UNCHANGED <<device, masked, machine>>
      BY <2>2, Zenon DEF Raise, DmPoll, Status, Local, Fixed
    <3> QED BY <3>1, IsolatedSame DEF device
  <2>3. CASE DmWrite
    <3>1. PICK bits : bits = Next1.bits
      OBVIOUS
    <3>2. UNCHANGED <<regs, trap, masked, machine>> /\ ~abs'.busy
      BY <2>3, <3>1, AnyWrite
    <3> QED BY <3>2, IsolatedSame
  <2>4. CASE MemoryAccess
    <3>1. /\ UNCHANGED <<regs, abs, masked, machine>> /\ trap' = (trap \/ Next1.effect = "trap")
          /\ hart' = IF Next1.effect = "reset" THEN "reset" ELSE hart
          /\ Next1.op = "memory"
      BY <2>4 DEF MemoryAccess, Fixed, Doing
    <3>2. Aside
      BY <2>1, <3>1, Ops DEF SafeWork, Working, WorkingOn
    <3>3. Next1.effect # "reset" \/ ~abs.busy
      BY <3>1, <3>2 DEF Aside
    <3> QED BY <3>1, <3>3, IsolatedSame, ZenonT(60)
  <2>5. CASE AccessStep
    <3>1. SafeWork
      BY <2>1, <2>5, Zenon DEF AccessStep, BatchRun, BatchCheck, CommandWrite, AbstractWait, DataRead, At,
         Doing, Aside
    <3>2. PICK P : Proper(P) /\ Working(P) /\ (hart = "halted" => Safe(P)) /\ \E S : Tail(code) \in Seq(S)
      BY <3>1 DEF SafeWork
    <3>3. PICK S : Tail(code) \in Seq(S)
      BY <3>2
    <3> QED BY <2>5, <3>2, <3>3, AccessIsolated
  <2> QED BY <1>2, <2>1, <2>2, <2>3, <2>4, <2>5, HostStep
<1> QED BY <1>1, <1>2

\* Every step does.
LEMMA IsolatedNext ==
  ASSUME TypeInv, IsolatedInv, CodeInv, Next
  PROVE  IsolatedInv'
BY HostIsolated, HartIsolated DEF Next

-----------------------------------------------------------------------------
(***************************************************************************)
(* The calls, one step on                                                  *)
(***************************************************************************)
StillIn(call) == CallInv(call)'
\* What holds when a call has ended, and not by an exception.
Ended(call) ==
  /\ call \in {"examine", "memory", "read", "write"} => ~abs'.busy
  /\ call \in {"halt", "halt_if_running", "halt_or_exit"} => ~abs'.busy /\ (ok' => hart' = "halted")
  /\ call \in {"call_0", "call_1"} => ~abs'.busy /\ hart' # "reset"
  /\ call \in {"soc_reset", "deassert", "halt_go"} => Fresh'
  /\ call = "set_ebreak" => EbreakSet'
  /\ call = "resume_go" => FreshRuns'
  /\ call \in {"resume", "resume_if_running"} => (ok' => Released')
Kept(call) == StillIn(call) \/ (code' = <<>> /\ (Raises2 \/ Ended(call)))

\* The write of the tool write_register.
LEMMA WriteProper == Proper(<<<<"a0", <<"a0", "tool">>>>>>)
BY SingleProper

\* Every call keeps its invariant up to its end.
LEMMA CallKept ==
  ASSUME TypeInv, IsolatedInv, NEW call \in AllCalls, CallInv(call), CallStep
  PROVE  Kept(call)
<1>1. CASE call = "examine"
  <2>1. ExamineAt' \/ (code' = <<>> /\ ~abs'.busy)
    BY <1>1, ExamineNext DEF CallInv
  <2> QED BY <1>1, <2>1 DEF Kept, StillIn, CallInv, Ended
<1>2. CASE call \in {"halt", "halt_if_running", "halt_or_exit"}
  <2>1. HaltAt' \/ (code' = <<>> /\ ~abs'.busy /\ (ok' => hart' = "halted"))
    BY <1>2, HaltNext DEF CallInv
  <2> QED BY <1>2, <2>1 DEF Kept, StillIn, CallInv, Ended
<1>3. CASE call \in {"resume", "resume_if_running"}
  <2>1. ResumeAt' \/ (code' = <<>> /\ (ok' => Released'))
    BY <1>3, ResumeNext DEF CallInv
  <2> QED BY <1>3, <2>1 DEF Kept, StillIn, CallInv, Ended
<1>4. CASE call \in {"memory", "usb_reset", "reopen"}
  <2>1. code = <<Memory("none")>> /\ (call = "memory" => ~abs.busy)
    BY <1>4 DEF CallInv
  <2>2. \/ code' = code /\ (~abs.busy => ~abs'.busy)
        \/ code' = <<>> /\ abs' = abs
    BY <2>1, MemoryNext
  <2>3. CASE call = "memory"
    BY <2>1, <2>2, <2>3 DEF Kept, StillIn, CallInv, Ended
  <2>4. CASE call \in {"usb_reset", "reopen"}
    BY <2>1, <2>2, <2>4 DEF Kept, StillIn, CallInv, Ended
  <2> QED BY <1>4, <2>3, <2>4
<1>5. CASE call = "read"
  <2>1. \/ StillWorking(A0) /\ Tail(code') = <<>>
        \/ code' = <<>> /\ (Quiet' \/ Raises2)
    BY <1>5, SingleProper, OneRegisterNext DEF CallInv
  <2> QED BY <1>5, <2>1 DEF Kept, StillIn, CallInv, Ended, StillWorking, Quiet
<1>6. CASE call = "write"
  <2> DEFINE P == <<<<"a0", <<"a0", "tool">>>>>>
  <2>1. Working(P) /\ Tail(code) = <<>> /\ Proper(P)
    BY <1>6, WriteProper DEF CallInv
  <2>2. (StillWorking(P) /\ Tail(code') = <<>>) => StillIn(call)
    BY <1>6 DEF StillIn, CallInv, StillWorking
  <2> HIDE DEF P
  <2>3. \/ StillWorking(P) /\ Tail(code') = <<>>
        \/ code' = <<>> /\ (Quiet' \/ Raises2)
    BY <2>1, OneRegisterNext
  <2>4. Quiet' => Ended(call)
    BY <1>6 DEF Ended, Quiet
  <2> QED BY <2>2, <2>3, <2>4 DEF Kept
<1>7. CASE call = "reset"
  <2>1. code' \in Suffixes(ResetCode) \cup {<<>>}
    BY <1>7, ResetNext DEF CallInv
  <2> QED BY <1>7, <2>1 DEF Kept, StillIn, CallInv, Ended
<1>8. CASE call = "soc_reset"
  <2>1. SocResetAt' \/ (code' = <<>> /\ Fresh')
    BY <1>8, SocResetNext DEF CallInv
  <2> QED BY <1>8, <2>1 DEF Kept, StillIn, CallInv, Ended
<1>9. CASE call = "deassert"
  <2>1. code' \in DeassertCodes \cup {<<>>} /\ Fresh'
    BY <1>9, DeassertNext DEF CallInv, DeassertCodes
  <2> QED BY <1>9, <2>1 DEF Kept, StillIn, CallInv, Ended, DeassertCodes
<1>10. CASE call = "halt_go"
  <2>1. code' \in Suffixes(HaltGoCode) \cup {<<>>} /\ Fresh'
    BY <1>10, HaltGoNext DEF CallInv
  <2> QED BY <1>10, <2>1 DEF Kept, StillIn, CallInv, Ended
<1>11. CASE call = "set_ebreak"
  <2>1. SetEbreakAt' \/ (code' = <<>> /\ (EbreakSet' \/ Raises2))
    BY <1>11, SetEbreakNext DEF CallInv
  <2> QED BY <1>11, <2>1 DEF Kept, StillIn, CallInv, Ended
<1>12. CASE call = "resume_go"
  <2>1. ResumeGoAt' \/ (code' = <<>> /\ FreshRuns')
    BY <1>12, ResumeGoNext DEF CallInv
  <2> QED BY <1>12, <2>1 DEF Kept, StillIn, CallInv, Ended
<1>13. CASE call = "call_0"
  <2>1. StillCalling(0) \/ (code' = <<>> /\ Returned)
    BY <1>13, CallNext DEF CallInv, CallGoesOn
  <2> QED BY <1>13, <2>1 DEF Kept, StillIn, StillCalling, CallInv, Ended, Returned
<1>14. CASE call = "call_1"
  <2>1. StillCalling(1) \/ (code' = <<>> /\ Returned)
    BY <1>14, CallNext DEF CallInv, CallGoesOn
  <2> QED BY <1>14, <2>1 DEF Kept, StillIn, StillCalling, CallInv, Ended, Returned
<1> QED BY <1>1, <1>2, <1>3, <1>4, <1>5, <1>6, <1>7, <1>8, <1>9, <1>10, <1>11, <1>12, <1>13, <1>14
        DEF AllCalls

\* A step inside a call leaves the tool where it is, unless it raises.
LEMMA StepStays ==
  ASSUME TypeInv, IsolatedInv, CodeInv, CallStep
  PROVE  Raises2 \/ UNCHANGED <<tool, step, report>>
<1>1. CASE Hart
  BY <1>1, HartDoes
<1>2. CASE Host /\ ~Raise
  <2>1. CASE DmWrite \/ DmPoll \/ Status \/ MemoryAccess
    BY <2>1 DEF DmWrite, DmPoll, Status, MemoryAccess, Beside
  <2>2. CASE Local
    BY <2>2, Zenon DEF Local
  <2>3. CASE AccessStep
    <3>1. AbstractWait => Raised \/ UNCHANGED <<step, report>>
      BY Zenon DEF AbstractWait, Beside
    <3>2. Raised => Raises2
      BY DEF Raised, Raises2, Raises
    <3> QED BY <2>3, <3>1, <3>2, AccessFrame
  <2> QED BY <1>2, <2>1, <2>2, <2>3, HostStep DEF CallStep
<1> QED BY <1>1, <1>2 DEF CallStep

\* What a call begins with.
LEMMA CallBegins ==
  ASSUME NEW call \in AllCalls, code' = CodeOf(call),
         call \notin {"examine", "resume", "resume_if_running", "reset", "usb_reset", "reopen",
                      "soc_reset"} => ~abs'.busy,
         call \in {"deassert", "halt_go", "set_ebreak"} => Fresh',
         call = "resume_go" => EbreakSet',
         call \in {"call_0", "call_1"} => hart' # "reset"
  PROVE  StillIn(call) /\ code' # <<>>
<1>1. CASE call = "examine"
  <2>1. code' = ExamineCode /\ ExamineCode # <<>>
    BY <1>1, SimpleCodes, CodeTail DEF CodeOf
  <2> QED BY <1>1, <2>1 DEF StillIn, CallInv, ExamineAt
<1>2. CASE call \in {"halt", "halt_if_running", "halt_or_exit"}
  <2>1. code' = HaltCode /\ HaltCode # <<>>
    BY <1>2, SimpleCodes, CodeTail DEF CodeOf
  <2> QED BY <1>2, <2>1 DEF StillIn, CallInv, HaltAt
<1>3. CASE call \in {"resume", "resume_if_running"}
  <2>1. code' = ResumeCode /\ ResumeCode # <<>>
    BY <1>3, SimpleCodes, CodeTail DEF CodeOf
  <2> QED BY <1>3, <2>1 DEF StillIn, CallInv, ResumeAt
<1>4. CASE call \in {"memory", "usb_reset", "reopen"}
  <2>1. code' = <<Memory("none")>> /\ <<Memory("none")>> # <<>>
    BY <1>4, CodeTail DEF CodeOf, UsbReset, Reopen
  <2>2. call = "memory" => ~abs'.busy
    OBVIOUS
  <2> QED BY <1>4, <2>1, <2>2 DEF StillIn, CallInv
<1>5. CASE call = "read"
  <2>1. code' = <<Slowly(A0)>> /\ ~abs'.busy
    BY <1>5 DEF CodeOf, ReadRegister, A0
  <2>2. StillWorking(A0) /\ Tail(code') = <<>> /\ code' # <<>>
    BY <2>1, CodeTail, SingleProper, Begins
  <2> QED BY <1>5, <2>2 DEF StillIn, CallInv, StillWorking
<1>6. CASE call = "write"
  <2> DEFINE P == <<<<"a0", <<"a0", "tool">>>>>>
  <2>1. code' = <<Slowly(P)>> /\ ~abs'.busy
    BY <1>6 DEF CodeOf, WriteRegister
  <2>2. Proper(P)
    BY WriteProper
  <2>3. (StillWorking(P) /\ Tail(code') = <<>>) => StillIn(call)
    BY <1>6 DEF StillIn, CallInv, StillWorking
  <2> HIDE DEF P
  <2>4. StillWorking(P) /\ Tail(code') = <<>> /\ code' # <<>>
    BY <2>1, <2>2, CodeTail, Begins
  <2> QED BY <2>3, <2>4
<1>7. CASE call = "reset"
  <2>1. code' = ResetCode /\ ResetCode # <<>>
    BY <1>7 DEF CodeOf, ResetCode
  <2>2. ResetCode \in Seq({ResetCode[i] : i \in 1..7})
    BY DEF ResetCode
  <2>3. ResetCode \in Suffixes(ResetCode)
    BY <2>1, <2>2, Ends
  <2> QED BY <1>7, <2>1, <2>3 DEF StillIn, CallInv
<1>8. CASE call = "soc_reset"
  <2>1. code' = SocResetCode /\ SocResetCode # <<>>
    BY <1>8 DEF CodeOf, SocResetCode
  <2> QED BY <1>8, <2>1 DEF StillIn, CallInv, SocResetAt
<1>9. CASE call = "deassert"
  <2>1. code' = DeassertCode /\ DeassertCode # <<>>
    BY <1>9, OtherCodes, CodeTail DEF CodeOf
  <2> QED BY <1>9, <2>1 DEF StillIn, CallInv
<1>10. CASE call = "halt_go"
  <2> DEFINE p == Poll("not_running", <<Drop>>)
  <2>1. code' = HaltGoCode
    BY <1>10 DEF CodeOf
  <2>2. HaltGoCode = <<Stop, p, Drop>>
    BY OtherCodes
  <2> HIDE DEF p
  <2>3. HaltGoCode \in Seq({Stop, p, Drop}) /\ HaltGoCode # <<>>
    BY <2>2
  <2>4. HaltGoCode \in Suffixes(HaltGoCode)
    BY <2>3, Ends
  <2> QED BY <1>10, <2>1, <2>3, <2>4 DEF StillIn, CallInv
<1>11. CASE call = "set_ebreak"
  <2> DEFINE w == WriteRegister("dcsr", <<"dcsr", "ebreak">>)
  <2>1. code' = <<Slowly(EbreakRead), w>> /\ ~abs'.busy /\ (hart' = "reset" \/ ~InCallee')
    BY <1>11 DEF CodeOf, SetEbreakCode, ReadRegister, EbreakRead, Fresh
  <2>2. Proper(EbreakRead)
    BY SingleProper DEF EbreakRead
  <2> HIDE DEF w
  <2>3. Head(code') = Slowly(EbreakRead) /\ Tail(code') = <<w>> /\ code' # <<>>
    BY <2>1, CodeTail
  <2>4. StillWorking(EbreakRead)
    BY <2>1, <2>2, <2>3, Begins
  <2>5. SetEbreakAt'
    BY <2>1, <2>3, <2>4 DEF SetEbreakAt, StillWorking, EbreakRead, w
  <2> QED BY <1>11, <2>3, <2>5 DEF StillIn, CallInv
<1>12. CASE call = "resume_go"
  <2> DEFINE w == Write({})  t == Return(TRUE) p == Poll("resumeack", <<Drop, Write({}), Return(FALSE)>>)
  <2>1. code' = ResumeGoCode
    BY <1>12 DEF CodeOf
  <2>2. ResumeGoCode = <<Start, p, Drop, w, t>>
    BY OtherCodes
  <2> HIDE DEF w, t, p
  <2>3. ResumeGoCode # <<>>
    BY <2>2
  <2> QED BY <1>12, <2>1, <2>3 DEF StillIn, CallInv, ResumeGoAt
<1>13. CASE call = "call_0"
  <2>1. code' = CallCode(0) /\ CallCode(0) # <<>>
    BY <1>13, CallCodeIs DEF CodeOf
  <2> QED BY <1>13, <2>1 DEF StillIn, CallInv, CallAt, Saving
<1>14. CASE call = "call_1"
  <2>1. code' = CallCode(1) /\ CallCode(1) # <<>>
    BY <1>14, CallCodeIs DEF CodeOf
  <2> QED BY <1>14, <2>1 DEF StillIn, CallInv, CallAt, Saving
<1> QED BY <1>1, <1>2, <1>3, <1>4, <1>5, <1>6, <1>7, <1>8, <1>9, <1>10, <1>11, <1>12, <1>13, <1>14
        DEF AllCalls

-----------------------------------------------------------------------------
(***************************************************************************)
(* The tools, one step on                                                  *)
(***************************************************************************)
\* The calls that leave no command in progress.
LeavesIdle == {"examine", "memory", "read", "write", "halt", "halt_if_running", "halt_or_exit",
               "call_0", "call_1"}

\* Which calls a tool makes, and when.
LEMMA ToolOrder ==
  ASSUME NEW t \in Tools, NEW i \in 1..Len(Calls(t))
  PROVE  LET c == Calls(t)[i] IN
         /\ Calls(t)[1] = "examine" /\ i < Len(Calls(t)) => c \in LeavesIdle
         /\ c \in {"halt", "halt_if_running", "halt_or_exit", "memory", "read", "write",
                   "call_0", "call_1"} => Calls(t)[1] = "examine" /\ i > 1
         /\ t = "info" =>
              /\ Calls(t)[1] = "examine" /\ Len(Calls(t)) = 5
              /\ (i = 2 <=> c = "halt_or_exit") /\ (i = 3 <=> c = "call_0")
              /\ (i = 4 <=> c = "call_1") /\ (i = 5 <=> c = "resume")
         /\ c \in {"halt_or_exit", "call_0", "call_1"} => t = "info"
         /\ c \in {"deassert", "halt_go", "set_ebreak", "resume_go"} =>
              t = "reset_from_rom" /\ i = CASE c = "deassert" -> 5 [] c = "halt_go" -> 6
                                            [] c = "set_ebreak" -> 7 [] c = "resume_go" -> 8
         /\ t = "reset_from_rom" =>
              /\ Calls(t)[1] # "examine" /\ Len(Calls(t)) = 8
              /\ i = 4 => c = "soc_reset"
              /\ i = 5 => c = "deassert"
              /\ i = 6 => c = "halt_go"
              /\ i = 7 => c = "set_ebreak"
              /\ i = 8 => c = "resume_go"
         /\ t \in Reading =>
              /\ Calls(t)[1] = "examine" /\ Len(Calls(t)) \in {4, 5}
              /\ i = Len(Calls(t)) => c = "resume_if_running"
<1> DEFINE Order(s, cs, j) ==
             LET c == cs[j] IN
             /\ cs[1] = "examine" /\ j < Len(cs) => c \in LeavesIdle
             /\ c \in {"halt", "halt_if_running", "halt_or_exit", "memory", "read", "write",
                       "call_0", "call_1"} => cs[1] = "examine" /\ j > 1
             /\ s = "info" =>
                  /\ cs[1] = "examine" /\ Len(cs) = 5
                  /\ (j = 2 <=> c = "halt_or_exit") /\ (j = 3 <=> c = "call_0")
                  /\ (j = 4 <=> c = "call_1") /\ (j = 5 <=> c = "resume")
             /\ c \in {"halt_or_exit", "call_0", "call_1"} => s = "info"
             /\ c \in {"deassert", "halt_go", "set_ebreak", "resume_go"} =>
                  s = "reset_from_rom" /\ j = CASE c = "deassert" -> 5 [] c = "halt_go" -> 6
                                                [] c = "set_ebreak" -> 7 [] c = "resume_go" -> 8
             /\ s = "reset_from_rom" =>
                  /\ cs[1] # "examine" /\ Len(cs) = 8
                  /\ j = 4 => c = "soc_reset"
                  /\ j = 5 => c = "deassert"
                  /\ j = 6 => c = "halt_go"
                  /\ j = 7 => c = "set_ebreak"
                  /\ j = 8 => c = "resume_go"
             /\ s \in Reading =>
                  /\ cs[1] = "examine" /\ Len(cs) \in {4, 5}
                  /\ j = Len(cs) => c = "resume_if_running"
<1>1. t \in {"read_memory", "read_register", "probe", "halt", "resume", "write_register",
             "write_memory", "reset_run", "reset_from_rom", "info"}
  BY RunControlAssumption
<1>2. /\ \A j \in 1..4 : Order("read_memory", <<"examine", "halt_if_running", "memory", "resume_if_running">>, j)
  BY DEF LeavesIdle, Reading
<1>3. \A j \in 1..4 : Order("read_register", <<"examine", "halt_if_running", "read", "resume_if_running">>, j)
  BY DEF LeavesIdle, Reading
<1>4. \A j \in 1..5 : Order("probe", <<"examine", "halt_if_running", "read", "memory", "resume_if_running">>, j)
  BY DEF LeavesIdle, Reading
<1>5. /\ \A j \in 1..2 : Order("halt", <<"examine", "halt">>, j)
      /\ \A j \in 1..2 : Order("resume", <<"examine", "resume">>, j)
      /\ \A j \in 1..2 : Order("write_memory", <<"examine", "memory">>, j)
  BY DEF LeavesIdle, Reading
<1>6. \A j \in 1..4 : Order("write_register", <<"examine", "halt", "write", "read">>, j)
  BY DEF LeavesIdle, Reading
<1>7. \A j \in 1..1 : Order("reset_run", <<"reset">>, j)
  BY DEF LeavesIdle, Reading
<1>8. \A j \in 1..8 : Order("reset_from_rom", FromRomCalls, j)
  BY DEF LeavesIdle, Reading, FromRomCalls
<1>9. \A j \in 1..5 : Order("info", <<"examine", "halt_or_exit", "call_0", "call_1", "resume">>, j)
  BY DEF LeavesIdle, Reading
<1>10. Order(t, Calls(t), i)
  <2>1. /\ Len(Calls("read_memory")) = 4 /\ Len(Calls("read_register")) = 4 /\ Len(Calls("probe")) = 5
        /\ Len(Calls("halt")) = 2 /\ Len(Calls("resume")) = 2 /\ Len(Calls("write_memory")) = 2
        /\ Len(Calls("write_register")) = 4 /\ Len(Calls("reset_run")) = 1
        /\ Len(Calls("reset_from_rom")) = 8 /\ Len(Calls("info")) = 5
    BY CallsOf DEF FromRomCalls
  <2> HIDE DEF Order
  <2> QED BY <1>1, <1>2, <1>3, <1>4, <1>5, <1>6, <1>7, <1>8, <1>9, <2>1, CallsOf
<1> QED BY <1>10

\* The call that is next, or that runs, as the tool and the step say.
LEMMA InvOf ==
  ASSUME NEW call, call = This', StillIn(call)
  PROVE  CallInv(This)'
BY DEF StillIn, CallInv

\* Every step keeps where an exception has left the tool.
LEMMA RaisedNext ==
  ASSUME TypeInv, IsolatedInv, CodeInv, RaisedInv, Next
  PROVE  RaisedInv'
<1>1. CASE \E t \in Tools : StartTool(t)
  BY <1>1 DEF StartTool, RaisedInv
<1>2. CASE StartCall
  <2>1. /\ tool \in Tools /\ step \in 1..Len(Calls(tool)) + 1 /\ step <= Len(Calls(tool))
        /\ UNCHANGED <<tool, report>> /\ ~Idle
    BY <1>2 DEF StartCall, TypeInv, Idle
  <2>2. Len(Calls(tool)) \in 1..9
    BY <2>1, ToolCalls
  <2>3. step' \in {step + 1, Len(Calls(tool)) + 1}
    BY <1>2, Zenon DEF StartCall
  <2>4. step' >= step
    BY <2>1, <2>2, <2>3
  <2>5. step' \in Nat
    BY <2>1, <2>2, <2>3
  <2> DEFINE last == IF tool = "info" THEN 5 ELSE Len(Calls(tool)) + 1
  <2>6. last \in Nat
    BY <2>2
  <2>7. report # None => step >= last
    BY <2>1 DEF RaisedInv
  <2>8. report # None => step' >= last
    <3> HIDE DEF last
    <3> QED BY <2>1, <2>2, <2>4, <2>5, <2>6, <2>7
  <2> QED BY <2>1, <2>8 DEF RaisedInv, Idle
<1>3. CASE EndTool
  BY <1>3 DEF EndTool, RaisedInv, Idle
<1>4. ASSUME Raises2, code # <<>> PROVE RaisedInv'
  <2>1. tool \in Tools /\ tool' = tool
    BY <1>4, Running DEF Raises2
  <2>2. Len(Calls(tool)) \in 1..9 /\ (tool = "info" => Len(Calls(tool)) = 5)
    BY <2>1, ToolCalls
  <2>3. step' = IF tool = "info" /\ step \in 4..5 THEN 5 ELSE Len(Calls(tool)) + 1
    BY <1>4 DEF Raises2
  <2>4. step' >= IF tool = "info" THEN 5 ELSE Len(Calls(tool)) + 1
    BY <2>2, <2>3, SMTT(30)
  <2> QED BY <2>1, <2>4 DEF RaisedInv
<1>5. CASE code # <<>> /\ Raise
  BY <1>4, <1>5 DEF Raise, Raised, Raises2, Raises
<1>6. CASE code # <<>> /\ ~Raise
  <2>1. CASE Host \/ Hart
    <3>1. CallStep
      BY <1>6, <2>1, Running DEF CallStep
    <3>2. Raises2 \/ UNCHANGED <<tool, step, report>>
      BY <3>1, StepStays
    <3> QED BY <1>4, <1>6, <3>2 DEF RaisedInv, Idle
  <2> QED BY <2>1 DEF Next
<1>7. CASE code = <<>> /\ Hart
  <2>1. UNCHANGED <<tool, step, report>>
    BY <1>7, HartDoes
  <2> QED BY <2>1 DEF RaisedInv, Idle
<1>8. CASE code = <<>> /\ Host
  <2>1. (\E t \in Tools : StartTool(t)) \/ StartCall \/ EndTool
    BY <1>8, Zenon DEF Host, Raise, DmWrite, DmPoll, Status, MemoryAccess, Local, CommandWrite,
       AbstractWait, DataRead, BatchRun, BatchCheck, At, Doing
  <2> QED BY <1>1, <1>2, <1>3, <2>1
<1> QED BY <1>5, <1>6, <1>7, <1>8 DEF Next

\* A tool that has not raised begins its next call with all it needs.
LEMMA StartKept ==
  ASSUME TypeInv, BetweenInv, RaisedInv, StartCall, code' # <<>>
  PROVE  CodeInv'
<1>1. /\ tool \in Tools /\ step \in 1..Len(Calls(tool)) + 1 /\ step <= Len(Calls(tool))
      /\ ~Idle /\ code = <<>>
      /\ UNCHANGED <<tool, report, device>>
  BY DEF StartCall, TypeInv, Idle
<1>2. Len(Calls(tool)) \in 1..9 /\ step \in 1..Len(Calls(tool))
  BY <1>1, ToolCalls
<1>3. PICK c : c = Calls(tool)[step]
  OBVIOUS
<1>4. c \in AllCalls
  BY <1>1, <1>2, <1>3, ToolCalls
<1>5. /\ step' = step + 1 /\ code' = CodeOf(c)
      /\ ~(step > 1 /\ This = "halt_or_exit" /\ ~ok)
  <2>1. CASE step > 1 /\ This = "halt_or_exit" /\ ~ok
    BY <1>1, <2>1 DEF StartCall
  <2>2. CASE ~(step > 1 /\ This = "halt_or_exit" /\ ~ok)
    <3>1. /\ step' = step + 1
          /\ code' = CodeOf(Calls(tool)[step]) \/ code' = code
      BY <2>2, Zenon DEF StartCall
    <3> QED BY <1>1, <1>3, <2>2, <3>1
  <2> QED BY <2>1, <2>2
<1>6. This' = c /\ step' > 1 /\ ~Idle'
  <2>1. step' - 1 = step
    BY <1>2, <1>5
  <2> QED BY <1>1, <1>2, <1>3, <1>5, <2>1 DEF This, Idle
<1> DEFINE lists == {"halt", "halt_if_running", "halt_or_exit", "memory", "read", "write",
                     "call_0", "call_1"}
           from == {"deassert", "halt_go", "set_ebreak", "resume_go"}
<1>7. c \in lists \cup from => Smoothly
  <2>1. c \in lists \cup from => c # "resume"
    OBVIOUS
  <2>2. tool = "info" /\ c # "resume" => step # 5
    BY <1>1, <1>2, <1>3, ToolOrder
  <2>3. tool = "info" => Len(Calls(tool)) = 5
    BY <1>1, ToolCalls
  <2>4. c \in lists \cup from => ~(step >= IF tool = "info" THEN 5 ELSE Len(Calls(tool)) + 1)
    <3> SUFFICES ASSUME c \in lists \cup from
                 PROVE  ~(step >= IF tool = "info" THEN 5 ELSE Len(Calls(tool)) + 1)
      OBVIOUS
    <3>1. c # "resume"
      BY <2>1
    <3> HIDE DEF lists, from
    <3>2. CASE tool = "info"
      <4>1. step # 5
        BY <2>2, <3>1, <3>2
      <4>2. step <= 5 /\ step \in Nat
        <5>1. step \in 1..Len(Calls(tool))
          BY <1>2
        <5>2. Len(Calls(tool)) = 5
          BY <2>3, <3>2
        <5> QED BY <5>1, <5>2
      <4>3. step < 5
        BY <4>1, <4>2
      <4> QED BY <3>2, <4>2, <4>3
    <3>3. CASE tool # "info"
      BY <1>2, <3>3
    <3> QED BY <3>2, <3>3
  <2> QED BY <1>1, <2>4 DEF RaisedInv, Smoothly
<1>8. c \in lists => ~abs.busy
  <2>1. c \in lists => Calls(tool)[1] = "examine" /\ step > 1
    BY <1>1, <1>2, <1>3, ToolOrder
  <2>2. step > 1 => step \in 2..Len(Calls(tool))
    BY <1>2
  <2> QED BY <1>7, <2>1, <2>2 DEF BetweenInv
<1>9. c \in from => /\ tool = "reset_from_rom"
                    /\ step = CASE c = "deassert" -> 5 [] c = "halt_go" -> 6
                                [] c = "set_ebreak" -> 7 [] c = "resume_go" -> 8
  BY <1>1, <1>2, <1>3, ToolOrder
<1>10. c \in {"deassert", "halt_go", "set_ebreak"} => Fresh
  BY <1>7, <1>9 DEF BetweenInv
<1>11. c = "resume_go" => EbreakSet
  BY <1>7, <1>9 DEF BetweenInv
<1>12. c \in {"call_0", "call_1"} => hart # "reset"
  <2>1. c \in {"call_0", "call_1"} => tool = "info" /\ Smoothly
    BY <1>1, <1>2, <1>3, <1>7, ToolOrder
  <2>2. CASE c = "call_0"
    <3>1. step = 3
      <4>1. tool = "info" => (step = 3 <=> Calls(tool)[step] = "call_0")
        BY <1>1, <1>2, ToolOrder
      <4> QED BY <1>3, <2>1, <2>2, <4>1
    <3>2. This = "halt_or_exit"
      <4>1. 2 \in 1..Len(Calls(tool)) /\ step - 1 = 2
        BY <1>1, <2>1, <2>2, <3>1, ToolCalls
      <4>2. Calls(tool)[2] = "halt_or_exit"
        BY <1>1, <2>1, <2>2, <4>1, ToolOrder
      <4> QED BY <4>1, <4>2 DEF This
    <3>3. ok
      BY <1>5, <3>1, <3>2
    <3> QED BY <2>1, <2>2, <3>1, <3>3 DEF BetweenInv, Quiet
  <2>3. CASE c = "call_1"
    <3>1. step = 4
      <4>1. tool = "info" => (step = 4 <=> Calls(tool)[step] = "call_1")
        BY <1>1, <1>2, ToolOrder
      <4> QED BY <1>3, <2>1, <2>3, <4>1
    <3> QED BY <2>1, <2>3, <3>1 DEF BetweenInv
  <2> QED BY <2>2, <2>3
<1>13. /\ abs' = abs /\ hart' = hart /\ regs' = regs
  BY <1>1 DEF device
<1>14. c \in AllCalls /\ c \notin {"examine", "resume", "resume_if_running", "reset", "usb_reset",
                                   "reopen", "soc_reset"} => c \in lists \cup from
  BY DEF AllCalls
<1>15. c \in from => ~abs.busy
  BY <1>10, <1>11 DEF Fresh, EbreakSet, Quiet
<1>16. StillIn(c)
  <2>1. Fresh' = Fresh /\ EbreakSet' = EbreakSet
    BY <1>13 DEF Fresh, EbreakSet, Quiet, InCallee, Program
  <2>2. /\ c \notin {"examine", "resume", "resume_if_running", "reset", "usb_reset", "reopen",
                     "soc_reset"} => ~abs'.busy
    BY <1>4, <1>8, <1>13, <1>14, <1>15
  <2>3. c \in {"deassert", "halt_go", "set_ebreak"} => Fresh'
    BY <1>10, <2>1
  <2>4. c = "resume_go" => EbreakSet'
    BY <1>11, <2>1
  <2>5. c \in {"call_0", "call_1"} => hart' # "reset"
    BY <1>12, <1>13
  <2> QED BY <1>4, <1>5, <2>2, <2>3, <2>4, <2>5, CallBegins
<1>17. CallInv(This)'
  BY <1>6, <1>16, InvOf
<1> QED BY <1>6, <1>17 DEF CodeInv

\* Every step keeps the invariant of the call that runs.
LEMMA CodeNext ==
  ASSUME TypeInv, IsolatedInv, CodeInv, BetweenInv, RaisedInv, Next
  PROVE  CodeInv'
<1>1. CASE code' = <<>>
  BY <1>1 DEF CodeInv
<1>2. CASE code' # <<>> /\ code = <<>>
  <2>1. CASE Hart
    BY <1>2, <2>1, HartDoes
  <2>2. CASE Host
    <3>1. (\E t \in Tools : StartTool(t)) \/ StartCall \/ EndTool
      BY <1>2, <2>2, Zenon DEF Host, Raise, DmWrite, DmPoll, Status, MemoryAccess, Local, CommandWrite,
         AbstractWait, DataRead, BatchRun, BatchCheck, At, Doing
    <3>2. StartCall
      BY <1>2, <3>1 DEF StartTool, EndTool
    <3> QED BY <1>2, <3>2, StartKept
  <2> QED BY <2>1, <2>2 DEF Next
<1>3. CASE code' # <<>> /\ code # <<>>
  <2>1. ~Raise
    BY <1>3 DEF Raise, Raised
  <2>2. /\ ~Idle /\ This \in AllCalls /\ CallInv(This) /\ step \in 2..Len(Calls(tool)) + 1
        /\ Len(Calls(tool)) \in 1..9
    BY <1>3, Running
  <2>3. CallStep
    BY <1>3, <2>1, <2>2 DEF CallStep, Next
  <2>4. PICK c : c = This
    OBVIOUS
  <2>5. Kept(c)
    BY <2>2, <2>3, <2>4, CallKept
  <2>6. StillIn(c)
    BY <1>3, <2>5 DEF Kept
  <2>7. UNCHANGED <<tool, step, report>>
    BY <1>3, <2>3, StepStays DEF Raises2
  <2>8. This' = c /\ step' > 1 /\ ~Idle'
    BY <2>2, <2>4, <2>7 DEF This, Idle
  <2>9. CallInv(This)'
    BY <2>6, <2>8, InvOf
  <2> QED BY <2>8, <2>9 DEF CodeInv
<1> QED BY <1>1, <1>2, <1>3

\* The calls that a tool makes only if the hart ran.
LEMMA ToolIfs ==
  ASSUME NEW t \in Tools, NEW i \in 1..Len(Calls(t)),
         Calls(t)[i] \in {"halt_if_running", "resume_if_running"}
  PROVE  t \in Reading /\ i > 1 /\ Calls(t)[1] = "examine"
<1>1. t \in {"read_memory", "read_register", "probe", "halt", "resume", "write_register",
             "write_memory", "reset_run", "reset_from_rom", "info"}
  BY RunControlAssumption
<1>2. CASE t \in Reading
  <2>1. Calls(t)[1] = "examine"
    BY <1>2, CallsOf DEF Reading
  <2>2. i # 1
    BY <2>1
  <2> QED BY <1>2, <2>1, <2>2
<1> DEFINE ifs == {"halt_if_running", "resume_if_running"}
<1>3. CASE t = "reset_from_rom"
  <2>1. \A j \in 1..Len(FromRomCalls) : FromRomCalls[j] \notin ifs
    BY DEF FromRomCalls
  <2> QED BY <1>3, <2>1, CallsOf
<1>4. CASE t \in {"halt", "resume", "write_memory", "reset_run"}
  <2>1. \A cs \in {<<"examine", "halt">>, <<"examine", "resume">>, <<"examine", "memory">>, <<"reset">>} :
           \A j \in 1..Len(cs) : cs[j] \notin ifs
    OBVIOUS
  <2> QED BY <1>4, <2>1, CallsOf
<1>5. CASE t = "write_register"
  <2>1. \A j \in 1..Len(<<"examine", "halt", "write", "read">>) :
           <<"examine", "halt", "write", "read">>[j] \notin ifs
    OBVIOUS
  <2> QED BY <1>5, <2>1, CallsOf
<1>6. CASE t = "info"
  <2>1. \A j \in 1..Len(<<"examine", "halt_or_exit", "call_0", "call_1", "resume">>) :
           <<"examine", "halt_or_exit", "call_0", "call_1", "resume">>[j] \notin ifs
    OBVIOUS
  <2> QED BY <1>6, <2>1, CallsOf
<1> QED BY <1>1, <1>2, <1>3, <1>4, <1>5, <1>6 DEF Reading

\* Every call makes at least one access.
LEMMA CodeNotEmpty ==
  ASSUME NEW call \in AllCalls
  PROVE  CodeOf(call) # <<>>
<1>1. CASE call \in {"examine", "halt", "halt_if_running", "halt_or_exit", "resume", "resume_if_running"}
  BY <1>1, SimpleCodes, CodeTail DEF CodeOf
<1>2. CASE call \in {"memory", "usb_reset", "reopen", "read", "write"}
  BY <1>2, CodeTail DEF CodeOf, UsbReset, Reopen, ReadRegister, WriteRegister
<1>3. CASE call \in {"reset", "soc_reset"}
  BY <1>3 DEF CodeOf, ResetCode, SocResetCode
<1>4. CASE call \in {"deassert", "halt_go"}
  BY <1>4, OtherCodes, CodeTail DEF CodeOf
<1>5. CASE call = "set_ebreak"
  BY <1>5, CodeTail DEF CodeOf, SetEbreakCode
<1>6. CASE call = "resume_go"
  <2> DEFINE w == Write({})  t == Return(TRUE) p == Poll("resumeack", <<Drop, Write({}), Return(FALSE)>>)
  <2>1. CodeOf(call) = <<Start, p, Drop, w, t>>
    BY <1>6, OtherCodes DEF CodeOf
  <2> HIDE DEF w, t, p
  <2> QED BY <2>1
<1>7. CASE call \in {"call_0", "call_1"}
  BY <1>7, CallCodeIs DEF CodeOf
<1> QED BY <1>1, <1>2, <1>3, <1>4, <1>5, <1>6, <1>7 DEF AllCalls

\* A call that goes on has accesses left.
LEMMA SuffixNotEmpty ==
  ASSUME NEW S, NEW c \in Seq(S), NEW x \in Suffixes(c)
  PROVE  x # <<>>
<1>1. PICK i \in 1..Len(c) : x = SubSeq(c, i, Len(c))
  BY DEF Suffixes
<1>2. Len(x) = IF i <= Len(c) THEN Len(c) - i + 1 ELSE 0
  BY <1>1, SubSeqProperties
<1>3. Len(x) # 0
  BY <1>2
<1> QED BY <1>3

\* None of the codes of the resets is empty.
LEMMA LongCodes ==
  /\ \A x \in Suffixes(ResetCode) : x # <<>>
  /\ \A x \in Suffixes(HaltGoCode) : x # <<>>
  /\ SocResetCode # <<>> /\ Tail(SocResetCode) # <<>>
  /\ \A x \in Suffixes(Tail(Tail(SocResetCode))) : x # <<>>
  /\ DeassertCode # <<>> /\ Tail(DeassertCode) # <<>>
  /\ ResumeGoCode # <<>> /\ Tail(ResumeGoCode) # <<>>
<1>1. ResetCode \in Seq({ResetCode[i] : i \in 1..7})
  BY DEF ResetCode
<1> DEFINE p == Poll("not_running", <<Drop>>)  q == Poll("left", <<Acknowledge>>)
           r == Poll("resumeack", <<Drop, Write({}), Return(FALSE)>>)
           m == Memory("reset")  w == Write({})  y == Write({"haltreq", "ndmreset", "dmactive"})
           t == Return(TRUE)
<1>2. HaltGoCode = <<Stop, p, Drop>> /\ DeassertCode = <<Drop, q, Acknowledge>>
  BY OtherCodes
<1>3. ResumeGoCode = <<Start, r, Drop, w, t>>
  BY OtherCodes
<1>4. SocResetCode = <<Stop, m, w, m, w, Start, Start, y>>
  BY Zenon DEF SocResetCode, Stop, Start
<1> HIDE DEF p, q, r, m, w, y, t
<1>5. Tail(SocResetCode) = <<m, w, m, w, Start, Start, y>>
  BY <1>4, LongTails
<1>6. Tail(Tail(SocResetCode)) = <<w, m, w, Start, Start, y>>
  <2>1. Tail(<<m, w, m, w, Start, Start, y>>) = <<w, m, w, Start, Start, y>>
    BY LongTails
  <2> QED BY <1>5, <2>1, Zenon
<1>7. HaltGoCode \in Seq({Stop, p, Drop})
  BY <1>2
<1>8. Tail(Tail(SocResetCode)) \in Seq({w, m, Start, y})
  <2>1. \A a, b, c, d : <<a, b, a, c, c, d>> \in Seq({a, b, c, d})
    OBVIOUS
  <2>2. <<w, m, w, Start, Start, y>> \in Seq({w, m, Start, y})
    BY <2>1
  <2> QED BY <1>6, <2>2
<1>9. SocResetCode # <<>> /\ Tail(SocResetCode) # <<>>
  BY <1>4, <1>5
<1>10. DeassertCode # <<>> /\ Tail(DeassertCode) # <<>>
  BY <1>2
<1>11. ResumeGoCode # <<>> /\ Tail(ResumeGoCode) # <<>>
  BY <1>3
<1> QED BY <1>1, <1>7, <1>8, <1>9, <1>10, <1>11, SuffixNotEmpty

\* No call that runs has an empty code.
LEMMA StillHasCode ==
  ASSUME NEW call \in AllCalls, StillIn(call)
  PROVE  code' # <<>>
<1>1. CASE call = "examine"
  BY <1>1, SimpleCodes, CodeTail DEF StillIn, CallInv, ExamineAt
<1>2. CASE call \in {"halt", "halt_if_running", "halt_or_exit"}
  <2>1. HaltAt'
    BY <1>2 DEF StillIn, CallInv
  <2>2. code' \in {HaltCode, Tail(HaltCode), <<Return(FALSE)>>,
                   <<Write({"dmactive"}), Memory("none")>>, <<Memory("none")>>}
    BY <2>1, Zenon DEF HaltAt
  <2>3. /\ HaltCode # <<>> /\ Tail(HaltCode) # <<>>
        /\ <<Write({"dmactive"}), Memory("none")>> # <<>> /\ <<Memory("none")>> # <<>>
    BY SimpleCodes, CodeTail
  <2> QED BY <2>2, <2>3, ReturnTail, Zenon
<1>3. CASE call \in {"resume", "resume_if_running"}
  <2>1. ResumeAt'
    BY <1>3 DEF StillIn, CallInv
  <2>2. code' \in {ResumeCode, Tail(ResumeCode), <<Return(FALSE)>>, <<Write({"dmactive"})>>}
    BY <2>1, Zenon DEF ResumeAt
  <2>3. ResumeCode # <<>> /\ Tail(ResumeCode) # <<>> /\ <<Write({"dmactive"})>> # <<>>
    BY SimpleCodes, CodeTail
  <2> QED BY <2>2, <2>3, ReturnTail, Zenon
<1>4. CASE call \in {"memory", "usb_reset", "reopen"}
  BY <1>4, CodeTail DEF StillIn, CallInv
<1>5. CASE call \in {"read", "write"}
  BY <1>5 DEF StillIn, CallInv, Working, WorkingOn
<1>6. CASE call = "reset"
  BY <1>6, LongCodes DEF StillIn, CallInv
<1>7. CASE call = "soc_reset"
  BY <1>7, LongCodes DEF StillIn, CallInv, SocResetAt
<1>8. CASE call = "deassert"
  BY <1>8, LongCodes, CodeTail DEF StillIn, CallInv
<1>9. CASE call = "halt_go"
  BY <1>9, LongCodes DEF StillIn, CallInv
<1>10. CASE call = "set_ebreak"
  BY <1>10 DEF StillIn, CallInv, SetEbreakAt, Working, WorkingOn
<1>11. CASE call = "resume_go"
  <2>1. ResumeGoAt'
    BY <1>11 DEF StillIn, CallInv
  <2> DEFINE w == Write({"dmactive"})  v == Write({})  t == Return(TRUE)  f == Return(FALSE)
  <2>2. code' \in {ResumeGoCode, Tail(ResumeGoCode), <<w, v, f>>, <<w, v, t>>, <<v, f>>, <<v, t>>,
                   <<f>>, <<t>>}
    BY <2>1, Zenon DEF ResumeGoAt
  <2> HIDE DEF w, v, t, f
  <2>3. \A a, b, c : <<a, b, c>> # <<>> /\ <<a, b>> # <<>> /\ <<a>> # <<>>
    OBVIOUS
  <2> QED BY <2>2, <2>3, LongCodes, Zenon
<1>12. ASSUME NEW n \in {0, 1}, StillCalling(n) PROVE code' # <<>>
  <2>1. CASE Saving(n)'
    <3>1. \A m, s : <<m, s>> # <<>> /\ <<s>> # <<>>
      OBVIOUS
    <3>2. CASE Working(Reads(n))'
      BY <3>2 DEF Working, WorkingOn
    <3>3. CASE code' \in {CallCode(n), <<Memory("trap"), Setup(n)>>, <<Setup(n)>>}
      BY <3>1, <3>3, CallCodeIs, Zenon
    <3> QED BY <2>1, <3>2, <3>3, Zenon DEF Saving
  <2>2. CASE SettingUp(n)' \/ Restoring(n)'
    <3>1. \A success \in BOOLEAN : \/ code' # <<>>
                                   \/ code' \notin {<<Restore, Return(success)>>, <<Return(success)>>}
      BY ReturnTail, Zenon
    <3> QED BY <2>2, <3>1 DEF SettingUp, Restoring, WorkingIn, Working, WorkingOn
  <2>3. CASE Going(n)'
    BY <2>3, CallTails DEF Going
  <2>4. CASE ReHalting(n)'
    <3>1. \A r : <<StillHalted, Restore, r>> # <<>> /\ <<Lost>> # <<>>
      OBVIOUS
    <3>2. code' \in {ReHaltCode, ReHaltCode2, ReHaltCode3, ReHaltCode4, <<Lost>>}
      BY <2>4 DEF ReHalting
    <3> QED BY <3>1, <3>2, CallTails, Zenon
  <2> QED BY <1>12, <2>1, <2>2, <2>3, <2>4, Zenon DEF StillCalling, CallAt
<1>13. CASE call = "call_0"
  BY <1>12, <1>13 DEF StillIn, CallInv, StillCalling
<1>14. CASE call = "call_1"
  BY <1>12, <1>14 DEF StillIn, CallInv, StillCalling
<1> QED BY <1>1, <1>2, <1>3, <1>4, <1>5, <1>6, <1>7, <1>8, <1>9, <1>10, <1>11, <1>13, <1>14 DEF AllCalls

\* The hart moves between two calls.
LEMMA BetweenHart ==
  ASSUME TypeInv, IsolatedInv, BetweenInv, code = <<>>, Hart
  PROVE  BetweenInv'
<1>1. /\ UNCHANGED <<tool, step, code, ok, wasRunning, report>>
      /\ Smoothly' <=> Smoothly
  BY HartDoes DEF Smoothly, Idle
<1>2. ~abs.busy => ~abs'.busy
  BY HartDoes
<1>3. ~Quiet
  BY QuietHart
<1>4. hart # "reset" => hart' # "reset"
  BY HartDoes
<1>5. Fresh => Fresh'
  BY FreshHart
<1>6. ~EbreakSet
  BY <1>3 DEF EbreakSet
<1>7. FreshRuns => FreshRuns'
  BY FreshRunsHart
<1>8. Released => Released'
  BY HartDoes DEF Released
<1> QED BY <1>1, <1>2, <1>3, <1>4, <1>5, <1>6, <1>7, <1>8, Zenon DEF BetweenInv

\* A call returns.
LEMMA BetweenEnded ==
  ASSUME ~Idle, tool \in Tools, step \in 2..Len(Calls(tool)) + 1, Len(Calls(tool)) \in 1..9,
         UNCHANGED <<tool, step>>, NEW c, c = This, Ended(c)
  PROVE  BetweenInv'
<1>1. PICK i \in 1..Len(Calls(tool)) : i = step - 1
  OBVIOUS
<1>2. c = Calls(tool)[i] /\ step = i + 1
  BY <1>1 DEF This
<1> DEFINE n == Len(Calls(tool))
<1>3. Calls(tool)[1] = "examine" /\ step \in 2..n => ~abs'.busy
  <2>1. step \in 2..n => i < n
    BY <1>1, <1>2
  <2>2. Calls(tool)[1] = "examine" /\ step \in 2..n => c \in LeavesIdle
    BY <1>1, <1>2, <2>1, ToolOrder
  <2>3. c \in LeavesIdle => ~abs'.busy
    BY DEF Ended, LeavesIdle
  <2> QED BY <2>2, <2>3
<1>4. tool = "info" /\ step = 3 /\ ok' => Quiet'
  <2>1. tool = "info" /\ step = 3 => i = 2
    BY <1>1, <1>2
  <2>2. tool = "info" /\ step = 3 => c = "halt_or_exit"
    BY <1>1, <1>2, <2>1, ToolOrder
  <2> QED BY <2>2 DEF Ended, Quiet
<1>5. tool = "info" /\ step = 4 => hart' # "reset"
  <2>1. tool = "info" /\ step = 4 => i = 3
    BY <1>1, <1>2
  <2>2. tool = "info" /\ step = 4 => c = "call_0"
    BY <1>1, <1>2, <2>1, ToolOrder
  <2> QED BY <2>2 DEF Ended
<1>6. tool = "reset_from_rom" /\ step \in 5..7 => Fresh'
  <2>1. tool = "reset_from_rom" /\ step \in 5..7 => i \in 4..6
    BY <1>1, <1>2
  <2>2. tool = "reset_from_rom" /\ step \in 5..7 => c \in {"soc_reset", "deassert", "halt_go"}
    BY <1>1, <1>2, <2>1, ToolOrder
  <2> QED BY <2>2 DEF Ended
<1>7. tool = "reset_from_rom" /\ step = 8 => EbreakSet'
  <2>1. tool = "reset_from_rom" /\ step = 8 => i = 7
    BY <1>1, <1>2
  <2>2. tool = "reset_from_rom" /\ step = 8 => c = "set_ebreak"
    BY <1>1, <1>2, <2>1, ToolOrder
  <2> QED BY <2>2 DEF Ended
<1>8. tool = "reset_from_rom" /\ step = 9 => FreshRuns'
  <2>1. tool = "reset_from_rom" /\ step = 9 => i = 8
    BY <1>1, <1>2
  <2>2. tool = "reset_from_rom" /\ step = 9 => c = "resume_go"
    BY <1>1, <1>2, <2>1, ToolOrder
  <2> QED BY <2>2 DEF Ended
<1>9. tool \in Reading /\ step = n + 1 /\ ok' => Released'
  <2>1. step = n + 1 => i = n
    BY <1>1, <1>2
  <2>2. tool \in Reading /\ step = n + 1 => c = "resume_if_running"
    BY <1>1, <1>2, <2>1, ToolOrder
  <2> QED BY <2>2 DEF Ended
<1> QED BY <1>3, <1>4, <1>5, <1>6, <1>7, <1>8, <1>9 DEF BetweenInv

\* A tool ends its call at once where the hart need not be halted or resumed.
LEMMA BetweenTool ==
  ASSUME TypeInv, BetweenInv, RaisedInv, (\E t \in Tools : StartTool(t)) \/ StartCall \/ EndTool
  PROVE  BetweenInv'
<1>1. CASE \E t \in Tools : StartTool(t)
  <2>1. PICK t \in Tools : StartTool(t)
    BY <1>1
  <2>2. tool' = t /\ step' = 1
    BY <2>1 DEF StartTool
  <2>3. Len(Calls(t)) \in 1..9 /\ 1 \in 1..Len(Calls(t))
    <3>1. Len(Calls(t)) \in 1..9
      BY ToolCalls, Zenon
    <3>2. \A n \in 1..9 : 1 \in 1..n
      OBVIOUS
    <3> QED BY <3>1, <3>2, Zenon
  <2>4. t \in Reading => Len(Calls(t)) \in {4, 5}
    BY <2>3, ToolOrder
  <2> QED BY <2>2, <2>3, <2>4 DEF BetweenInv
<1>2. CASE EndTool
  BY <1>2 DEF EndTool, BetweenInv, Smoothly, Idle
<1>3. CASE StartCall /\ code' # <<>>
  BY <1>3 DEF BetweenInv, Smoothly
<1>4. CASE StartCall /\ code' = <<>>
  <2>1. /\ tool \in Tools /\ step \in 1..Len(Calls(tool)) + 1 /\ step <= Len(Calls(tool))
        /\ ~Idle /\ code = <<>>
        /\ UNCHANGED <<tool, report, wasRunning, device>>
    BY <1>4 DEF StartCall, TypeInv, Idle
  <2>2. Len(Calls(tool)) \in 1..9 /\ step \in 1..Len(Calls(tool))
    BY <2>1, ToolCalls
  <2>3. CASE step > 1 /\ This = "halt_or_exit" /\ ~ok
    <3>1. step' = Len(Calls(tool)) + 1
      BY <1>4, <2>3 DEF StartCall
    <3>2. step - 1 \in 1..Len(Calls(tool))
      BY <2>2, <2>3
    <3>3. tool = "info"
      BY <2>1, <2>3, <3>2, ToolOrder DEF This
    <3>4. Len(Calls(tool)) = 5
      BY <2>1, <3>3, ToolCalls
    <3> QED BY <2>1, <3>1, <3>3, <3>4, SMTT(30) DEF BetweenInv, Reading
  <2>4. CASE ~(step > 1 /\ This = "halt_or_exit" /\ ~ok)
    <3>1. PICK c : c = Calls(tool)[step]
      OBVIOUS
    <3>2. /\ step' = step + 1
          /\ ~Needed(c)
      <4>1. step' = step + 1 /\ (Needed(c) => code' = CodeOf(c))
        BY <1>4, <2>4, <3>1, Zenon DEF StartCall
      <4>2. c \in AllCalls
        BY <2>1, <2>2, <3>1, ToolCalls
      <4>3. CodeOf(c) # <<>>
        BY <4>2, CodeNotEmpty
      <4> QED BY <1>4, <4>1, <4>3
    <3>3. c \in {"halt_if_running", "resume_if_running"} /\ ~wasRunning
      BY <3>2 DEF Needed
    <3>4. tool \in Reading /\ step > 1 /\ Calls(tool)[1] = "examine"
      BY <2>1, <2>2, <3>1, <3>3, ToolIfs
    <3>5. Smoothly' => Smoothly
      BY <2>1 DEF Smoothly
    <3>6. Smoothly' => ~abs'.busy
      <4>1. step \in 2..Len(Calls(tool))
        BY <2>2, <3>4
      <4> QED BY <2>1, <3>4, <3>5, <4>1 DEF BetweenInv, device
    <3>7. tool # "info" /\ tool # "reset_from_rom"
      BY <3>4 DEF Reading
    <3> QED BY <2>1, <3>3, <3>6, <3>7 DEF BetweenInv
  <2> QED BY <2>3, <2>4
<1> QED BY <1>1, <1>2, <1>3, <1>4

\* Every step keeps what one call leaves to the next.
LEMMA BetweenNext ==
  ASSUME TypeInv, IsolatedInv, CodeInv, BetweenInv, RaisedInv, Next
  PROVE  BetweenInv'
<1>1. CASE code' # <<>>
  BY <1>1 DEF BetweenInv, Smoothly
<1>2. CASE code' = <<>> /\ code = <<>>
  <2>1. CASE Hart
    BY <1>2, <2>1, BetweenHart
  <2>2. CASE Host
    <3>1. (\E t \in Tools : StartTool(t)) \/ StartCall \/ EndTool
      BY <1>2, <2>2, Zenon DEF Host, Raise, DmWrite, DmPoll, Status, MemoryAccess, Local, CommandWrite,
         AbstractWait, DataRead, BatchRun, BatchCheck, At, Doing
    <3> QED BY <3>1, BetweenTool
  <2> QED BY <2>1, <2>2 DEF Next
<1>3. CASE code' = <<>> /\ code # <<>>
  <2>1. /\ ~Idle /\ tool \in Tools /\ This \in AllCalls /\ CallInv(This)
        /\ step \in 2..Len(Calls(tool)) + 1 /\ Len(Calls(tool)) \in 1..9
    BY <1>3, Running
  <2>2. CASE Raises2 \/ Raise
    <3>1. report' = Raises
      BY <2>2 DEF Raises2, Raise, Raised, Raises
    <3>2. Raises \in [tool : Tools, how : {"ok", "failed", "raised"}]
      BY <2>1 DEF Raises
    <3>3. report' # None
      BY <3>1, <3>2, NoneAssumption
    <3> QED BY <3>3 DEF BetweenInv, Smoothly
  <2>3. CASE ~Raises2 /\ ~Raise
    <3>1. CallStep
      BY <1>3, <2>1, <2>3 DEF CallStep, Next
    <3>2. PICK c : c = This
      OBVIOUS
    <3>3. Kept(c)
      BY <2>1, <3>1, <3>2, CallKept
    <3>4. ~StillIn(c)
      BY <1>3, <2>1, <3>2, StillHasCode
    <3>5. Ended(c)
      BY <2>3, <3>3, <3>4 DEF Kept
    <3>6. UNCHANGED <<tool, step, report>>
      BY <2>3, <3>1, StepStays
    <3> QED BY <2>1, <3>2, <3>5, <3>6, BetweenEnded
  <2> QED BY <2>2, <2>3
<1> QED BY <1>1, <1>2, <1>3

-----------------------------------------------------------------------------
(***************************************************************************)
(* The invariant                                                           *)
(***************************************************************************)
LEMMA WorkingStutter ==
  ASSUME NEW P, Working(P), UNCHANGED vars
  PROVE  StillWorking(P)
<1>1. UNCHANGED <<code, vals, regs, abs, hart>>
  BY DEF vars, host, device
<1>2. Next1' = Next1 /\ Pair' = Pair
  BY <1>1 DEF Next1, Pair
<1>3. WorkingOn(P)' /\ AccessInv' /\ CheckInv'
  BY <1>1, <1>2 DEF Working, WorkingOn, AccessInv, CheckInv
<1>4. Progress(P)' /\ Pending(P)'
  BY <1>1, <1>2 DEF Working, Progress, Pending, Done
<1> QED BY <1>3, <1>4 DEF Working, StillWorking

\* The same for a call of a function.
LEMMA CallStutter ==
  ASSUME NEW n \in {0, 1}, CallAt(n), UNCHANGED vars
  PROVE  StillCalling(n)
<1>1. UNCHANGED <<code, vals, saved, before, masked, machine, regs, abs, hart, dm, trap>>
  BY DEF vars, host, device
<1>2. /\ Setup(n)' = Setup(n) /\ SetupPairs(n)' = SetupPairs(n)
      /\ InCallee' = InCallee /\ Quiet' = Quiet
  BY <1>1 DEF Setup, SetupPairs, InCallee, Program, Quiet
<1>3. (SavedInv(n) => SavedInv(n)') /\ (PutBack => PutBack')
  <2>1. SavedInv(n) => SavedInv(n)'
    BY <1>1 DEF SavedInv
  <2>2. PutBack => PutBack'
    BY <1>1, <1>2, Zenon DEF PutBack
  <2> QED BY <2>1, <2>2
<1>4. (Called(n) => Called(n)') /\ (ReadAll(n) => ReadAll(n)') /\ (Unchanged => Unchanged')
  <2>1. Called(n) => Called(n)'
    BY <1>1, <1>2, <1>3 DEF Called
  <2>2. ReadAll(n) => ReadAll(n)'
    BY <1>1 DEF ReadAll
  <2>3. Unchanged => Unchanged'
    BY <1>1 DEF Unchanged
  <2> QED BY <2>1, <2>2, <2>3
<1>5. \A success : Result(success)' = Result(success)
  BY <1>1 DEF Result
<1>6. ASSUME NEW Ps, WorkingIn(Ps), UNCHANGED Ps PROVE WorkingIn(Ps)'
  BY <1>6, WorkingStutter DEF WorkingIn, StillWorking
<1>7. Saving(n) => Saving(n)'
  BY <1>1, <1>2, <1>4, WorkingStutter, Zenon DEF Saving, StillWorking
<1>8. SettingUp(n) => SettingUp(n)'
  BY <1>1, <1>2, <1>3, <1>6, Zenon DEF SettingUp
<1>9. Going(n) => Going(n)'
  BY <1>1, <1>2, <1>3, <1>4, Zenon DEF Going
<1>10. ReHalting(n) => ReHalting(n)'
  BY <1>1, <1>4, Zenon DEF ReHalting
<1>11. Restoring(n) => Restoring(n)'
  BY <1>1, <1>2, <1>3, <1>4, <1>5, <1>6, WorkingStutter, Zenon DEF Restoring, StillWorking
<1> QED BY <1>1, <1>7, <1>8, <1>9, <1>10, <1>11, Zenon DEF CallAt, StillCalling

\* A step of nothing keeps the invariant of the call that runs,
LEMMA CodeStutter ==
  ASSUME TypeInv, CodeInv, UNCHANGED vars
  PROVE  CodeInv'
<1>1. UNCHANGED <<tool, step, code, vals, regs, abs, hart, cause, dm>>
  BY DEF vars, host, device
<1>2. Idle' = Idle /\ This' = This /\ InCallee' = InCallee /\ Quiet' = Quiet
  BY <1>1 DEF Idle, This, InCallee, Program, Quiet
<1>3. Released' = Released /\ Fresh' = Fresh
  BY <1>1, <1>2 DEF Released, Fresh
<1>4. EbreakSet' = EbreakSet /\ FreshRuns' = FreshRuns
  BY <1>1, <1>2, <1>3 DEF EbreakSet, FreshRuns
<1>5. SetEbreakAt => SetEbreakAt'
  <2>1. \A P : Working(P) => StillWorking(P)
    BY WorkingStutter
  <2> QED BY <1>1, <1>2, <2>1, Zenon DEF SetEbreakAt, StillWorking
<1>6. ResumeGoAt' = ResumeGoAt /\ SocResetAt' = SocResetAt
  BY <1>1, <1>3, <1>4, Zenon DEF ResumeGoAt, SocResetAt
<1>7. ExamineAt' = ExamineAt /\ HaltAt' = HaltAt /\ ResumeAt' = ResumeAt
  BY <1>1, <1>3, Zenon DEF ExamineAt, HaltAt, ResumeAt
<1>8. CASE code = <<>>
  BY <1>1, <1>8 DEF CodeInv
<1>9. CASE code # <<>>
  <2>1. ~Idle /\ step > 1 /\ CallInv(This)
    BY <1>9 DEF CodeInv
  <2>2. PICK c : c = This
    OBVIOUS
  <2>3. This \in AllCalls
    BY <1>9, Running
  <2>4. StillIn(c)
    <3>1. CASE c \in {"call_0", "call_1"}
      <4>1. \A n \in {0, 1} : CallAt(n) => StillCalling(n)
        BY CallStutter
      <4> QED BY <2>1, <2>2, <3>1, <4>1 DEF StillIn, StillCalling, CallInv
    <3>2. CASE c \in {"read", "write"}
      <4>1. \A P : Working(P) => StillWorking(P)
        BY WorkingStutter
      <4> QED BY <1>1, <2>1, <2>2, <3>2, <4>1 DEF StillIn, StillWorking, CallInv
    <3>3. CASE c \in AllCalls \ {"call_0", "call_1", "read", "write"}
      BY <1>1, <1>3, <1>5, <1>6, <1>7, <2>1, <2>2, <3>3 DEF StillIn, CallInv, AllCalls
    <3> QED BY <2>2, <2>3, <3>1, <3>2, <3>3
  <2> QED BY <1>1, <1>2, <2>1, <2>2, <2>4, InvOf DEF CodeInv
<1> QED BY <1>8, <1>9

\* and all the others.
LEMMA OtherStutter ==
  ASSUME TypeInv, IsolatedInv, BetweenInv, RaisedInv, UNCHANGED vars
  PROVE  TypeInv' /\ IsolatedInv' /\ BetweenInv' /\ RaisedInv'
<1>1. TypeInv'
  BY DEF TypeInv, Idle, Raises, vars, host, device, bounds
<1>2. IsolatedInv'
  BY DEF IsolatedInv, Isolated, Completed, vars, host, device, bounds
<1>3. BetweenInv'
  BY DEF BetweenInv, Smoothly, Idle, Quiet, Fresh, EbreakSet, FreshRuns, Released, InCallee, Program,
         vars, host, device, bounds
<1>4. RaisedInv'
  BY DEF RaisedInv, Idle, vars, host
<1> QED BY <1>1, <1>2, <1>3, <1>4

\* The program that runs at first is the interrupted one: nothing has been called.
LEMMA RunInit ==
  ASSUME Init
  PROVE  RunInv
<1>1. /\ tool = None /\ step = 0 /\ code = <<>> /\ polls = 0 /\ ok = TRUE
      /\ wasRunning = FALSE /\ vals = [r \in Regs |-> None] /\ saved = <<>> /\ report = None
      /\ hart \in {"running", "halted"} /\ cause = "itself"
      /\ regs = [r \in Regs |-> <<r, "app">>]
      /\ dm = [haltreq |-> FALSE, ndmreset |-> FALSE, resumeack |-> FALSE, havereset |-> FALSE]
      /\ abs = [busy |-> FALSE, cmderr |-> 0, pair |-> <<>>, data0 |-> <<"dpc", "tool">>]
      /\ trap = FALSE
  BY DEF Init, NoValues
<1>2. masked \in BOOLEAN /\ machine \in BOOLEAN
  <2>1. PICK p \in Programs : masked = p[1] /\ machine = p[2]
    BY DEF Init
  <2> QED BY <2>1, RunControlAssumption
<1>3. \A r \in Regs : <<r, "app">> \in Value /\ <<r, "app">>[1] = r
  BY DEF Value, Kinds
<1>4. <<"dpc", "tool">> \in Value
  BY DEF Value, Regs, Kinds
<1>5. regs \in [Regs -> Value] /\ \A r \in Regs : regs[r][1] = r
  BY <1>1, <1>3
<1>6. abs \in [busy : BOOLEAN, cmderr : {0, 1, 4}, pair : PairType \cup {<<>>}, data0 : Value]
  BY <1>1, <1>4
<1>7. dm \in [haltreq : BOOLEAN, ndmreset : BOOLEAN, resumeack : BOOLEAN, havereset : BOOLEAN]
  BY <1>1
<1>8. vals \in [Regs -> Value \cup {None}]
  BY <1>1
<1>9. polls \in 0..Polls
  BY <1>1, RunControlAssumption
<1>10. TypeInv
  <2>1. Idle
    BY <1>1 DEF Idle
  <2> QED BY <1>1, <1>2, <1>5, <1>6, <1>7, <1>8, <1>9, <2>1 DEF TypeInv
<1>11. IsolatedInv
  <2>1. regs["dpc"] = <<"dpc", "app">>
    BY <1>1 DEF Regs
  <2>2. ~Foreign(regs["dpc"]) /\ ~abs.busy
    BY <1>1, <2>1 DEF Foreign
  <2> QED BY <2>2 DEF IsolatedInv, Isolated
<1>12. CodeInv /\ BetweenInv /\ RaisedInv
  BY <1>1 DEF CodeInv, BetweenInv, RaisedInv, Smoothly, Idle
<1> QED BY <1>10, <1>11, <1>12 DEF RunInv

\* Every step keeps the whole invariant.
LEMMA RunNext ==
  ASSUME RunInv, [Next]_vars
  PROVE  RunInv'
<1>1. CASE Next
  BY <1>1, TypeNext, IsolatedNext, CodeNext, BetweenNext, RaisedNext DEF RunInv
<1>2. CASE UNCHANGED vars
  BY <1>2, OtherStutter, CodeStutter DEF RunInv
<1> QED BY <1>1, <1>2

\* The invariant of all that follows: of every call that runs how far it is and what it
\* has done to the hart, and what the calls that have returned leave to the next one.
THEOREM RunInvariant == Spec => []RunInv
BY RunInit, RunNext, PTL DEF Spec

\* Every variable keeps its type: the steps of no tool run past its calls, and
\* whatever the debug module hands out of a register is a value of that register.
THEOREM RunTypeCorrect == Spec => []TypeOK
<1>1. RunInv => TypeOK
  <2> SUFFICES ASSUME RunInv PROVE TypeOK
    OBVIOUS
  <2>1. TypeInv /\ Polls \in Nat /\ Polls > 0
    BY RunControlAssumption DEF RunInv
  <2>2. tool \in Tools \cup {None} /\ step \in 0..10
    <3>1. CASE Idle
      BY <2>1, <3>1 DEF TypeInv
    <3>2. CASE ~Idle
      <4>1. tool \in Tools /\ step \in 1..Len(Calls(tool)) + 1
        BY <2>1, <3>2 DEF TypeInv, Idle
      <4>2. Len(Calls(tool)) \in 1..9
        BY <4>1, ToolCalls
      <4>3. \A n \in 1..9 : \A s \in 1..n + 1 : s \in 0..10
        OBVIOUS
      <4> QED BY <4>1, <4>2, <4>3
    <3> QED BY <2>1, <3>1, <3>2 DEF TypeInv
  <2>3. DOMAIN regs = Regs /\ \A r \in Regs : regs[r][1] = r /\ regs[r][2] \in Kinds
    <3>1. \A v \in Value : v[2] \in Kinds
      BY DEF Value
    <3> QED BY <2>1, <3>1 DEF TypeInv
  <2>4. DOMAIN vals = Regs /\ abs.cmderr \in {0, 1, 4}
    BY <2>1 DEF TypeInv
  <2> QED BY <2>1, <2>2, <2>3, <2>4 DEF TypeOK, TypeInv
<1> QED BY <1>1, RunInvariant, PTL

\* While the hart runs the function, interrupts are masked and an ebreak is there to
\* return to, at whatever point the call has been left: the registers are set in an
\* order, the jump target last, that a batch cut short anywhere respects.
THEOREM CalleeStaysIsolated == Spec => []CalleeIsolated
<1>1. RunInv => CalleeIsolated
  BY DEF RunInv, IsolatedInv, Isolated, Foreign, CalleeIsolated, InCallee, Program
<1> QED BY <1>1, RunInvariant, PTL

\* The end of a call, from what is left of it.
LEMMA CallReturns ==
  ASSUME NEW n \in {0, 1}, CallAt(n), Doing("return")
  PROVE  \E success \in BOOLEAN :
           /\ code = <<Return(success)>>
           /\ Quiet /\ SavedInv(n) /\ Result(success)
           /\ \A i \in 1..Len(saved) : regs[saved[i][1]] = saved[i][2]
<1>0. code # <<>> /\ Next1.op = "return"
  BY DEF Doing
<1>1. \A P : ~Working(P)
  <2>1. \A P : Working(P) => Next1.op \in {"batch", "check", "access"}
    <3>1. \A P : Batch(P).op = "batch"
      BY DEF Batch
    <3> QED BY <3>1 DEF Working, WorkingOn
  <2> QED BY <1>0, <2>1
<1>2. ~Saving(n)
  <2>1. \A m, s : Head(<<m, s>>) = m /\ Head(<<s>>) = s
    OBVIOUS
  <2>2. Enter.op # "return" /\ Memory("trap").op # "return" /\ Setup(n).op # "return"
    BY DEF Enter, Memory, Setup
  <2>3. Next1 # Enter /\ Next1 # Memory("trap") /\ Next1 # Setup(n)
    BY <1>0, <2>2
  <2>4. code # CallCode(n) /\ code # <<Memory("trap"), Setup(n)>> /\ code # <<Setup(n)>>
    <3>1. code # CallCode(n)
      BY <2>3, CallCodeIs DEF Next1
    <3>2. code # <<Memory("trap"), Setup(n)>> /\ code # <<Setup(n)>>
      BY <2>1, <2>3, ZenonT(60) DEF Next1
    <3> QED BY <3>1, <3>2
  <2> QED BY <1>1, <2>4, Zenon DEF Saving
<1>3. ~SettingUp(n)
  BY <1>1 DEF SettingUp, WorkingIn
<1>4. Stop.op # "return" /\ Start.op # "return" /\ Drop.op # "return" /\ StillHalted.op # "return"
      /\ Lost.op # "return" /\ Restore.op # "return" /\ \A x, y : Poll(x, y).op # "return"
  BY DEF Stop, Start, Drop, Write, StillHalted, Lost, Restore, Poll
<1>5. ~Going(n)
  <2>1. ASSUME Going(n) PROVE FALSE
    <3>1. code \in {GoCode, GoCode2, GoCode3, FinishCode}
      BY <2>1 DEF Going
    <3>2. Next1 \in {Start, Drop} \/ \E x, y : Next1 = Poll(x, y)
      BY <3>1, CallTails, Zenon DEF Next1
    <3> QED BY <1>0, <1>4, <3>2
  <2> QED BY <2>1
<1>6. ~ReHalting(n)
  <2>1. ASSUME ReHalting(n) PROVE FALSE
    <3>1. code \in {ReHaltCode, ReHaltCode2, ReHaltCode3, ReHaltCode4, <<Lost>>}
      BY <2>1 DEF ReHalting
    <3>2. \A r : Head(<<StillHalted, Restore, r>>) = StillHalted /\ Head(<<Lost>>) = Lost
      OBVIOUS
    <3>3. Next1 \in {Stop, Drop, StillHalted, Lost} \/ \E x, y : Next1 = Poll(x, y)
      BY <3>1, <3>2, CallTails, Zenon DEF Next1
    <3> QED BY <1>0, <1>4, <3>3
  <2> QED BY <2>1
<1>7. Restoring(n)
  BY <1>2, <1>3, <1>5, <1>6, Zenon DEF CallAt
<1>8. \A success \in BOOLEAN : code # <<Restore, Return(success)>>
  <2>1. Next1 # Restore
    BY <1>0, <1>4
  <2> QED BY <2>1, ReturnTail, Zenon DEF Next1
<1>9. \A Ps : ~WorkingIn(Ps)
  BY <1>1 DEF WorkingIn
<1> QED BY <1>1, <1>7, <1>8, <1>9, Zenon DEF Restoring

\* call_function returns with the hart halted, nothing asked of it, and the registers it
\* saves as they were, whatever of its batches had to be done twice.
THEOREM SavedAreKept == Spec => []CallKeepsSaved
<1>1. RunInv => CallKeepsSaved
  <2> SUFFICES ASSUME RunInv, Calling, Doing("return"), before # None
               PROVE  /\ hart = "halted" /\ ~dm.haltreq
                      /\ \A i \in DOMAIN saved : regs[saved[i][1]] = before[saved[i][1]]
                      /\ Next1.success => vals["a0"] = <<"a0", "callee">>
    BY Zenon DEF CallKeepsSaved
  <2>1. PICK n \in {0, 1} : CallAt(n)
    <3>1. This \in {"call_0", "call_1"} /\ CallInv(This)
      BY DEF RunInv, CodeInv, Calling, Doing
    <3> QED BY <3>1 DEF CallInv
  <2>2. PICK success \in BOOLEAN :
           /\ code = <<Return(success)>>
           /\ Quiet /\ SavedInv(n) /\ Result(success)
           /\ \A i \in 1..Len(saved) : regs[saved[i][1]] = saved[i][2]
    BY <2>1, CallReturns
  <2>3. hart = "halted" /\ ~dm.haltreq /\ (success => vals["a0"] = <<"a0", "callee">>)
    BY <2>2, Zenon DEF Quiet, Result
  <2>4. Next1 = Return(success)
    BY <2>2, ReturnTail, Zenon DEF Next1
  <2>5. Next1.success = success
    BY <2>4, ReturnOp, Zenon
  <2>6. \A i \in DOMAIN saved : regs[saved[i][1]] = before[saved[i][1]]
    <3>1. /\ saved \in Seq(PairType)
          /\ \A i \in 1..Len(saved) : saved[i][2] = before[saved[i][1]]
      BY <2>2, Zenon DEF SavedInv
    <3>2. DOMAIN saved = 1..Len(saved)
      BY <3>1
    <3>3. \A i \in 1..Len(saved) : regs[saved[i][1]] = saved[i][2]
      BY <2>2, Zenon
    <3>4. ASSUME NEW i \in DOMAIN saved PROVE regs[saved[i][1]] = before[saved[i][1]]
      <4>1. i \in 1..Len(saved)
        BY <3>2
      <4>2. regs[saved[i][1]] = saved[i][2] /\ saved[i][2] = before[saved[i][1]]
        BY <3>1, <3>3, <4>1, Zenon
      <4> QED BY <4>2
    <3> QED BY <3>4
  <2> QED BY <2>3, <2>5, <2>6, Zenon
<1> QED BY <1>1, RunInvariant, PTL

\* Only its end ends a tool, after its last call.
LEMMA ToolEnds ==
  ASSUME RunInv, Next, ~Idle, Idle', NEW t, report' = [tool |-> t, how |-> "ok"]
  PROVE  /\ EndTool /\ tool = t /\ ok /\ Smoothly /\ step = Len(Calls(tool)) + 1
         /\ UNCHANGED <<hart, cause, regs, dm>>
<1>1. tool' # tool
  BY DEF Idle
<1>2. EndTool
  <2>1. CASE code = <<>>
    <3>1. CASE Hart
      BY <1>1, <3>1, HartDoes DEF RunInv
    <3>2. CASE Host
      <4>1. (\E s \in Tools : StartTool(s)) \/ StartCall \/ EndTool
        BY <2>1, <3>2, Zenon DEF Host, Raise, DmWrite, DmPoll, Status, MemoryAccess, Local, CommandWrite,
           AbstractWait, DataRead, BatchRun, BatchCheck, At, Doing
      <4> QED BY <1>1, <4>1 DEF StartTool, StartCall
    <3> QED BY <3>1, <3>2 DEF Next
  <2>2. CASE code # <<>>
    <3>1. ~Raise
      BY <1>1 DEF Raise, Raised
    <3>2. CallStep
      BY <2>2, <3>1 DEF CallStep, Next
    <3> QED BY <1>1, <3>2, StepStays DEF RunInv, Raises2
  <2> QED BY <2>1, <2>2
<1>3. /\ code = <<>> /\ step > Len(Calls(tool)) /\ UNCHANGED <<hart, cause, regs, dm>>
      /\ report' = IF report = None THEN [tool |-> tool, how |-> IF ok THEN "ok" ELSE "failed"]
                   ELSE report
  BY <1>2 DEF EndTool, device
<1>4. tool \in Tools /\ step \in 1..Len(Calls(tool)) + 1 /\ report \in {None, Raises}
  BY DEF RunInv, TypeInv, Idle
<1>5. step = Len(Calls(tool)) + 1
  <2>1. Len(Calls(tool)) \in 1..9
    BY <1>4, ToolCalls
  <2> QED BY <1>3, <1>4, <2>1
<1>6. report = None
  <2>1. Raises.how = "raised" /\ [tool |-> t, how |-> "ok"].how = "ok"
    BY DEF Raises
  <2>2. report # Raises \/ report = None
    BY <1>3, <2>1
  <2> QED BY <1>4, <2>2
<1>7. tool = t /\ ok
  <2>1. [tool |-> tool, how |-> IF ok THEN "ok" ELSE "failed"] = [tool |-> t, how |-> "ok"]
    BY <1>3, <1>6
  <2>2. tool = t /\ (IF ok THEN "ok" ELSE "failed") = "ok"
    BY <2>1
  <2> QED BY <2>2
<1> QED BY <1>2, <1>3, <1>5, <1>6, <1>7 DEF Smoothly

\* reset_run_from_rom reports success only of a fresh program with its ebreaks on.
THEOREM FreshProgramRuns == Spec => FromRomRuns
<1>1. RunInv /\ [Next]_vars =>
        [~Idle /\ Idle' /\ report' = [tool |-> "reset_from_rom", how |-> "ok"]
           => \/ hart = "halted" /\ cause # "haltreq"
              \/ hart = "running" /\ regs["dcsr"][2] = "ebreak"]_vars
  <2> SUFFICES ASSUME RunInv, Next, ~Idle, Idle',
                      report' = [tool |-> "reset_from_rom", how |-> "ok"]
               PROVE  \/ hart = "halted" /\ cause # "haltreq"
                      \/ hart = "running" /\ regs["dcsr"][2] = "ebreak"
    OBVIOUS
  <2>1. tool = "reset_from_rom" /\ Smoothly /\ step = Len(Calls(tool)) + 1
    BY ToolEnds
  <2>2. step = 9
    <3>1. Len(FromRomCalls) = 8
      BY DEF FromRomCalls
    <3>2. Calls(tool) = FromRomCalls
      BY <2>1, CallsOf
    <3>3. Len(Calls(tool)) = 8
      BY <3>1, <3>2
    <3>4. step = Len(Calls(tool)) + 1
      BY <2>1, Zenon
    <3> QED BY <3>3, <3>4
  <2>3. FreshRuns
    BY <2>1, <2>2 DEF RunInv, BetweenInv
  <2> QED BY <2>3 DEF FreshRuns, Released, RunInv, TypeInv
<1> QED BY <1>1, RunInvariant, PTL DEF Spec, FromRomRuns

\* A tool that says it has only read leaves the hart running, if it ran, and no halt
\* request behind.
THEOREM ReadingLeavesRunning == Spec => ReadingRestores
<1>1. RunInv /\ [Next]_vars =>
        [\A t \in Reading : ~Idle /\ Idle' /\ report' = [tool |-> t, how |-> "ok"] /\ wasRunning
           => ~dm.haltreq /\ (hart = "halted" => cause # "haltreq")]_vars
  <2> SUFFICES ASSUME RunInv, Next, NEW t \in Reading, ~Idle, Idle',
                      report' = [tool |-> t, how |-> "ok"], wasRunning
               PROVE  ~dm.haltreq /\ (hart = "halted" => cause # "haltreq")
    OBVIOUS
  <2>1. tool = t /\ ok /\ Smoothly /\ step = Len(Calls(tool)) + 1
    BY ToolEnds
  <2>2. Released
    BY <2>1 DEF RunInv, BetweenInv
  <2> QED BY <2>2 DEF Released
<1> QED BY <1>1, RunInvariant, PTL DEF Spec, ReadingRestores

\* What is handed out of a register is in it at that moment, through a batch, a batch
\* done again or one command after the other.
THEOREM ReadIsThere == Spec => RegistersRead
<1>1. RunInv /\ [Next]_vars =>
        [\A r \in Regs : vals'[r] \notin {None, vals[r]} => vals'[r] = regs[r]]_vars
  <2> SUFFICES ASSUME RunInv, Next PROVE ReadsExactly
    BY DEF ReadsExactly
  <2>1. CASE UNCHANGED vals
    BY <2>1 DEF ReadsExactly
  <2>2. CASE EndTool
    BY <2>2 DEF EndTool, NoValues, ReadsExactly
  <2>3. CASE AccessStep
    <3>1. code # <<>> /\ Next1.op \in {"access", "batch", "check"}
      BY <2>3, Zenon DEF AccessStep, CommandWrite, AbstractWait, DataRead, BatchRun, BatchCheck, At, Doing
    <3>2. ~Aside
      BY <3>1, AsideOps DEF Aside
    <3>3. SafeWork
      BY <3>1, <3>2, Running, AtWork DEF RunInv
    <3> QED BY <2>3, <3>3, AccessType, SMTT(30) DEF SafeWork, RunInv
  <2>4. UNCHANGED vals \/ EndTool \/ AccessStep
    <3>1. CASE Hart
      BY <3>1, HartDoes DEF RunInv
    <3>2. CASE \E t \in Tools : StartTool(t)
      BY <3>2 DEF StartTool
    <3>3. CASE StartCall \/ Raise \/ DmWrite \/ DmPoll \/ Status \/ MemoryAccess
      BY <3>3 DEF StartCall, Raise, Raised, DmWrite, DmPoll, Status, MemoryAccess
    <3>4. CASE Local
      BY <3>4, Zenon DEF Local
    <3> QED BY <3>1, <3>2, <3>3, <3>4 DEF Next, Host, AccessStep
  <2> QED BY <2>1, <2>2, <2>3, <2>4
<1> QED BY <1>1, RunInvariant, PTL DEF Spec, RegistersRead
=============================================================================
