--------------------------- MODULE ScanChainProofs ---------------------------
(***************************************************************************)
(* Proofs about ScanChain, for every board, every table of chips.py that   *)
(* meets the assumptions, and registers of every length.                   *)
(***************************************************************************)
EXTENDS ScanChain, SequenceTheorems, FiniteSetTheorems, TLAPS

-----------------------------------------------------------------------------
(* The walks between TAP states: what the breadth-first search finds. *)

\* One round of the search: it stands still once the head of the queue is the target.
Round(search, target) ==
  IF search.queue = <<>> \/ Head(search.queue)[1] = target THEN search ELSE Expand(search)
First(from) == [queue |-> <<<<from, <<>>>>>>, seen |-> {from}]

\* The recursive function of Search exists: it is the sequence of its 16 rounds.
LEMMA SearchRounds ==
  ASSUME NEW from, NEW target
  PROVE  \E s : /\ s[0] = First(from)
                /\ \A n \in 1..16 : s[n] = Round(s[n - 1], target)
                /\ Search(from, target) = Head(s[16].queue)[2]
<1> DEFINE s0 == First(from)
<1> DEFINE s1 == Round(s0, target)
<1> DEFINE s2 == Round(s1, target)
<1> DEFINE s3 == Round(s2, target)
<1> DEFINE s4 == Round(s3, target)
<1> DEFINE s5 == Round(s4, target)
<1> DEFINE s6 == Round(s5, target)
<1> DEFINE s7 == Round(s6, target)
<1> DEFINE s8 == Round(s7, target)
<1> DEFINE s9 == Round(s8, target)
<1> DEFINE s10 == Round(s9, target)
<1> DEFINE s11 == Round(s10, target)
<1> DEFINE s12 == Round(s11, target)
<1> DEFINE s13 == Round(s12, target)
<1> DEFINE s14 == Round(s13, target)
<1> DEFINE s15 == Round(s14, target)
<1> DEFINE s16 == Round(s15, target)
<1> HIDE DEF s0, s1, s2, s3, s4, s5, s6, s7, s8, s9, s10, s11, s12, s13, s14, s15, s16
<1> DEFINE h == [n \in 0..16 |->
         IF n = 0 THEN s0 ELSE IF n = 1 THEN s1 ELSE IF n = 2 THEN s2 ELSE IF n = 3 THEN s3 ELSE
         IF n = 4 THEN s4 ELSE IF n = 5 THEN s5 ELSE IF n = 6 THEN s6 ELSE IF n = 7 THEN s7 ELSE
         IF n = 8 THEN s8 ELSE IF n = 9 THEN s9 ELSE IF n = 10 THEN s10 ELSE IF n = 11 THEN s11 ELSE
         IF n = 12 THEN s12 ELSE IF n = 13 THEN s13 ELSE IF n = 14 THEN s14 ELSE IF n = 15 THEN s15 ELSE s16]
<1>1. s0 = First(from)
  BY DEF s0
<1>2. /\ s1 = Round(s0, target) /\ s2 = Round(s1, target)
      /\ s3 = Round(s2, target) /\ s4 = Round(s3, target)
      /\ s5 = Round(s4, target) /\ s6 = Round(s5, target)
      /\ s7 = Round(s6, target) /\ s8 = Round(s7, target)
      /\ s9 = Round(s8, target) /\ s10 = Round(s9, target)
      /\ s11 = Round(s10, target) /\ s12 = Round(s11, target)
      /\ s13 = Round(s12, target) /\ s14 = Round(s13, target)
      /\ s15 = Round(s14, target) /\ s16 = Round(s15, target)
  BY DEF s1, s2, s3, s4, s5, s6, s7, s8, s9, s10, s11, s12, s13, s14, s15, s16
<1>3. h[0] = First(from) /\ \A n \in 1..16 : h[n] = Round(h[n - 1], target)
  BY <1>1, <1>2
<1> DEFINE Runs(g) == g = [n \in 0..16 |->
         IF n = 0 THEN [queue |-> <<<<from, <<>>>>>>, seen |-> {from}]
         ELSE IF g[n - 1].queue = <<>> \/ Head(g[n - 1].queue)[1] = target
              THEN g[n - 1] ELSE Expand(g[n - 1])]
<1>4. h = [n \in 0..16 |-> h[n]]
  OBVIOUS
<1>5. Runs(h)
  <2> HIDE DEF h
  <2>1. \A n \in 0..16 : n = 0 \/ n \in 1..16
    BY SMTT(30)
  <2> QED BY <1>3, <1>4, <2>1, Zenon DEF Round, First
<1> HIDE DEF h
<1> DEFINE s == CHOOSE g : Runs(g)
<1>6. Runs(s)
  BY <1>5, Zenon
<1>7. Search(from, target) = Head(s[16].queue)[2]
  BY DEF Search
<1> HIDE DEF s
<1>8. s[0] = First(from)
  BY <1>6 DEF First
<1>9. \A n \in 1..16 : s[n] = Round(s[n - 1], target)
  <2>1. ASSUME NEW n \in 1..16 PROVE s[n] = Round(s[n - 1], target)
    <3>1. n \in 0..16 /\ n # 0
      OBVIOUS
    <3> QED BY <1>6, <3>1, Zenon DEF Round
  <2> QED BY <2>1
<1> QED BY <1>7, <1>8, <1>9

\* The successor of every TAP state.
LEMMA ClockedTable ==
  /\ Clocked("reset", 0) = "idle" /\ Clocked("reset", 1) = "reset"
  /\ Clocked("idle", 0) = "idle" /\ Clocked("idle", 1) = "seldr"
  /\ Clocked("seldr", 0) = "capdr" /\ Clocked("seldr", 1) = "selir"
  /\ Clocked("capdr", 0) = "shiftdr" /\ Clocked("capdr", 1) = "e1dr"
  /\ Clocked("shiftdr", 0) = "shiftdr" /\ Clocked("shiftdr", 1) = "e1dr"
  /\ Clocked("e1dr", 0) = "pausedr" /\ Clocked("e1dr", 1) = "updr"
  /\ Clocked("pausedr", 0) = "pausedr" /\ Clocked("pausedr", 1) = "e2dr"
  /\ Clocked("e2dr", 0) = "shiftdr" /\ Clocked("e2dr", 1) = "updr"
  /\ Clocked("updr", 0) = "idle" /\ Clocked("updr", 1) = "seldr"
  /\ Clocked("selir", 0) = "capir" /\ Clocked("selir", 1) = "reset"
  /\ Clocked("capir", 0) = "shiftir" /\ Clocked("capir", 1) = "e1ir"
  /\ Clocked("shiftir", 0) = "shiftir" /\ Clocked("shiftir", 1) = "e1ir"
  /\ Clocked("e1ir", 0) = "pauseir" /\ Clocked("e1ir", 1) = "upir"
  /\ Clocked("pauseir", 0) = "pauseir" /\ Clocked("pauseir", 1) = "e2ir"
  /\ Clocked("e2ir", 0) = "shiftir" /\ Clocked("e2ir", 1) = "upir"
  /\ Clocked("upir", 0) = "idle" /\ Clocked("upir", 1) = "seldr"
BY DEF Clocked, NEXT, TapState

\* A row of a queue or of a walk, one entry longer.
LEMMA Row1 == ASSUME NEW a PROVE Append(<<>>, a) = <<a>>
OBVIOUS

\* Two entries.
LEMMA Row2 ==
  ASSUME NEW a, NEW b
  PROVE  /\ <<a>> \o <<b>> = <<a, b>>
         /\ Append(<<a>>, b) = <<a, b>>
<1> DEFINE S == {a, b}
<1> DEFINE s == <<a>> \o <<b>>
<1> DEFINE t == <<a, b>>
<1>1. <<a>> \in Seq(S) /\ Len(<<a>>) = 1 /\ <<b>> \in Seq(S) /\ Len(<<b>>) = 1
      /\ t \in Seq(S) /\ Len(t) = 2 /\ b \in S
  OBVIOUS
<1>2. s \in Seq(S) /\ Len(s) = 2
      /\ \A i \in 1..2 : s[i] = IF i <= 1 THEN <<a>>[i] ELSE <<b>>[i - 1]
  <2> HIDE DEF S, t
  <2> QED BY <1>1, ConcatProperties
<1>3. \A i \in 1..2 : s[i] = t[i]
  <2> HIDE DEF s, S
  <2>1. \A i \in 1..2 : i = 1 \/ i = 2
    OBVIOUS
  <2> QED BY <1>2, <2>1
<1>4. s = t
  <2> HIDE DEF s, t, S
  <2> QED BY <1>1, <1>2, <1>3, SeqEqual
<1>5. Append(<<a>>, b) = <<a>> \o <<b>>
  <2> HIDE DEF S
  <2> QED BY <1>1, AppendIsConcat
<1> QED BY <1>4, <1>5

\* Three entries.
LEMMA Row3 ==
  ASSUME NEW a, NEW b, NEW c
  PROVE  /\ <<a, b>> \o <<c>> = <<a, b, c>>
         /\ Append(<<a, b>>, c) = <<a, b, c>>
<1> DEFINE S == {a, b, c}
<1> DEFINE s == <<a, b>> \o <<c>>
<1> DEFINE t == <<a, b, c>>
<1>1. <<a, b>> \in Seq(S) /\ Len(<<a, b>>) = 2 /\ <<c>> \in Seq(S) /\ Len(<<c>>) = 1
      /\ t \in Seq(S) /\ Len(t) = 3 /\ c \in S
  OBVIOUS
<1>2. s \in Seq(S) /\ Len(s) = 3
      /\ \A i \in 1..3 : s[i] = IF i <= 2 THEN <<a, b>>[i] ELSE <<c>>[i - 2]
  <2> HIDE DEF S, t
  <2> QED BY <1>1, ConcatProperties
<1>3. \A i \in 1..3 : s[i] = t[i]
  <2> HIDE DEF s, S
  <2>1. \A i \in 1..3 : i = 1 \/ i = 2 \/ i = 3
    OBVIOUS
  <2> QED BY <1>2, <2>1
<1>4. s = t
  <2> HIDE DEF s, t, S
  <2> QED BY <1>1, <1>2, <1>3, SeqEqual
<1>5. Append(<<a, b>>, c) = <<a, b>> \o <<c>>
  <2> HIDE DEF S
  <2> QED BY <1>1, AppendIsConcat
<1> QED BY <1>4, <1>5

\* Four entries.
LEMMA Row4 ==
  ASSUME NEW a, NEW b, NEW c, NEW d
  PROVE  /\ <<a, b, c>> \o <<d>> = <<a, b, c, d>>
         /\ Append(<<a, b, c>>, d) = <<a, b, c, d>>
<1> DEFINE S == {a, b, c, d}
<1> DEFINE s == <<a, b, c>> \o <<d>>
<1> DEFINE t == <<a, b, c, d>>
<1>1. <<a, b, c>> \in Seq(S) /\ Len(<<a, b, c>>) = 3 /\ <<d>> \in Seq(S) /\ Len(<<d>>) = 1
      /\ t \in Seq(S) /\ Len(t) = 4 /\ d \in S
  OBVIOUS
<1>2. s \in Seq(S) /\ Len(s) = 4
      /\ \A i \in 1..4 : s[i] = IF i <= 3 THEN <<a, b, c>>[i] ELSE <<d>>[i - 3]
  <2> HIDE DEF S, t
  <2> QED BY <1>1, ConcatProperties
<1>3. \A i \in 1..4 : s[i] = t[i]
  <2> HIDE DEF s, S
  <2>1. \A i \in 1..4 : i = 1 \/ i = 2 \/ i = 3 \/ i = 4
    OBVIOUS
  <2> QED BY <1>2, <2>1
<1>4. s = t
  <2> HIDE DEF s, t, S
  <2> QED BY <1>1, <1>2, <1>3, SeqEqual
<1>5. Append(<<a, b, c>>, d) = <<a, b, c>> \o <<d>>
  <2> HIDE DEF S
  <2> QED BY <1>1, AppendIsConcat
<1> QED BY <1>4, <1>5

\* Five entries.
LEMMA Row5 ==
  ASSUME NEW a, NEW b, NEW c, NEW d, NEW e
  PROVE  /\ <<a, b, c, d>> \o <<e>> = <<a, b, c, d, e>>
         /\ Append(<<a, b, c, d>>, e) = <<a, b, c, d, e>>
<1> DEFINE S == {a, b, c, d, e}
<1> DEFINE s == <<a, b, c, d>> \o <<e>>
<1> DEFINE t == <<a, b, c, d, e>>
<1>1. <<a, b, c, d>> \in Seq(S) /\ Len(<<a, b, c, d>>) = 4 /\ <<e>> \in Seq(S) /\ Len(<<e>>) = 1
      /\ t \in Seq(S) /\ Len(t) = 5 /\ e \in S
  OBVIOUS
<1>2. s \in Seq(S) /\ Len(s) = 5
      /\ \A i \in 1..5 : s[i] = IF i <= 4 THEN <<a, b, c, d>>[i] ELSE <<e>>[i - 4]
  <2> HIDE DEF S, t
  <2> QED BY <1>1, ConcatProperties
<1>3. \A i \in 1..5 : s[i] = t[i]
  <2> HIDE DEF s, S
  <2>1. \A i \in 1..5 : i = 1 \/ i = 2 \/ i = 3 \/ i = 4 \/ i = 5
    OBVIOUS
  <2> QED BY <1>2, <2>1
<1>4. s = t
  <2> HIDE DEF s, t, S
  <2> QED BY <1>1, <1>2, <1>3, SeqEqual
<1>5. Append(<<a, b, c, d>>, e) = <<a, b, c, d>> \o <<e>>
  <2> HIDE DEF S
  <2> QED BY <1>1, AppendIsConcat
<1> QED BY <1>4, <1>5

\* The head and the tail of a queue.
LEMMA Pop1 == ASSUME NEW a
  PROVE <<a>> # <<>> /\ Head(<<a>>) = a /\ Tail(<<a>>) = <<>>
OBVIOUS
\* Of a queue of two.
LEMMA Pop2 == ASSUME NEW a, NEW b
  PROVE <<a, b>> # <<>> /\ Head(<<a, b>>) = a /\ Tail(<<a, b>>) = <<b>>
OBVIOUS
\* Of a queue of three.
LEMMA Pop3 == ASSUME NEW a, NEW b, NEW c
  PROVE <<a, b, c>> # <<>> /\ Head(<<a, b, c>>) = a /\ Tail(<<a, b, c>>) = <<b, c>>
OBVIOUS
\* Of a queue of four.
LEMMA Pop4 == ASSUME NEW a, NEW b, NEW c, NEW d
  PROVE <<a, b, c, d>> # <<>> /\ Head(<<a, b, c, d>>) = a /\ Tail(<<a, b, c, d>>) = <<b, c, d>>
OBVIOUS
\* Of a queue of five.
LEMMA Pop5 == ASSUME NEW a, NEW b, NEW c, NEW d, NEW e
  PROVE <<a, b, c, d, e>> # <<>> /\ Head(<<a, b, c, d, e>>) = a /\ Tail(<<a, b, c, d, e>>) = <<b, c, d, e>>
OBVIOUS

\* What is left of a queue, with the new entries behind it: both, the first, the second or none.
LEMMA Join211 == ASSUME NEW a, NEW b, NEW c, NEW d
  PROVE <<a, b>> \o <<c>> \o <<d>> = <<a, b, c, d>>
<1>1. <<a, b>> \o <<c>> = <<a, b, c>>
  BY Row3
<1>2. <<a, b, c>> \o <<d>> = <<a, b, c, d>>
  BY Row4
<1> QED BY <1>1, <1>2, Zenon
\* The join of one old, no and one new entries.
LEMMA Join101 == ASSUME NEW a, NEW b
  PROVE <<a>> \o <<>> \o <<b>> = <<a, b>>
<1>1. <<a>> \o <<>> = <<a>>
  OBVIOUS
<1>2. <<a>> \o <<b>> = <<a, b>>
  BY Row2
<1> QED BY <1>1, <1>2, Zenon
\* The join of no old, one and no new entries.
LEMMA Join010 == ASSUME NEW a
  PROVE <<>> \o <<a>> \o <<>> = <<a>>
OBVIOUS
\* The join of three old, no and no new entries.
LEMMA Join300 == ASSUME NEW a, NEW b, NEW c
  PROVE <<a, b, c>> \o <<>> \o <<>> = <<a, b, c>>
OBVIOUS
\* The join of two old, one and no new entries.
LEMMA Join210 == ASSUME NEW a, NEW b, NEW c
  PROVE <<a, b>> \o <<c>> \o <<>> = <<a, b, c>>
<1>1. <<a, b>> \o <<c>> = <<a, b, c>>
  BY Row3
<1>2. <<a, b, c>> \o <<>> = <<a, b, c>>
  OBVIOUS
<1> QED BY <1>1, <1>2, Zenon
\* The join of three old, one and one new entries.
LEMMA Join311 == ASSUME NEW a, NEW b, NEW c, NEW d, NEW e
  PROVE <<a, b, c>> \o <<d>> \o <<e>> = <<a, b, c, d, e>>
<1>1. <<a, b, c>> \o <<d>> = <<a, b, c, d>>
  BY Row4
<1>2. <<a, b, c, d>> \o <<e>> = <<a, b, c, d, e>>
  BY Row5
<1> QED BY <1>1, <1>2, Zenon
\* The join of four old, no and no new entries.
LEMMA Join400 == ASSUME NEW a, NEW b, NEW c, NEW d
  PROVE <<a, b, c, d>> \o <<>> \o <<>> = <<a, b, c, d>>
OBVIOUS
\* The join of three old, no and one new entries.
LEMMA Join301 == ASSUME NEW a, NEW b, NEW c, NEW d
  PROVE <<a, b, c>> \o <<>> \o <<d>> = <<a, b, c, d>>
<1>1. <<a, b, c>> \o <<>> = <<a, b, c>>
  OBVIOUS
<1>2. <<a, b, c>> \o <<d>> = <<a, b, c, d>>
  BY Row4
<1> QED BY <1>1, <1>2, Zenon
\* The join of no old, no and one new entries.
LEMMA Join001 == ASSUME NEW a
  PROVE <<>> \o <<>> \o <<a>> = <<a>>
OBVIOUS
\* The join of one old, one and one new entries.
LEMMA Join111 == ASSUME NEW a, NEW b, NEW c
  PROVE <<a>> \o <<b>> \o <<c>> = <<a, b, c>>
<1>1. <<a>> \o <<b>> = <<a, b>>
  BY Row2
<1>2. <<a, b>> \o <<c>> = <<a, b, c>>
  BY Row3
<1> QED BY <1>1, <1>2, Zenon
\* The join of no old, one and one new entries.
LEMMA Join011 == ASSUME NEW a, NEW b
  PROVE <<>> \o <<a>> \o <<b>> = <<a, b>>
<1>1. <<>> \o <<a>> = <<a>>
  OBVIOUS
<1>2. <<a>> \o <<b>> = <<a, b>>
  BY Row2
<1> QED BY <1>1, <1>2, Zenon

\* The entries a round adds for the head of the queue, on TMS=0 and on TMS=1.
NewOn0(search) ==
  IF Clocked(Head(search.queue)[1], 0) \in search.seen THEN <<>>
  ELSE <<<<Clocked(Head(search.queue)[1], 0), Append(Head(search.queue)[2], 0)>>>>
NewOn1(search) ==
  IF Clocked(Head(search.queue)[1], 1) \in search.seen \cup {Clocked(Head(search.queue)[1], 0)}
  THEN <<>>
  ELSE <<<<Clocked(Head(search.queue)[1], 1), Append(Head(search.queue)[2], 1)>>>>

\* A round short of the target opens the head of the queue.
LEMMA Opened ==
  ASSUME NEW s, NEW target, s.queue # <<>>, Head(s.queue)[1] # target
  PROVE  /\ Round(s, target).queue = Tail(s.queue) \o NewOn0(s) \o NewOn1(s)
         /\ Round(s, target).seen
              = s.seen \cup {Clocked(Head(s.queue)[1], 0), Clocked(Head(s.queue)[1], 1)}
BY Zenon DEF Round, Expand, NewOn0, NewOn1

\* A round at the target changes nothing.
LEMMA Arrived ==
  ASSUME NEW s, NEW target, Head(s.queue)[1] = target
  PROVE  Round(s, target) = s
BY DEF Round


\* The walk from "reset" to "idle".
LEMMA FromReset == Path("reset", "idle") = <<0>>
<1> DEFINE at_reset == <<"reset", <<>>>>
<1> DEFINE at_idle == <<"idle", <<0>>>>
<1>1. /\ at_reset[1] = "reset"
      /\ at_idle[1] = "idle" /\ at_idle = <<Clocked(at_reset[1], 0), Append(at_reset[2], 0)>>
      /\ at_idle[2] = <<0>>
  <2>1. Append(<<>>, 0) = <<0>>
    BY Row1, Zenon
  <2> QED BY <2>1, ClockedTable
<1>2. PICK s : /\ s[0] = First("reset")
             /\ \A n \in 1..16 : s[n] = Round(s[n - 1], "idle")
             /\ Search("reset", "idle") = Head(s[16].queue)[2]
  BY SearchRounds
<1>3. s[0].queue = <<at_reset>> /\ s[0].seen = {"reset"}
  BY <1>2 DEF First
<1> HIDE DEF at_reset, at_idle
<1>4. s[1].queue = <<at_idle>> /\ s[1].seen = {"reset", "idle"}
  <2>1. s[0].queue # <<>> /\ Head(s[0].queue) = at_reset /\ Tail(s[0].queue) = <<>>
    BY <1>3, Pop1, Zenon
  <2>2. s[1] = Round(s[0], "idle")
    BY <1>2
  <2>3. Head(s[0].queue)[1] = "reset" /\ Clocked("reset", 0) = "idle" /\ Clocked("reset", 1) = "reset"
    BY <1>1, <2>1, ClockedTable
  <2>4. NewOn0(s[0]) = <<at_idle>>
    <3>1. "idle" \notin s[0].seen
      BY <1>3
    <3>2. at_idle = <<Clocked(at_reset[1], 0), Append(at_reset[2], 0)>>
      BY <1>1
    <3> QED BY <3>2, <2>1, <2>3, <3>1, Zenon DEF NewOn0
  <2>5. NewOn1(s[0]) = <<>>
    <3>1. "reset" \in s[0].seen \cup {"idle"}
      BY <1>3
    <3> QED BY <2>1, <2>3, <3>1, Zenon DEF NewOn1
  <2>6. Round(s[0], "idle").queue = <<>> \o <<at_idle>> \o <<>>
        /\ Round(s[0], "idle").seen = s[0].seen \cup {"idle", "reset"}
    <3>1. s[0].queue # <<>> /\ Head(s[0].queue)[1] # "idle"
      BY <2>1, <2>3
    <3>2. /\ Round(s[0], "idle").queue = Tail(s[0].queue) \o NewOn0(s[0]) \o NewOn1(s[0])
          /\ Round(s[0], "idle").seen = s[0].seen \cup
                {Clocked(Head(s[0].queue)[1], 0), Clocked(Head(s[0].queue)[1], 1)}
      BY <3>1, Opened, Zenon
    <3> QED BY <2>1, <2>3, <2>4, <2>5, <3>2, Zenon
  <2>7. <<>> \o <<at_idle>> \o <<>> = <<at_idle>>
    BY Join010, Zenon
  <2> QED BY <1>3, <2>2, <2>6, <2>7
<1>5. s[16] = s[1] /\ Head(s[1].queue) = at_idle
  <2>1. Head(s[1].queue) = at_idle
    BY <1>4, Pop1, Zenon
  <2>2. \A n \in 2..16 : s[n - 1] = s[1] => s[n] = s[1]
    <3>1. at_idle[1] = "idle"
      BY <1>1
    <3>2. Round(s[1], "idle") = s[1]
      BY <2>1, <3>1, Arrived
    <3> QED BY <1>2, <3>2
  <2> QED BY <2>1, <2>2
<1>6. Search("reset", "idle") = <<0>>
  <2>1. Search("reset", "idle") = Head(s[16].queue)[2]
    BY <1>2
  <2>2. @ = at_idle[2]
    BY <1>5
  <2> QED BY <1>1, <2>1, <2>2
<1> QED BY <1>6 DEF Path, PathTable, TapState

\* The walk from "idle" to "shiftdr".
LEMMA ToShiftDr == Path("idle", "shiftdr") = <<1, 0, 0>>
<1> DEFINE at_idle == <<"idle", <<>>>>
<1> DEFINE at_seldr == <<"seldr", <<1>>>>
<1> DEFINE at_capdr == <<"capdr", <<1, 0>>>>
<1> DEFINE at_selir == <<"selir", <<1, 1>>>>
<1> DEFINE at_shiftdr == <<"shiftdr", <<1, 0, 0>>>>
<1> DEFINE at_e1dr == <<"e1dr", <<1, 0, 1>>>>
<1> DEFINE at_capir == <<"capir", <<1, 1, 0>>>>
<1> DEFINE at_reset == <<"reset", <<1, 1, 1>>>>
<1>1. /\ at_idle[1] = "idle"
      /\ at_seldr[1] = "seldr" /\ at_seldr = <<Clocked(at_idle[1], 1), Append(at_idle[2], 1)>>
      /\ at_capdr[1] = "capdr" /\ at_capdr = <<Clocked(at_seldr[1], 0), Append(at_seldr[2], 0)>>
      /\ at_selir[1] = "selir" /\ at_selir = <<Clocked(at_seldr[1], 1), Append(at_seldr[2], 1)>>
      /\ at_shiftdr[1] = "shiftdr" /\ at_shiftdr = <<Clocked(at_capdr[1], 0), Append(at_capdr[2], 0)>>
      /\ at_e1dr[1] = "e1dr" /\ at_e1dr = <<Clocked(at_capdr[1], 1), Append(at_capdr[2], 1)>>
      /\ at_capir[1] = "capir" /\ at_capir = <<Clocked(at_selir[1], 0), Append(at_selir[2], 0)>>
      /\ at_reset[1] = "reset" /\ at_reset = <<Clocked(at_selir[1], 1), Append(at_selir[2], 1)>>
      /\ at_shiftdr[2] = <<1, 0, 0>>
  <2>1. Append(<<>>, 1) = <<1>>
    BY Row1, Zenon
  <2>2. Append(<<1>>, 0) = <<1, 0>>
    BY Row2, Zenon
  <2>3. Append(<<1>>, 1) = <<1, 1>>
    BY Row2, Zenon
  <2>4. Append(<<1, 0>>, 0) = <<1, 0, 0>>
    BY Row3, Zenon
  <2>5. Append(<<1, 0>>, 1) = <<1, 0, 1>>
    BY Row3, Zenon
  <2>6. Append(<<1, 1>>, 0) = <<1, 1, 0>>
    BY Row3, Zenon
  <2>7. Append(<<1, 1>>, 1) = <<1, 1, 1>>
    BY Row3, Zenon
  <2> QED BY <2>1, <2>2, <2>3, <2>4, <2>5, <2>6, <2>7, ClockedTable
<1>2. PICK s : /\ s[0] = First("idle")
             /\ \A n \in 1..16 : s[n] = Round(s[n - 1], "shiftdr")
             /\ Search("idle", "shiftdr") = Head(s[16].queue)[2]
  BY SearchRounds
<1>3. s[0].queue = <<at_idle>> /\ s[0].seen = {"idle"}
  BY <1>2 DEF First
<1> HIDE DEF at_idle, at_seldr, at_capdr, at_selir, at_shiftdr, at_e1dr, at_capir, at_reset
<1>4. s[1].queue = <<at_seldr>> /\ s[1].seen = {"idle", "seldr"}
  <2>1. s[0].queue # <<>> /\ Head(s[0].queue) = at_idle /\ Tail(s[0].queue) = <<>>
    BY <1>3, Pop1, Zenon
  <2>2. s[1] = Round(s[0], "shiftdr")
    BY <1>2
  <2>3. Head(s[0].queue)[1] = "idle" /\ Clocked("idle", 0) = "idle" /\ Clocked("idle", 1) = "seldr"
    BY <1>1, <2>1, ClockedTable
  <2>4. NewOn0(s[0]) = <<>>
    <3>1. "idle" \in s[0].seen
      BY <1>3
    <3> QED BY <2>1, <2>3, <3>1, Zenon DEF NewOn0
  <2>5. NewOn1(s[0]) = <<at_seldr>>
    <3>1. "seldr" \notin s[0].seen \cup {"idle"}
      BY <1>3
    <3>2. at_seldr = <<Clocked(at_idle[1], 1), Append(at_idle[2], 1)>>
      BY <1>1
    <3> QED BY <3>2, <2>1, <2>3, <3>1, Zenon DEF NewOn1
  <2>6. Round(s[0], "shiftdr").queue = <<>> \o <<>> \o <<at_seldr>>
        /\ Round(s[0], "shiftdr").seen = s[0].seen \cup {"idle", "seldr"}
    <3>1. s[0].queue # <<>> /\ Head(s[0].queue)[1] # "shiftdr"
      BY <2>1, <2>3
    <3>2. /\ Round(s[0], "shiftdr").queue = Tail(s[0].queue) \o NewOn0(s[0]) \o NewOn1(s[0])
          /\ Round(s[0], "shiftdr").seen = s[0].seen \cup
                {Clocked(Head(s[0].queue)[1], 0), Clocked(Head(s[0].queue)[1], 1)}
      BY <3>1, Opened, Zenon
    <3> QED BY <2>1, <2>3, <2>4, <2>5, <3>2, Zenon
  <2>7. <<>> \o <<>> \o <<at_seldr>> = <<at_seldr>>
    BY Join001, Zenon
  <2> QED BY <1>3, <2>2, <2>6, <2>7
<1>5. s[2].queue = <<at_capdr, at_selir>> /\ s[2].seen = {"idle", "seldr", "capdr", "selir"}
  <2>1. s[1].queue # <<>> /\ Head(s[1].queue) = at_seldr /\ Tail(s[1].queue) = <<>>
    BY <1>4, Pop1, Zenon
  <2>2. s[2] = Round(s[1], "shiftdr")
    BY <1>2
  <2>3. Head(s[1].queue)[1] = "seldr" /\ Clocked("seldr", 0) = "capdr" /\ Clocked("seldr", 1) = "selir"
    BY <1>1, <2>1, ClockedTable
  <2>4. NewOn0(s[1]) = <<at_capdr>>
    <3>1. "capdr" \notin s[1].seen
      BY <1>4
    <3>2. at_capdr = <<Clocked(at_seldr[1], 0), Append(at_seldr[2], 0)>>
      BY <1>1
    <3> QED BY <3>2, <2>1, <2>3, <3>1, Zenon DEF NewOn0
  <2>5. NewOn1(s[1]) = <<at_selir>>
    <3>1. "selir" \notin s[1].seen \cup {"capdr"}
      BY <1>4
    <3>2. at_selir = <<Clocked(at_seldr[1], 1), Append(at_seldr[2], 1)>>
      BY <1>1
    <3> QED BY <3>2, <2>1, <2>3, <3>1, Zenon DEF NewOn1
  <2>6. Round(s[1], "shiftdr").queue = <<>> \o <<at_capdr>> \o <<at_selir>>
        /\ Round(s[1], "shiftdr").seen = s[1].seen \cup {"capdr", "selir"}
    <3>1. s[1].queue # <<>> /\ Head(s[1].queue)[1] # "shiftdr"
      BY <2>1, <2>3
    <3>2. /\ Round(s[1], "shiftdr").queue = Tail(s[1].queue) \o NewOn0(s[1]) \o NewOn1(s[1])
          /\ Round(s[1], "shiftdr").seen = s[1].seen \cup
                {Clocked(Head(s[1].queue)[1], 0), Clocked(Head(s[1].queue)[1], 1)}
      BY <3>1, Opened, Zenon
    <3> QED BY <2>1, <2>3, <2>4, <2>5, <3>2, Zenon
  <2>7. <<>> \o <<at_capdr>> \o <<at_selir>> = <<at_capdr, at_selir>>
    BY Join011, Zenon
  <2> QED BY <1>4, <2>2, <2>6, <2>7
<1>6. s[3].queue = <<at_selir, at_shiftdr, at_e1dr>> /\ s[3].seen = {"idle", "seldr", "capdr", "selir", "shiftdr", "e1dr"}
  <2>1. s[2].queue # <<>> /\ Head(s[2].queue) = at_capdr /\ Tail(s[2].queue) = <<at_selir>>
    BY <1>5, Pop2, Zenon
  <2>2. s[3] = Round(s[2], "shiftdr")
    BY <1>2
  <2>3. Head(s[2].queue)[1] = "capdr" /\ Clocked("capdr", 0) = "shiftdr" /\ Clocked("capdr", 1) = "e1dr"
    BY <1>1, <2>1, ClockedTable
  <2>4. NewOn0(s[2]) = <<at_shiftdr>>
    <3>1. "shiftdr" \notin s[2].seen
      BY <1>5
    <3>2. at_shiftdr = <<Clocked(at_capdr[1], 0), Append(at_capdr[2], 0)>>
      BY <1>1
    <3> QED BY <3>2, <2>1, <2>3, <3>1, Zenon DEF NewOn0
  <2>5. NewOn1(s[2]) = <<at_e1dr>>
    <3>1. "e1dr" \notin s[2].seen \cup {"shiftdr"}
      BY <1>5
    <3>2. at_e1dr = <<Clocked(at_capdr[1], 1), Append(at_capdr[2], 1)>>
      BY <1>1
    <3> QED BY <3>2, <2>1, <2>3, <3>1, Zenon DEF NewOn1
  <2>6. Round(s[2], "shiftdr").queue = <<at_selir>> \o <<at_shiftdr>> \o <<at_e1dr>>
        /\ Round(s[2], "shiftdr").seen = s[2].seen \cup {"shiftdr", "e1dr"}
    <3>1. s[2].queue # <<>> /\ Head(s[2].queue)[1] # "shiftdr"
      BY <2>1, <2>3
    <3>2. /\ Round(s[2], "shiftdr").queue = Tail(s[2].queue) \o NewOn0(s[2]) \o NewOn1(s[2])
          /\ Round(s[2], "shiftdr").seen = s[2].seen \cup
                {Clocked(Head(s[2].queue)[1], 0), Clocked(Head(s[2].queue)[1], 1)}
      BY <3>1, Opened, Zenon
    <3> QED BY <2>1, <2>3, <2>4, <2>5, <3>2, Zenon
  <2>7. <<at_selir>> \o <<at_shiftdr>> \o <<at_e1dr>> = <<at_selir, at_shiftdr, at_e1dr>>
    BY Join111, Zenon
  <2> QED BY <1>5, <2>2, <2>6, <2>7
<1>7. s[4].queue = <<at_shiftdr, at_e1dr, at_capir, at_reset>> /\ s[4].seen = {"idle", "seldr", "capdr", "selir", "shiftdr", "e1dr", "capir", "reset"}
  <2>1. s[3].queue # <<>> /\ Head(s[3].queue) = at_selir /\ Tail(s[3].queue) = <<at_shiftdr, at_e1dr>>
    BY <1>6, Pop3
  <2>2. s[4] = Round(s[3], "shiftdr")
    BY <1>2
  <2>3. Head(s[3].queue)[1] = "selir" /\ Clocked("selir", 0) = "capir" /\ Clocked("selir", 1) = "reset"
    BY <1>1, <2>1, ClockedTable
  <2>4. NewOn0(s[3]) = <<at_capir>>
    <3>1. "capir" \notin s[3].seen
      BY <1>6
    <3>2. at_capir = <<Clocked(at_selir[1], 0), Append(at_selir[2], 0)>>
      BY <1>1
    <3> QED BY <3>2, <2>1, <2>3, <3>1, Zenon DEF NewOn0
  <2>5. NewOn1(s[3]) = <<at_reset>>
    <3>1. "reset" \notin s[3].seen \cup {"capir"}
      BY <1>6
    <3>2. at_reset = <<Clocked(at_selir[1], 1), Append(at_selir[2], 1)>>
      BY <1>1
    <3> QED BY <3>2, <2>1, <2>3, <3>1, Zenon DEF NewOn1
  <2>6. Round(s[3], "shiftdr").queue = <<at_shiftdr, at_e1dr>> \o <<at_capir>> \o <<at_reset>>
        /\ Round(s[3], "shiftdr").seen = s[3].seen \cup {"capir", "reset"}
    <3>1. s[3].queue # <<>> /\ Head(s[3].queue)[1] # "shiftdr"
      BY <2>1, <2>3
    <3>2. /\ Round(s[3], "shiftdr").queue = Tail(s[3].queue) \o NewOn0(s[3]) \o NewOn1(s[3])
          /\ Round(s[3], "shiftdr").seen = s[3].seen \cup
                {Clocked(Head(s[3].queue)[1], 0), Clocked(Head(s[3].queue)[1], 1)}
      BY <3>1, Opened, Zenon
    <3> QED BY <2>1, <2>3, <2>4, <2>5, <3>2, Zenon
  <2>7. <<at_shiftdr, at_e1dr>> \o <<at_capir>> \o <<at_reset>> = <<at_shiftdr, at_e1dr, at_capir, at_reset>>
    BY Join211, Zenon
  <2> QED BY <1>6, <2>2, <2>6, <2>7
<1>8. s[16] = s[4] /\ Head(s[4].queue) = at_shiftdr
  <2>1. Head(s[4].queue) = at_shiftdr
    BY <1>7, Pop4
  <2>2. \A n \in 5..16 : s[n - 1] = s[4] => s[n] = s[4]
    <3>1. at_shiftdr[1] = "shiftdr"
      BY <1>1
    <3>2. Round(s[4], "shiftdr") = s[4]
      BY <2>1, <3>1, Arrived
    <3> QED BY <1>2, <3>2
  <2> QED BY <2>1, <2>2
<1>9. Search("idle", "shiftdr") = <<1, 0, 0>>
  <2>1. Search("idle", "shiftdr") = Head(s[16].queue)[2]
    BY <1>2
  <2>2. @ = at_shiftdr[2]
    BY <1>8
  <2> QED BY <1>1, <2>1, <2>2
<1> QED BY <1>9 DEF Path, PathTable, TapState

\* The walk from "idle" to "shiftir".
LEMMA ToShiftIr == Path("idle", "shiftir") = <<1, 1, 0, 0>>
<1> DEFINE at_idle == <<"idle", <<>>>>
<1> DEFINE at_seldr == <<"seldr", <<1>>>>
<1> DEFINE at_capdr == <<"capdr", <<1, 0>>>>
<1> DEFINE at_selir == <<"selir", <<1, 1>>>>
<1> DEFINE at_shiftdr == <<"shiftdr", <<1, 0, 0>>>>
<1> DEFINE at_e1dr == <<"e1dr", <<1, 0, 1>>>>
<1> DEFINE at_capir == <<"capir", <<1, 1, 0>>>>
<1> DEFINE at_reset == <<"reset", <<1, 1, 1>>>>
<1> DEFINE at_pausedr == <<"pausedr", <<1, 0, 1, 0>>>>
<1> DEFINE at_updr == <<"updr", <<1, 0, 1, 1>>>>
<1> DEFINE at_shiftir == <<"shiftir", <<1, 1, 0, 0>>>>
<1> DEFINE at_e1ir == <<"e1ir", <<1, 1, 0, 1>>>>
<1> DEFINE at_e2dr == <<"e2dr", <<1, 0, 1, 0, 1>>>>
<1>1. /\ at_idle[1] = "idle"
      /\ at_seldr[1] = "seldr" /\ at_seldr = <<Clocked(at_idle[1], 1), Append(at_idle[2], 1)>>
      /\ at_capdr[1] = "capdr" /\ at_capdr = <<Clocked(at_seldr[1], 0), Append(at_seldr[2], 0)>>
      /\ at_selir[1] = "selir" /\ at_selir = <<Clocked(at_seldr[1], 1), Append(at_seldr[2], 1)>>
      /\ at_shiftdr[1] = "shiftdr" /\ at_shiftdr = <<Clocked(at_capdr[1], 0), Append(at_capdr[2], 0)>>
      /\ at_e1dr[1] = "e1dr" /\ at_e1dr = <<Clocked(at_capdr[1], 1), Append(at_capdr[2], 1)>>
      /\ at_capir[1] = "capir" /\ at_capir = <<Clocked(at_selir[1], 0), Append(at_selir[2], 0)>>
      /\ at_reset[1] = "reset" /\ at_reset = <<Clocked(at_selir[1], 1), Append(at_selir[2], 1)>>
      /\ at_pausedr[1] = "pausedr" /\ at_pausedr = <<Clocked(at_e1dr[1], 0), Append(at_e1dr[2], 0)>>
      /\ at_updr[1] = "updr" /\ at_updr = <<Clocked(at_e1dr[1], 1), Append(at_e1dr[2], 1)>>
      /\ at_shiftir[1] = "shiftir" /\ at_shiftir = <<Clocked(at_capir[1], 0), Append(at_capir[2], 0)>>
      /\ at_e1ir[1] = "e1ir" /\ at_e1ir = <<Clocked(at_capir[1], 1), Append(at_capir[2], 1)>>
      /\ at_e2dr[1] = "e2dr" /\ at_e2dr = <<Clocked(at_pausedr[1], 1), Append(at_pausedr[2], 1)>>
      /\ at_shiftir[2] = <<1, 1, 0, 0>>
  <2>1. Append(<<>>, 1) = <<1>>
    BY Row1, Zenon
  <2>2. Append(<<1>>, 0) = <<1, 0>>
    BY Row2, Zenon
  <2>3. Append(<<1>>, 1) = <<1, 1>>
    BY Row2, Zenon
  <2>4. Append(<<1, 0>>, 0) = <<1, 0, 0>>
    BY Row3, Zenon
  <2>5. Append(<<1, 0>>, 1) = <<1, 0, 1>>
    BY Row3, Zenon
  <2>6. Append(<<1, 1>>, 0) = <<1, 1, 0>>
    BY Row3, Zenon
  <2>7. Append(<<1, 1>>, 1) = <<1, 1, 1>>
    BY Row3, Zenon
  <2>8. Append(<<1, 0, 1>>, 0) = <<1, 0, 1, 0>>
    BY Row4, Zenon
  <2>9. Append(<<1, 0, 1>>, 1) = <<1, 0, 1, 1>>
    BY Row4, Zenon
  <2>10. Append(<<1, 1, 0>>, 0) = <<1, 1, 0, 0>>
    BY Row4, Zenon
  <2>11. Append(<<1, 1, 0>>, 1) = <<1, 1, 0, 1>>
    BY Row4, Zenon
  <2>12. Append(<<1, 0, 1, 0>>, 1) = <<1, 0, 1, 0, 1>>
    BY Row5, Zenon
  <2> QED BY <2>1, <2>2, <2>3, <2>4, <2>5, <2>6, <2>7, <2>8, <2>9, <2>10, <2>11, <2>12, ClockedTable
<1>2. PICK s : /\ s[0] = First("idle")
             /\ \A n \in 1..16 : s[n] = Round(s[n - 1], "shiftir")
             /\ Search("idle", "shiftir") = Head(s[16].queue)[2]
  BY SearchRounds
<1>3. s[0].queue = <<at_idle>> /\ s[0].seen = {"idle"}
  BY <1>2 DEF First
<1> HIDE DEF at_idle, at_seldr, at_capdr, at_selir, at_shiftdr, at_e1dr, at_capir, at_reset, at_pausedr, at_updr, at_shiftir, at_e1ir, at_e2dr
<1>4. s[1].queue = <<at_seldr>> /\ s[1].seen = {"idle", "seldr"}
  <2>1. s[0].queue # <<>> /\ Head(s[0].queue) = at_idle /\ Tail(s[0].queue) = <<>>
    BY <1>3, Pop1, Zenon
  <2>2. s[1] = Round(s[0], "shiftir")
    BY <1>2
  <2>3. Head(s[0].queue)[1] = "idle" /\ Clocked("idle", 0) = "idle" /\ Clocked("idle", 1) = "seldr"
    BY <1>1, <2>1, ClockedTable
  <2>4. NewOn0(s[0]) = <<>>
    <3>1. "idle" \in s[0].seen
      BY <1>3
    <3> QED BY <2>1, <2>3, <3>1, Zenon DEF NewOn0
  <2>5. NewOn1(s[0]) = <<at_seldr>>
    <3>1. "seldr" \notin s[0].seen \cup {"idle"}
      BY <1>3
    <3>2. at_seldr = <<Clocked(at_idle[1], 1), Append(at_idle[2], 1)>>
      BY <1>1
    <3> QED BY <3>2, <2>1, <2>3, <3>1, Zenon DEF NewOn1
  <2>6. Round(s[0], "shiftir").queue = <<>> \o <<>> \o <<at_seldr>>
        /\ Round(s[0], "shiftir").seen = s[0].seen \cup {"idle", "seldr"}
    <3>1. s[0].queue # <<>> /\ Head(s[0].queue)[1] # "shiftir"
      BY <2>1, <2>3
    <3>2. /\ Round(s[0], "shiftir").queue = Tail(s[0].queue) \o NewOn0(s[0]) \o NewOn1(s[0])
          /\ Round(s[0], "shiftir").seen = s[0].seen \cup
                {Clocked(Head(s[0].queue)[1], 0), Clocked(Head(s[0].queue)[1], 1)}
      BY <3>1, Opened, Zenon
    <3> QED BY <2>1, <2>3, <2>4, <2>5, <3>2, Zenon
  <2>7. <<>> \o <<>> \o <<at_seldr>> = <<at_seldr>>
    BY Join001, Zenon
  <2> QED BY <1>3, <2>2, <2>6, <2>7
<1>5. s[2].queue = <<at_capdr, at_selir>> /\ s[2].seen = {"idle", "seldr", "capdr", "selir"}
  <2>1. s[1].queue # <<>> /\ Head(s[1].queue) = at_seldr /\ Tail(s[1].queue) = <<>>
    BY <1>4, Pop1, Zenon
  <2>2. s[2] = Round(s[1], "shiftir")
    BY <1>2
  <2>3. Head(s[1].queue)[1] = "seldr" /\ Clocked("seldr", 0) = "capdr" /\ Clocked("seldr", 1) = "selir"
    BY <1>1, <2>1, ClockedTable
  <2>4. NewOn0(s[1]) = <<at_capdr>>
    <3>1. "capdr" \notin s[1].seen
      BY <1>4
    <3>2. at_capdr = <<Clocked(at_seldr[1], 0), Append(at_seldr[2], 0)>>
      BY <1>1
    <3> QED BY <3>2, <2>1, <2>3, <3>1, Zenon DEF NewOn0
  <2>5. NewOn1(s[1]) = <<at_selir>>
    <3>1. "selir" \notin s[1].seen \cup {"capdr"}
      BY <1>4
    <3>2. at_selir = <<Clocked(at_seldr[1], 1), Append(at_seldr[2], 1)>>
      BY <1>1
    <3> QED BY <3>2, <2>1, <2>3, <3>1, Zenon DEF NewOn1
  <2>6. Round(s[1], "shiftir").queue = <<>> \o <<at_capdr>> \o <<at_selir>>
        /\ Round(s[1], "shiftir").seen = s[1].seen \cup {"capdr", "selir"}
    <3>1. s[1].queue # <<>> /\ Head(s[1].queue)[1] # "shiftir"
      BY <2>1, <2>3
    <3>2. /\ Round(s[1], "shiftir").queue = Tail(s[1].queue) \o NewOn0(s[1]) \o NewOn1(s[1])
          /\ Round(s[1], "shiftir").seen = s[1].seen \cup
                {Clocked(Head(s[1].queue)[1], 0), Clocked(Head(s[1].queue)[1], 1)}
      BY <3>1, Opened, Zenon
    <3> QED BY <2>1, <2>3, <2>4, <2>5, <3>2, Zenon
  <2>7. <<>> \o <<at_capdr>> \o <<at_selir>> = <<at_capdr, at_selir>>
    BY Join011, Zenon
  <2> QED BY <1>4, <2>2, <2>6, <2>7
<1>6. s[3].queue = <<at_selir, at_shiftdr, at_e1dr>> /\ s[3].seen = {"idle", "seldr", "capdr", "selir", "shiftdr", "e1dr"}
  <2>1. s[2].queue # <<>> /\ Head(s[2].queue) = at_capdr /\ Tail(s[2].queue) = <<at_selir>>
    BY <1>5, Pop2, Zenon
  <2>2. s[3] = Round(s[2], "shiftir")
    BY <1>2
  <2>3. Head(s[2].queue)[1] = "capdr" /\ Clocked("capdr", 0) = "shiftdr" /\ Clocked("capdr", 1) = "e1dr"
    BY <1>1, <2>1, ClockedTable
  <2>4. NewOn0(s[2]) = <<at_shiftdr>>
    <3>1. "shiftdr" \notin s[2].seen
      BY <1>5
    <3>2. at_shiftdr = <<Clocked(at_capdr[1], 0), Append(at_capdr[2], 0)>>
      BY <1>1
    <3> QED BY <3>2, <2>1, <2>3, <3>1, Zenon DEF NewOn0
  <2>5. NewOn1(s[2]) = <<at_e1dr>>
    <3>1. "e1dr" \notin s[2].seen \cup {"shiftdr"}
      BY <1>5
    <3>2. at_e1dr = <<Clocked(at_capdr[1], 1), Append(at_capdr[2], 1)>>
      BY <1>1
    <3> QED BY <3>2, <2>1, <2>3, <3>1, Zenon DEF NewOn1
  <2>6. Round(s[2], "shiftir").queue = <<at_selir>> \o <<at_shiftdr>> \o <<at_e1dr>>
        /\ Round(s[2], "shiftir").seen = s[2].seen \cup {"shiftdr", "e1dr"}
    <3>1. s[2].queue # <<>> /\ Head(s[2].queue)[1] # "shiftir"
      BY <2>1, <2>3
    <3>2. /\ Round(s[2], "shiftir").queue = Tail(s[2].queue) \o NewOn0(s[2]) \o NewOn1(s[2])
          /\ Round(s[2], "shiftir").seen = s[2].seen \cup
                {Clocked(Head(s[2].queue)[1], 0), Clocked(Head(s[2].queue)[1], 1)}
      BY <3>1, Opened, Zenon
    <3> QED BY <2>1, <2>3, <2>4, <2>5, <3>2, Zenon
  <2>7. <<at_selir>> \o <<at_shiftdr>> \o <<at_e1dr>> = <<at_selir, at_shiftdr, at_e1dr>>
    BY Join111, Zenon
  <2> QED BY <1>5, <2>2, <2>6, <2>7
<1>7. s[4].queue = <<at_shiftdr, at_e1dr, at_capir, at_reset>> /\ s[4].seen = {"idle", "seldr", "capdr", "selir", "shiftdr", "e1dr", "capir", "reset"}
  <2>1. s[3].queue # <<>> /\ Head(s[3].queue) = at_selir /\ Tail(s[3].queue) = <<at_shiftdr, at_e1dr>>
    BY <1>6, Pop3
  <2>2. s[4] = Round(s[3], "shiftir")
    BY <1>2
  <2>3. Head(s[3].queue)[1] = "selir" /\ Clocked("selir", 0) = "capir" /\ Clocked("selir", 1) = "reset"
    BY <1>1, <2>1, ClockedTable
  <2>4. NewOn0(s[3]) = <<at_capir>>
    <3>1. "capir" \notin s[3].seen
      BY <1>6
    <3>2. at_capir = <<Clocked(at_selir[1], 0), Append(at_selir[2], 0)>>
      BY <1>1
    <3> QED BY <3>2, <2>1, <2>3, <3>1, Zenon DEF NewOn0
  <2>5. NewOn1(s[3]) = <<at_reset>>
    <3>1. "reset" \notin s[3].seen \cup {"capir"}
      BY <1>6
    <3>2. at_reset = <<Clocked(at_selir[1], 1), Append(at_selir[2], 1)>>
      BY <1>1
    <3> QED BY <3>2, <2>1, <2>3, <3>1, Zenon DEF NewOn1
  <2>6. Round(s[3], "shiftir").queue = <<at_shiftdr, at_e1dr>> \o <<at_capir>> \o <<at_reset>>
        /\ Round(s[3], "shiftir").seen = s[3].seen \cup {"capir", "reset"}
    <3>1. s[3].queue # <<>> /\ Head(s[3].queue)[1] # "shiftir"
      BY <2>1, <2>3
    <3>2. /\ Round(s[3], "shiftir").queue = Tail(s[3].queue) \o NewOn0(s[3]) \o NewOn1(s[3])
          /\ Round(s[3], "shiftir").seen = s[3].seen \cup
                {Clocked(Head(s[3].queue)[1], 0), Clocked(Head(s[3].queue)[1], 1)}
      BY <3>1, Opened, Zenon
    <3> QED BY <2>1, <2>3, <2>4, <2>5, <3>2, Zenon
  <2>7. <<at_shiftdr, at_e1dr>> \o <<at_capir>> \o <<at_reset>> = <<at_shiftdr, at_e1dr, at_capir, at_reset>>
    BY Join211, Zenon
  <2> QED BY <1>6, <2>2, <2>6, <2>7
<1>8. s[5].queue = <<at_e1dr, at_capir, at_reset>> /\ s[5].seen = {"idle", "seldr", "capdr", "selir", "shiftdr", "e1dr", "capir", "reset"}
  <2>1. s[4].queue # <<>> /\ Head(s[4].queue) = at_shiftdr /\ Tail(s[4].queue) = <<at_e1dr, at_capir, at_reset>>
    BY <1>7, Pop4
  <2>2. s[5] = Round(s[4], "shiftir")
    BY <1>2
  <2>3. Head(s[4].queue)[1] = "shiftdr" /\ Clocked("shiftdr", 0) = "shiftdr" /\ Clocked("shiftdr", 1) = "e1dr"
    BY <1>1, <2>1, ClockedTable
  <2>4. NewOn0(s[4]) = <<>>
    <3>1. "shiftdr" \in s[4].seen
      BY <1>7
    <3> QED BY <2>1, <2>3, <3>1, Zenon DEF NewOn0
  <2>5. NewOn1(s[4]) = <<>>
    <3>1. "e1dr" \in s[4].seen \cup {"shiftdr"}
      BY <1>7
    <3> QED BY <2>1, <2>3, <3>1, Zenon DEF NewOn1
  <2>6. Round(s[4], "shiftir").queue = <<at_e1dr, at_capir, at_reset>> \o <<>> \o <<>>
        /\ Round(s[4], "shiftir").seen = s[4].seen \cup {"shiftdr", "e1dr"}
    <3>1. s[4].queue # <<>> /\ Head(s[4].queue)[1] # "shiftir"
      BY <2>1, <2>3
    <3>2. /\ Round(s[4], "shiftir").queue = Tail(s[4].queue) \o NewOn0(s[4]) \o NewOn1(s[4])
          /\ Round(s[4], "shiftir").seen = s[4].seen \cup
                {Clocked(Head(s[4].queue)[1], 0), Clocked(Head(s[4].queue)[1], 1)}
      BY <3>1, Opened, Zenon
    <3> QED BY <2>1, <2>3, <2>4, <2>5, <3>2, Zenon
  <2>7. <<at_e1dr, at_capir, at_reset>> \o <<>> \o <<>> = <<at_e1dr, at_capir, at_reset>>
    BY Join300, Zenon
  <2> QED BY <1>7, <2>2, <2>6, <2>7
<1>9. s[6].queue = <<at_capir, at_reset, at_pausedr, at_updr>> /\ s[6].seen = {"idle", "seldr", "capdr", "selir", "shiftdr", "e1dr", "capir", "reset", "pausedr", "updr"}
  <2>1. s[5].queue # <<>> /\ Head(s[5].queue) = at_e1dr /\ Tail(s[5].queue) = <<at_capir, at_reset>>
    BY <1>8, Pop3
  <2>2. s[6] = Round(s[5], "shiftir")
    BY <1>2
  <2>3. Head(s[5].queue)[1] = "e1dr" /\ Clocked("e1dr", 0) = "pausedr" /\ Clocked("e1dr", 1) = "updr"
    BY <1>1, <2>1, ClockedTable
  <2>4. NewOn0(s[5]) = <<at_pausedr>>
    <3>1. "pausedr" \notin s[5].seen
      BY <1>8
    <3>2. at_pausedr = <<Clocked(at_e1dr[1], 0), Append(at_e1dr[2], 0)>>
      BY <1>1
    <3> QED BY <3>2, <2>1, <2>3, <3>1, Zenon DEF NewOn0
  <2>5. NewOn1(s[5]) = <<at_updr>>
    <3>1. "updr" \notin s[5].seen \cup {"pausedr"}
      BY <1>8
    <3>2. at_updr = <<Clocked(at_e1dr[1], 1), Append(at_e1dr[2], 1)>>
      BY <1>1
    <3> QED BY <3>2, <2>1, <2>3, <3>1, Zenon DEF NewOn1
  <2>6. Round(s[5], "shiftir").queue = <<at_capir, at_reset>> \o <<at_pausedr>> \o <<at_updr>>
        /\ Round(s[5], "shiftir").seen = s[5].seen \cup {"pausedr", "updr"}
    <3>1. s[5].queue # <<>> /\ Head(s[5].queue)[1] # "shiftir"
      BY <2>1, <2>3
    <3>2. /\ Round(s[5], "shiftir").queue = Tail(s[5].queue) \o NewOn0(s[5]) \o NewOn1(s[5])
          /\ Round(s[5], "shiftir").seen = s[5].seen \cup
                {Clocked(Head(s[5].queue)[1], 0), Clocked(Head(s[5].queue)[1], 1)}
      BY <3>1, Opened, Zenon
    <3> QED BY <2>1, <2>3, <2>4, <2>5, <3>2, Zenon
  <2>7. <<at_capir, at_reset>> \o <<at_pausedr>> \o <<at_updr>> = <<at_capir, at_reset, at_pausedr, at_updr>>
    BY Join211, Zenon
  <2> QED BY <1>8, <2>2, <2>6, <2>7
<1>10. s[7].queue = <<at_reset, at_pausedr, at_updr, at_shiftir, at_e1ir>> /\ s[7].seen = {"idle", "seldr", "capdr", "selir", "shiftdr", "e1dr", "capir", "reset", "pausedr", "updr", "shiftir", "e1ir"}
  <2>1. s[6].queue # <<>> /\ Head(s[6].queue) = at_capir /\ Tail(s[6].queue) = <<at_reset, at_pausedr, at_updr>>
    BY <1>9, Pop4
  <2>2. s[7] = Round(s[6], "shiftir")
    BY <1>2
  <2>3. Head(s[6].queue)[1] = "capir" /\ Clocked("capir", 0) = "shiftir" /\ Clocked("capir", 1) = "e1ir"
    BY <1>1, <2>1, ClockedTable
  <2>4. NewOn0(s[6]) = <<at_shiftir>>
    <3>1. "shiftir" \notin s[6].seen
      BY <1>9
    <3>2. at_shiftir = <<Clocked(at_capir[1], 0), Append(at_capir[2], 0)>>
      BY <1>1
    <3> QED BY <3>2, <2>1, <2>3, <3>1, Zenon DEF NewOn0
  <2>5. NewOn1(s[6]) = <<at_e1ir>>
    <3>1. "e1ir" \notin s[6].seen \cup {"shiftir"}
      BY <1>9
    <3>2. at_e1ir = <<Clocked(at_capir[1], 1), Append(at_capir[2], 1)>>
      BY <1>1
    <3> QED BY <3>2, <2>1, <2>3, <3>1, Zenon DEF NewOn1
  <2>6. Round(s[6], "shiftir").queue = <<at_reset, at_pausedr, at_updr>> \o <<at_shiftir>> \o <<at_e1ir>>
        /\ Round(s[6], "shiftir").seen = s[6].seen \cup {"shiftir", "e1ir"}
    <3>1. s[6].queue # <<>> /\ Head(s[6].queue)[1] # "shiftir"
      BY <2>1, <2>3
    <3>2. /\ Round(s[6], "shiftir").queue = Tail(s[6].queue) \o NewOn0(s[6]) \o NewOn1(s[6])
          /\ Round(s[6], "shiftir").seen = s[6].seen \cup
                {Clocked(Head(s[6].queue)[1], 0), Clocked(Head(s[6].queue)[1], 1)}
      BY <3>1, Opened, Zenon
    <3> QED BY <2>1, <2>3, <2>4, <2>5, <3>2, Zenon
  <2>7. <<at_reset, at_pausedr, at_updr>> \o <<at_shiftir>> \o <<at_e1ir>> = <<at_reset, at_pausedr, at_updr, at_shiftir, at_e1ir>>
    BY Join311, ZenonT(60)
  <2> QED BY <1>9, <2>2, <2>6, <2>7
<1>11. s[8].queue = <<at_pausedr, at_updr, at_shiftir, at_e1ir>> /\ s[8].seen = {"idle", "seldr", "capdr", "selir", "shiftdr", "e1dr", "capir", "reset", "pausedr", "updr", "shiftir", "e1ir"}
  <2>1. s[7].queue # <<>> /\ Head(s[7].queue) = at_reset /\ Tail(s[7].queue) = <<at_pausedr, at_updr, at_shiftir, at_e1ir>>
    BY <1>10, Pop5
  <2>2. s[8] = Round(s[7], "shiftir")
    BY <1>2
  <2>3. Head(s[7].queue)[1] = "reset" /\ Clocked("reset", 0) = "idle" /\ Clocked("reset", 1) = "reset"
    BY <1>1, <2>1, ClockedTable
  <2>4. NewOn0(s[7]) = <<>>
    <3>1. "idle" \in s[7].seen
      BY <1>10
    <3> QED BY <2>1, <2>3, <3>1, Zenon DEF NewOn0
  <2>5. NewOn1(s[7]) = <<>>
    <3>1. "reset" \in s[7].seen \cup {"idle"}
      BY <1>10
    <3> QED BY <2>1, <2>3, <3>1, Zenon DEF NewOn1
  <2>6. Round(s[7], "shiftir").queue = <<at_pausedr, at_updr, at_shiftir, at_e1ir>> \o <<>> \o <<>>
        /\ Round(s[7], "shiftir").seen = s[7].seen \cup {"idle", "reset"}
    <3>1. s[7].queue # <<>> /\ Head(s[7].queue)[1] # "shiftir"
      BY <2>1, <2>3
    <3>2. /\ Round(s[7], "shiftir").queue = Tail(s[7].queue) \o NewOn0(s[7]) \o NewOn1(s[7])
          /\ Round(s[7], "shiftir").seen = s[7].seen \cup
                {Clocked(Head(s[7].queue)[1], 0), Clocked(Head(s[7].queue)[1], 1)}
      BY <3>1, Opened, Zenon
    <3> QED BY <2>1, <2>3, <2>4, <2>5, <3>2, Zenon
  <2>7. <<at_pausedr, at_updr, at_shiftir, at_e1ir>> \o <<>> \o <<>> = <<at_pausedr, at_updr, at_shiftir, at_e1ir>>
    BY Join400, Zenon
  <2> QED BY <1>10, <2>2, <2>6, <2>7
<1>12. s[9].queue = <<at_updr, at_shiftir, at_e1ir, at_e2dr>> /\ s[9].seen = {"idle", "seldr", "capdr", "selir", "shiftdr", "e1dr", "capir", "reset", "pausedr", "updr", "shiftir", "e1ir", "e2dr"}
  <2>1. s[8].queue # <<>> /\ Head(s[8].queue) = at_pausedr /\ Tail(s[8].queue) = <<at_updr, at_shiftir, at_e1ir>>
    BY <1>11, Pop4
  <2>2. s[9] = Round(s[8], "shiftir")
    BY <1>2
  <2>3. Head(s[8].queue)[1] = "pausedr" /\ Clocked("pausedr", 0) = "pausedr" /\ Clocked("pausedr", 1) = "e2dr"
    BY <1>1, <2>1, ClockedTable
  <2>4. NewOn0(s[8]) = <<>>
    <3>1. "pausedr" \in s[8].seen
      BY <1>11
    <3> QED BY <2>1, <2>3, <3>1, Zenon DEF NewOn0
  <2>5. NewOn1(s[8]) = <<at_e2dr>>
    <3>1. "e2dr" \notin s[8].seen \cup {"pausedr"}
      BY <1>11
    <3>2. at_e2dr = <<Clocked(at_pausedr[1], 1), Append(at_pausedr[2], 1)>>
      BY <1>1
    <3> QED BY <3>2, <2>1, <2>3, <3>1, Zenon DEF NewOn1
  <2>6. Round(s[8], "shiftir").queue = <<at_updr, at_shiftir, at_e1ir>> \o <<>> \o <<at_e2dr>>
        /\ Round(s[8], "shiftir").seen = s[8].seen \cup {"pausedr", "e2dr"}
    <3>1. s[8].queue # <<>> /\ Head(s[8].queue)[1] # "shiftir"
      BY <2>1, <2>3
    <3>2. /\ Round(s[8], "shiftir").queue = Tail(s[8].queue) \o NewOn0(s[8]) \o NewOn1(s[8])
          /\ Round(s[8], "shiftir").seen = s[8].seen \cup
                {Clocked(Head(s[8].queue)[1], 0), Clocked(Head(s[8].queue)[1], 1)}
      BY <3>1, Opened, Zenon
    <3> QED BY <2>1, <2>3, <2>4, <2>5, <3>2, Zenon
  <2>7. <<at_updr, at_shiftir, at_e1ir>> \o <<>> \o <<at_e2dr>> = <<at_updr, at_shiftir, at_e1ir, at_e2dr>>
    BY Join301, Zenon
  <2> QED BY <1>11, <2>2, <2>6, <2>7
<1>13. s[10].queue = <<at_shiftir, at_e1ir, at_e2dr>> /\ s[10].seen = {"idle", "seldr", "capdr", "selir", "shiftdr", "e1dr", "capir", "reset", "pausedr", "updr", "shiftir", "e1ir", "e2dr"}
  <2>1. s[9].queue # <<>> /\ Head(s[9].queue) = at_updr /\ Tail(s[9].queue) = <<at_shiftir, at_e1ir, at_e2dr>>
    BY <1>12, Pop4
  <2>2. s[10] = Round(s[9], "shiftir")
    BY <1>2
  <2>3. Head(s[9].queue)[1] = "updr" /\ Clocked("updr", 0) = "idle" /\ Clocked("updr", 1) = "seldr"
    BY <1>1, <2>1, ClockedTable
  <2>4. NewOn0(s[9]) = <<>>
    <3>1. "idle" \in s[9].seen
      BY <1>12
    <3> QED BY <2>1, <2>3, <3>1, Zenon DEF NewOn0
  <2>5. NewOn1(s[9]) = <<>>
    <3>1. "seldr" \in s[9].seen \cup {"idle"}
      BY <1>12
    <3> QED BY <2>1, <2>3, <3>1, Zenon DEF NewOn1
  <2>6. Round(s[9], "shiftir").queue = <<at_shiftir, at_e1ir, at_e2dr>> \o <<>> \o <<>>
        /\ Round(s[9], "shiftir").seen = s[9].seen \cup {"idle", "seldr"}
    <3>1. s[9].queue # <<>> /\ Head(s[9].queue)[1] # "shiftir"
      BY <2>1, <2>3
    <3>2. /\ Round(s[9], "shiftir").queue = Tail(s[9].queue) \o NewOn0(s[9]) \o NewOn1(s[9])
          /\ Round(s[9], "shiftir").seen = s[9].seen \cup
                {Clocked(Head(s[9].queue)[1], 0), Clocked(Head(s[9].queue)[1], 1)}
      BY <3>1, Opened, Zenon
    <3> QED BY <2>1, <2>3, <2>4, <2>5, <3>2, Zenon
  <2>7. <<at_shiftir, at_e1ir, at_e2dr>> \o <<>> \o <<>> = <<at_shiftir, at_e1ir, at_e2dr>>
    BY Join300, Zenon
  <2> QED BY <1>12, <2>2, <2>6, <2>7
<1>14. s[16] = s[10] /\ Head(s[10].queue) = at_shiftir
  <2>1. Head(s[10].queue) = at_shiftir
    BY <1>13, Pop3
  <2>2. \A n \in 11..16 : s[n - 1] = s[10] => s[n] = s[10]
    <3>1. at_shiftir[1] = "shiftir"
      BY <1>1
    <3>2. Round(s[10], "shiftir") = s[10]
      BY <2>1, <3>1, Arrived
    <3> QED BY <1>2, <3>2
  <2> QED BY <2>1, <2>2
<1>15. Search("idle", "shiftir") = <<1, 1, 0, 0>>
  <2>1. Search("idle", "shiftir") = Head(s[16].queue)[2]
    BY <1>2
  <2>2. @ = at_shiftir[2]
    BY <1>14
  <2> QED BY <1>1, <2>1, <2>2, ZenonT(60)
<1> QED BY <1>15 DEF Path, PathTable, TapState

\* The walk from "e1dr" to "idle".
LEMMA FromDr == Path("e1dr", "idle") = <<1, 0>>
<1> DEFINE at_e1dr == <<"e1dr", <<>>>>
<1> DEFINE at_pausedr == <<"pausedr", <<0>>>>
<1> DEFINE at_updr == <<"updr", <<1>>>>
<1> DEFINE at_e2dr == <<"e2dr", <<0, 1>>>>
<1> DEFINE at_idle == <<"idle", <<1, 0>>>>
<1> DEFINE at_seldr == <<"seldr", <<1, 1>>>>
<1> DEFINE at_shiftdr == <<"shiftdr", <<0, 1, 0>>>>
<1>1. /\ at_e1dr[1] = "e1dr"
      /\ at_pausedr[1] = "pausedr" /\ at_pausedr = <<Clocked(at_e1dr[1], 0), Append(at_e1dr[2], 0)>>
      /\ at_updr[1] = "updr" /\ at_updr = <<Clocked(at_e1dr[1], 1), Append(at_e1dr[2], 1)>>
      /\ at_e2dr[1] = "e2dr" /\ at_e2dr = <<Clocked(at_pausedr[1], 1), Append(at_pausedr[2], 1)>>
      /\ at_idle[1] = "idle" /\ at_idle = <<Clocked(at_updr[1], 0), Append(at_updr[2], 0)>>
      /\ at_seldr[1] = "seldr" /\ at_seldr = <<Clocked(at_updr[1], 1), Append(at_updr[2], 1)>>
      /\ at_shiftdr[1] = "shiftdr" /\ at_shiftdr = <<Clocked(at_e2dr[1], 0), Append(at_e2dr[2], 0)>>
      /\ at_idle[2] = <<1, 0>>
  <2>1. Append(<<>>, 0) = <<0>>
    BY Row1, Zenon
  <2>2. Append(<<>>, 1) = <<1>>
    BY Row1, Zenon
  <2>3. Append(<<0>>, 1) = <<0, 1>>
    BY Row2, Zenon
  <2>4. Append(<<1>>, 0) = <<1, 0>>
    BY Row2, Zenon
  <2>5. Append(<<1>>, 1) = <<1, 1>>
    BY Row2, Zenon
  <2>6. Append(<<0, 1>>, 0) = <<0, 1, 0>>
    BY Row3, Zenon
  <2> QED BY <2>1, <2>2, <2>3, <2>4, <2>5, <2>6, ClockedTable
<1>2. PICK s : /\ s[0] = First("e1dr")
             /\ \A n \in 1..16 : s[n] = Round(s[n - 1], "idle")
             /\ Search("e1dr", "idle") = Head(s[16].queue)[2]
  BY SearchRounds
<1>3. s[0].queue = <<at_e1dr>> /\ s[0].seen = {"e1dr"}
  BY <1>2 DEF First
<1> HIDE DEF at_e1dr, at_pausedr, at_updr, at_e2dr, at_idle, at_seldr, at_shiftdr
<1>4. s[1].queue = <<at_pausedr, at_updr>> /\ s[1].seen = {"e1dr", "pausedr", "updr"}
  <2>1. s[0].queue # <<>> /\ Head(s[0].queue) = at_e1dr /\ Tail(s[0].queue) = <<>>
    BY <1>3, Pop1, Zenon
  <2>2. s[1] = Round(s[0], "idle")
    BY <1>2
  <2>3. Head(s[0].queue)[1] = "e1dr" /\ Clocked("e1dr", 0) = "pausedr" /\ Clocked("e1dr", 1) = "updr"
    BY <1>1, <2>1, ClockedTable
  <2>4. NewOn0(s[0]) = <<at_pausedr>>
    <3>1. "pausedr" \notin s[0].seen
      BY <1>3
    <3>2. at_pausedr = <<Clocked(at_e1dr[1], 0), Append(at_e1dr[2], 0)>>
      BY <1>1
    <3> QED BY <3>2, <2>1, <2>3, <3>1, Zenon DEF NewOn0
  <2>5. NewOn1(s[0]) = <<at_updr>>
    <3>1. "updr" \notin s[0].seen \cup {"pausedr"}
      BY <1>3
    <3>2. at_updr = <<Clocked(at_e1dr[1], 1), Append(at_e1dr[2], 1)>>
      BY <1>1
    <3> QED BY <3>2, <2>1, <2>3, <3>1, Zenon DEF NewOn1
  <2>6. Round(s[0], "idle").queue = <<>> \o <<at_pausedr>> \o <<at_updr>>
        /\ Round(s[0], "idle").seen = s[0].seen \cup {"pausedr", "updr"}
    <3>1. s[0].queue # <<>> /\ Head(s[0].queue)[1] # "idle"
      BY <2>1, <2>3
    <3>2. /\ Round(s[0], "idle").queue = Tail(s[0].queue) \o NewOn0(s[0]) \o NewOn1(s[0])
          /\ Round(s[0], "idle").seen = s[0].seen \cup
                {Clocked(Head(s[0].queue)[1], 0), Clocked(Head(s[0].queue)[1], 1)}
      BY <3>1, Opened, Zenon
    <3> QED BY <2>1, <2>3, <2>4, <2>5, <3>2, Zenon
  <2>7. <<>> \o <<at_pausedr>> \o <<at_updr>> = <<at_pausedr, at_updr>>
    BY Join011, Zenon
  <2> QED BY <1>3, <2>2, <2>6, <2>7
<1>5. s[2].queue = <<at_updr, at_e2dr>> /\ s[2].seen = {"e1dr", "pausedr", "updr", "e2dr"}
  <2>1. s[1].queue # <<>> /\ Head(s[1].queue) = at_pausedr /\ Tail(s[1].queue) = <<at_updr>>
    BY <1>4, Pop2, Zenon
  <2>2. s[2] = Round(s[1], "idle")
    BY <1>2
  <2>3. Head(s[1].queue)[1] = "pausedr" /\ Clocked("pausedr", 0) = "pausedr" /\ Clocked("pausedr", 1) = "e2dr"
    BY <1>1, <2>1, ClockedTable
  <2>4. NewOn0(s[1]) = <<>>
    <3>1. "pausedr" \in s[1].seen
      BY <1>4
    <3> QED BY <2>1, <2>3, <3>1, Zenon DEF NewOn0
  <2>5. NewOn1(s[1]) = <<at_e2dr>>
    <3>1. "e2dr" \notin s[1].seen \cup {"pausedr"}
      BY <1>4
    <3>2. at_e2dr = <<Clocked(at_pausedr[1], 1), Append(at_pausedr[2], 1)>>
      BY <1>1
    <3> QED BY <3>2, <2>1, <2>3, <3>1, Zenon DEF NewOn1
  <2>6. Round(s[1], "idle").queue = <<at_updr>> \o <<>> \o <<at_e2dr>>
        /\ Round(s[1], "idle").seen = s[1].seen \cup {"pausedr", "e2dr"}
    <3>1. s[1].queue # <<>> /\ Head(s[1].queue)[1] # "idle"
      BY <2>1, <2>3
    <3>2. /\ Round(s[1], "idle").queue = Tail(s[1].queue) \o NewOn0(s[1]) \o NewOn1(s[1])
          /\ Round(s[1], "idle").seen = s[1].seen \cup
                {Clocked(Head(s[1].queue)[1], 0), Clocked(Head(s[1].queue)[1], 1)}
      BY <3>1, Opened, Zenon
    <3> QED BY <2>1, <2>3, <2>4, <2>5, <3>2, Zenon
  <2>7. <<at_updr>> \o <<>> \o <<at_e2dr>> = <<at_updr, at_e2dr>>
    BY Join101, Zenon
  <2> QED BY <1>4, <2>2, <2>6, <2>7
<1>6. s[3].queue = <<at_e2dr, at_idle, at_seldr>> /\ s[3].seen = {"e1dr", "pausedr", "updr", "e2dr", "idle", "seldr"}
  <2>1. s[2].queue # <<>> /\ Head(s[2].queue) = at_updr /\ Tail(s[2].queue) = <<at_e2dr>>
    BY <1>5, Pop2, Zenon
  <2>2. s[3] = Round(s[2], "idle")
    BY <1>2
  <2>3. Head(s[2].queue)[1] = "updr" /\ Clocked("updr", 0) = "idle" /\ Clocked("updr", 1) = "seldr"
    BY <1>1, <2>1, ClockedTable
  <2>4. NewOn0(s[2]) = <<at_idle>>
    <3>1. "idle" \notin s[2].seen
      BY <1>5
    <3>2. at_idle = <<Clocked(at_updr[1], 0), Append(at_updr[2], 0)>>
      BY <1>1
    <3> QED BY <3>2, <2>1, <2>3, <3>1, Zenon DEF NewOn0
  <2>5. NewOn1(s[2]) = <<at_seldr>>
    <3>1. "seldr" \notin s[2].seen \cup {"idle"}
      BY <1>5
    <3>2. at_seldr = <<Clocked(at_updr[1], 1), Append(at_updr[2], 1)>>
      BY <1>1
    <3> QED BY <3>2, <2>1, <2>3, <3>1, Zenon DEF NewOn1
  <2>6. Round(s[2], "idle").queue = <<at_e2dr>> \o <<at_idle>> \o <<at_seldr>>
        /\ Round(s[2], "idle").seen = s[2].seen \cup {"idle", "seldr"}
    <3>1. s[2].queue # <<>> /\ Head(s[2].queue)[1] # "idle"
      BY <2>1, <2>3
    <3>2. /\ Round(s[2], "idle").queue = Tail(s[2].queue) \o NewOn0(s[2]) \o NewOn1(s[2])
          /\ Round(s[2], "idle").seen = s[2].seen \cup
                {Clocked(Head(s[2].queue)[1], 0), Clocked(Head(s[2].queue)[1], 1)}
      BY <3>1, Opened, Zenon
    <3> QED BY <2>1, <2>3, <2>4, <2>5, <3>2, Zenon
  <2>7. <<at_e2dr>> \o <<at_idle>> \o <<at_seldr>> = <<at_e2dr, at_idle, at_seldr>>
    BY Join111, Zenon
  <2> QED BY <1>5, <2>2, <2>6, <2>7
<1>7. s[4].queue = <<at_idle, at_seldr, at_shiftdr>> /\ s[4].seen = {"e1dr", "pausedr", "updr", "e2dr", "idle", "seldr", "shiftdr"}
  <2>1. s[3].queue # <<>> /\ Head(s[3].queue) = at_e2dr /\ Tail(s[3].queue) = <<at_idle, at_seldr>>
    BY <1>6, Pop3
  <2>2. s[4] = Round(s[3], "idle")
    BY <1>2
  <2>3. Head(s[3].queue)[1] = "e2dr" /\ Clocked("e2dr", 0) = "shiftdr" /\ Clocked("e2dr", 1) = "updr"
    BY <1>1, <2>1, ClockedTable
  <2>4. NewOn0(s[3]) = <<at_shiftdr>>
    <3>1. "shiftdr" \notin s[3].seen
      BY <1>6
    <3>2. at_shiftdr = <<Clocked(at_e2dr[1], 0), Append(at_e2dr[2], 0)>>
      BY <1>1
    <3> QED BY <3>2, <2>1, <2>3, <3>1, Zenon DEF NewOn0
  <2>5. NewOn1(s[3]) = <<>>
    <3>1. "updr" \in s[3].seen \cup {"shiftdr"}
      BY <1>6
    <3> QED BY <2>1, <2>3, <3>1, Zenon DEF NewOn1
  <2>6. Round(s[3], "idle").queue = <<at_idle, at_seldr>> \o <<at_shiftdr>> \o <<>>
        /\ Round(s[3], "idle").seen = s[3].seen \cup {"shiftdr", "updr"}
    <3>1. s[3].queue # <<>> /\ Head(s[3].queue)[1] # "idle"
      BY <2>1, <2>3
    <3>2. /\ Round(s[3], "idle").queue = Tail(s[3].queue) \o NewOn0(s[3]) \o NewOn1(s[3])
          /\ Round(s[3], "idle").seen = s[3].seen \cup
                {Clocked(Head(s[3].queue)[1], 0), Clocked(Head(s[3].queue)[1], 1)}
      BY <3>1, Opened, Zenon
    <3> QED BY <2>1, <2>3, <2>4, <2>5, <3>2, Zenon
  <2>7. <<at_idle, at_seldr>> \o <<at_shiftdr>> \o <<>> = <<at_idle, at_seldr, at_shiftdr>>
    BY Join210, Zenon
  <2> QED BY <1>6, <2>2, <2>6, <2>7
<1>8. s[16] = s[4] /\ Head(s[4].queue) = at_idle
  <2>1. Head(s[4].queue) = at_idle
    BY <1>7, Pop3
  <2>2. \A n \in 5..16 : s[n - 1] = s[4] => s[n] = s[4]
    <3>1. at_idle[1] = "idle"
      BY <1>1
    <3>2. Round(s[4], "idle") = s[4]
      BY <2>1, <3>1, Arrived
    <3> QED BY <1>2, <3>2
  <2> QED BY <2>1, <2>2
<1>9. Search("e1dr", "idle") = <<1, 0>>
  <2>1. Search("e1dr", "idle") = Head(s[16].queue)[2]
    BY <1>2
  <2>2. @ = at_idle[2]
    BY <1>8
  <2> QED BY <1>1, <2>1, <2>2
<1> QED BY <1>9 DEF Path, PathTable, TapState

\* The walk from "e1ir" to "idle".
LEMMA FromIr == Path("e1ir", "idle") = <<1, 0>>
<1> DEFINE at_e1ir == <<"e1ir", <<>>>>
<1> DEFINE at_pauseir == <<"pauseir", <<0>>>>
<1> DEFINE at_upir == <<"upir", <<1>>>>
<1> DEFINE at_e2ir == <<"e2ir", <<0, 1>>>>
<1> DEFINE at_idle == <<"idle", <<1, 0>>>>
<1> DEFINE at_seldr == <<"seldr", <<1, 1>>>>
<1> DEFINE at_shiftir == <<"shiftir", <<0, 1, 0>>>>
<1>1. /\ at_e1ir[1] = "e1ir"
      /\ at_pauseir[1] = "pauseir" /\ at_pauseir = <<Clocked(at_e1ir[1], 0), Append(at_e1ir[2], 0)>>
      /\ at_upir[1] = "upir" /\ at_upir = <<Clocked(at_e1ir[1], 1), Append(at_e1ir[2], 1)>>
      /\ at_e2ir[1] = "e2ir" /\ at_e2ir = <<Clocked(at_pauseir[1], 1), Append(at_pauseir[2], 1)>>
      /\ at_idle[1] = "idle" /\ at_idle = <<Clocked(at_upir[1], 0), Append(at_upir[2], 0)>>
      /\ at_seldr[1] = "seldr" /\ at_seldr = <<Clocked(at_upir[1], 1), Append(at_upir[2], 1)>>
      /\ at_shiftir[1] = "shiftir" /\ at_shiftir = <<Clocked(at_e2ir[1], 0), Append(at_e2ir[2], 0)>>
      /\ at_idle[2] = <<1, 0>>
  <2>1. Append(<<>>, 0) = <<0>>
    BY Row1, Zenon
  <2>2. Append(<<>>, 1) = <<1>>
    BY Row1, Zenon
  <2>3. Append(<<0>>, 1) = <<0, 1>>
    BY Row2, Zenon
  <2>4. Append(<<1>>, 0) = <<1, 0>>
    BY Row2, Zenon
  <2>5. Append(<<1>>, 1) = <<1, 1>>
    BY Row2, Zenon
  <2>6. Append(<<0, 1>>, 0) = <<0, 1, 0>>
    BY Row3, Zenon
  <2> QED BY <2>1, <2>2, <2>3, <2>4, <2>5, <2>6, ClockedTable
<1>2. PICK s : /\ s[0] = First("e1ir")
             /\ \A n \in 1..16 : s[n] = Round(s[n - 1], "idle")
             /\ Search("e1ir", "idle") = Head(s[16].queue)[2]
  BY SearchRounds
<1>3. s[0].queue = <<at_e1ir>> /\ s[0].seen = {"e1ir"}
  BY <1>2 DEF First
<1> HIDE DEF at_e1ir, at_pauseir, at_upir, at_e2ir, at_idle, at_seldr, at_shiftir
<1>4. s[1].queue = <<at_pauseir, at_upir>> /\ s[1].seen = {"e1ir", "pauseir", "upir"}
  <2>1. s[0].queue # <<>> /\ Head(s[0].queue) = at_e1ir /\ Tail(s[0].queue) = <<>>
    BY <1>3, Pop1, Zenon
  <2>2. s[1] = Round(s[0], "idle")
    BY <1>2
  <2>3. Head(s[0].queue)[1] = "e1ir" /\ Clocked("e1ir", 0) = "pauseir" /\ Clocked("e1ir", 1) = "upir"
    BY <1>1, <2>1, ClockedTable
  <2>4. NewOn0(s[0]) = <<at_pauseir>>
    <3>1. "pauseir" \notin s[0].seen
      BY <1>3
    <3>2. at_pauseir = <<Clocked(at_e1ir[1], 0), Append(at_e1ir[2], 0)>>
      BY <1>1
    <3> QED BY <3>2, <2>1, <2>3, <3>1, Zenon DEF NewOn0
  <2>5. NewOn1(s[0]) = <<at_upir>>
    <3>1. "upir" \notin s[0].seen \cup {"pauseir"}
      BY <1>3
    <3>2. at_upir = <<Clocked(at_e1ir[1], 1), Append(at_e1ir[2], 1)>>
      BY <1>1
    <3> QED BY <3>2, <2>1, <2>3, <3>1, Zenon DEF NewOn1
  <2>6. Round(s[0], "idle").queue = <<>> \o <<at_pauseir>> \o <<at_upir>>
        /\ Round(s[0], "idle").seen = s[0].seen \cup {"pauseir", "upir"}
    <3>1. s[0].queue # <<>> /\ Head(s[0].queue)[1] # "idle"
      BY <2>1, <2>3
    <3>2. /\ Round(s[0], "idle").queue = Tail(s[0].queue) \o NewOn0(s[0]) \o NewOn1(s[0])
          /\ Round(s[0], "idle").seen = s[0].seen \cup
                {Clocked(Head(s[0].queue)[1], 0), Clocked(Head(s[0].queue)[1], 1)}
      BY <3>1, Opened, Zenon
    <3> QED BY <2>1, <2>3, <2>4, <2>5, <3>2, Zenon
  <2>7. <<>> \o <<at_pauseir>> \o <<at_upir>> = <<at_pauseir, at_upir>>
    BY Join011, Zenon
  <2> QED BY <1>3, <2>2, <2>6, <2>7
<1>5. s[2].queue = <<at_upir, at_e2ir>> /\ s[2].seen = {"e1ir", "pauseir", "upir", "e2ir"}
  <2>1. s[1].queue # <<>> /\ Head(s[1].queue) = at_pauseir /\ Tail(s[1].queue) = <<at_upir>>
    BY <1>4, Pop2, Zenon
  <2>2. s[2] = Round(s[1], "idle")
    BY <1>2
  <2>3. Head(s[1].queue)[1] = "pauseir" /\ Clocked("pauseir", 0) = "pauseir" /\ Clocked("pauseir", 1) = "e2ir"
    BY <1>1, <2>1, ClockedTable
  <2>4. NewOn0(s[1]) = <<>>
    <3>1. "pauseir" \in s[1].seen
      BY <1>4
    <3> QED BY <2>1, <2>3, <3>1, Zenon DEF NewOn0
  <2>5. NewOn1(s[1]) = <<at_e2ir>>
    <3>1. "e2ir" \notin s[1].seen \cup {"pauseir"}
      BY <1>4
    <3>2. at_e2ir = <<Clocked(at_pauseir[1], 1), Append(at_pauseir[2], 1)>>
      BY <1>1
    <3> QED BY <3>2, <2>1, <2>3, <3>1, Zenon DEF NewOn1
  <2>6. Round(s[1], "idle").queue = <<at_upir>> \o <<>> \o <<at_e2ir>>
        /\ Round(s[1], "idle").seen = s[1].seen \cup {"pauseir", "e2ir"}
    <3>1. s[1].queue # <<>> /\ Head(s[1].queue)[1] # "idle"
      BY <2>1, <2>3
    <3>2. /\ Round(s[1], "idle").queue = Tail(s[1].queue) \o NewOn0(s[1]) \o NewOn1(s[1])
          /\ Round(s[1], "idle").seen = s[1].seen \cup
                {Clocked(Head(s[1].queue)[1], 0), Clocked(Head(s[1].queue)[1], 1)}
      BY <3>1, Opened, Zenon
    <3> QED BY <2>1, <2>3, <2>4, <2>5, <3>2, Zenon
  <2>7. <<at_upir>> \o <<>> \o <<at_e2ir>> = <<at_upir, at_e2ir>>
    BY Join101, Zenon
  <2> QED BY <1>4, <2>2, <2>6, <2>7
<1>6. s[3].queue = <<at_e2ir, at_idle, at_seldr>> /\ s[3].seen = {"e1ir", "pauseir", "upir", "e2ir", "idle", "seldr"}
  <2>1. s[2].queue # <<>> /\ Head(s[2].queue) = at_upir /\ Tail(s[2].queue) = <<at_e2ir>>
    BY <1>5, Pop2, Zenon
  <2>2. s[3] = Round(s[2], "idle")
    BY <1>2
  <2>3. Head(s[2].queue)[1] = "upir" /\ Clocked("upir", 0) = "idle" /\ Clocked("upir", 1) = "seldr"
    BY <1>1, <2>1, ClockedTable
  <2>4. NewOn0(s[2]) = <<at_idle>>
    <3>1. "idle" \notin s[2].seen
      BY <1>5
    <3>2. at_idle = <<Clocked(at_upir[1], 0), Append(at_upir[2], 0)>>
      BY <1>1
    <3> QED BY <3>2, <2>1, <2>3, <3>1, Zenon DEF NewOn0
  <2>5. NewOn1(s[2]) = <<at_seldr>>
    <3>1. "seldr" \notin s[2].seen \cup {"idle"}
      BY <1>5
    <3>2. at_seldr = <<Clocked(at_upir[1], 1), Append(at_upir[2], 1)>>
      BY <1>1
    <3> QED BY <3>2, <2>1, <2>3, <3>1, Zenon DEF NewOn1
  <2>6. Round(s[2], "idle").queue = <<at_e2ir>> \o <<at_idle>> \o <<at_seldr>>
        /\ Round(s[2], "idle").seen = s[2].seen \cup {"idle", "seldr"}
    <3>1. s[2].queue # <<>> /\ Head(s[2].queue)[1] # "idle"
      BY <2>1, <2>3
    <3>2. /\ Round(s[2], "idle").queue = Tail(s[2].queue) \o NewOn0(s[2]) \o NewOn1(s[2])
          /\ Round(s[2], "idle").seen = s[2].seen \cup
                {Clocked(Head(s[2].queue)[1], 0), Clocked(Head(s[2].queue)[1], 1)}
      BY <3>1, Opened, Zenon
    <3> QED BY <2>1, <2>3, <2>4, <2>5, <3>2, Zenon
  <2>7. <<at_e2ir>> \o <<at_idle>> \o <<at_seldr>> = <<at_e2ir, at_idle, at_seldr>>
    BY Join111, Zenon
  <2> QED BY <1>5, <2>2, <2>6, <2>7
<1>7. s[4].queue = <<at_idle, at_seldr, at_shiftir>> /\ s[4].seen = {"e1ir", "pauseir", "upir", "e2ir", "idle", "seldr", "shiftir"}
  <2>1. s[3].queue # <<>> /\ Head(s[3].queue) = at_e2ir /\ Tail(s[3].queue) = <<at_idle, at_seldr>>
    BY <1>6, Pop3
  <2>2. s[4] = Round(s[3], "idle")
    BY <1>2
  <2>3. Head(s[3].queue)[1] = "e2ir" /\ Clocked("e2ir", 0) = "shiftir" /\ Clocked("e2ir", 1) = "upir"
    BY <1>1, <2>1, ClockedTable
  <2>4. NewOn0(s[3]) = <<at_shiftir>>
    <3>1. "shiftir" \notin s[3].seen
      BY <1>6
    <3>2. at_shiftir = <<Clocked(at_e2ir[1], 0), Append(at_e2ir[2], 0)>>
      BY <1>1
    <3> QED BY <3>2, <2>1, <2>3, <3>1, Zenon DEF NewOn0
  <2>5. NewOn1(s[3]) = <<>>
    <3>1. "upir" \in s[3].seen \cup {"shiftir"}
      BY <1>6
    <3> QED BY <2>1, <2>3, <3>1, Zenon DEF NewOn1
  <2>6. Round(s[3], "idle").queue = <<at_idle, at_seldr>> \o <<at_shiftir>> \o <<>>
        /\ Round(s[3], "idle").seen = s[3].seen \cup {"shiftir", "upir"}
    <3>1. s[3].queue # <<>> /\ Head(s[3].queue)[1] # "idle"
      BY <2>1, <2>3
    <3>2. /\ Round(s[3], "idle").queue = Tail(s[3].queue) \o NewOn0(s[3]) \o NewOn1(s[3])
          /\ Round(s[3], "idle").seen = s[3].seen \cup
                {Clocked(Head(s[3].queue)[1], 0), Clocked(Head(s[3].queue)[1], 1)}
      BY <3>1, Opened, Zenon
    <3> QED BY <2>1, <2>3, <2>4, <2>5, <3>2, Zenon
  <2>7. <<at_idle, at_seldr>> \o <<at_shiftir>> \o <<>> = <<at_idle, at_seldr, at_shiftir>>
    BY Join210, Zenon
  <2> QED BY <1>6, <2>2, <2>6, <2>7
<1>8. s[16] = s[4] /\ Head(s[4].queue) = at_idle
  <2>1. Head(s[4].queue) = at_idle
    BY <1>7, Pop3
  <2>2. \A n \in 5..16 : s[n - 1] = s[4] => s[n] = s[4]
    <3>1. at_idle[1] = "idle"
      BY <1>1
    <3>2. Round(s[4], "idle") = s[4]
      BY <2>1, <3>1, Arrived
    <3> QED BY <1>2, <3>2
  <2> QED BY <2>1, <2>2
<1>9. Search("e1ir", "idle") = <<1, 0>>
  <2>1. Search("e1ir", "idle") = Head(s[16].queue)[2]
    BY <1>2
  <2>2. @ = at_idle[2]
    BY <1>8
  <2> QED BY <1>1, <2>1, <2>2
<1> QED BY <1>9 DEF Path, PathTable, TapState

-----------------------------------------------------------------------------
(* The streams of nibbles that the sessions send. *)

Nibble == [tms : {0, 1}, tdi : {0, 1}, cap : BOOLEAN]

\* A function on 1..n is a sequence of length n.
LEMMA Listed ==
  ASSUME NEW S, NEW n \in Nat, NEW f \in [1..n -> S]
  PROVE  f \in Seq(S) /\ Len(f) = n
<1>1. f \in Seq(S)
  BY SeqDef
<1>2. DOMAIN f = 1..Len(f) /\ Len(f) \in Nat
  BY <1>1, LenProperties
<1> QED BY <1>2

\* A nibble and its fields.
LEMMA Fields ==
  ASSUME NEW t \in {0, 1}, NEW d \in {0, 1}, NEW c \in BOOLEAN
  PROVE  Clk(t, d, c) \in Nibble /\ Clk(t, d, c).tms = t /\ Clk(t, d, c).tdi = d
         /\ Clk(t, d, c).cap = c
BY Zenon DEF Clk, Nibble

\* A nibble of a walk.
LEMMA Plain ==
  ASSUME NEW t
  PROVE  Clk(t, 0, FALSE).tms = t /\ Clk(t, 0, FALSE).tdi = 0 /\ Clk(t, 0, FALSE).cap = FALSE
BY Zenon DEF Clk

\* The nibbles of a walk.
LEMMA StepsOf ==
  ASSUME NEW w \in Seq({0, 1})
  PROVE  /\ Steps(w) \in Seq(Nibble) /\ Len(Steps(w)) = Len(w) /\ Len(w) \in Nat
         /\ \A i \in 1..Len(w) : /\ Steps(w)[i].tms = w[i] /\ w[i] \in {0, 1}
                                 /\ Steps(w)[i].tdi = 0 /\ Steps(w)[i].cap = FALSE
<1>1. Len(w) \in Nat /\ \A i \in 1..Len(w) : w[i] \in {0, 1}
  BY LenProperties, ElementOfSeq
<1>2. \A i \in 1..Len(w) : Clk(w[i], 0, FALSE) \in Nibble
  BY <1>1, Fields
<1>3. Steps(w) \in [1..Len(w) -> Nibble]
  BY <1>2, Zenon DEF Steps
<1>4. ASSUME NEW i \in 1..Len(w)
      PROVE  Steps(w)[i].tms = w[i] /\ Steps(w)[i].tdi = 0 /\ Steps(w)[i].cap = FALSE
  <2>1. Steps(w)[i] = Clk(w[i], 0, FALSE)
    BY Zenon DEF Steps
  <2>2. Clk(w[i], 0, FALSE).tms = w[i] /\ Clk(w[i], 0, FALSE).tdi = 0 /\ Clk(w[i], 0, FALSE).cap = FALSE
    BY Plain, Zenon
  <2> QED BY <2>1, <2>2, Zenon
<1> QED BY <1>1, <1>3, <1>4, Listed

\* The bits of a scan: the last one leaves the shift state.
Word(word, lo, hi) ==
  [i \in 1..Len(word) |->
     Clk(IF i = Len(word) THEN 1 ELSE 0, word[i], lo <= i - 1 /\ i - 1 < hi)]

\* The nibbles of the bits of a word.
LEMMA WordOf ==
  ASSUME NEW w \in Seq({0, 1}), NEW lo \in Nat, NEW hi \in Nat
  PROVE  /\ Word(w, lo, hi) \in Seq(Nibble) /\ Len(Word(w, lo, hi)) = Len(w) /\ Len(w) \in Nat
         /\ \A i \in 1..Len(w) : /\ Word(w, lo, hi)[i].tms = IF i = Len(w) THEN 1 ELSE 0
                                 /\ Word(w, lo, hi)[i].tdi = w[i]
                                 /\ Word(w, lo, hi)[i].cap <=> lo + 1 <= i /\ i <= hi
<1>1. Len(w) \in Nat /\ \A i \in 1..Len(w) : w[i] \in {0, 1}
  BY LenProperties, ElementOfSeq
<1> DEFINE cap(i) == lo <= i - 1 /\ i - 1 < hi
           tms(i) == IF i = Len(w) THEN 1 ELSE 0
<1>2. \A i \in 1..Len(w) : cap(i) \in BOOLEAN /\ tms(i) \in {0, 1}
  OBVIOUS
<1>3. \A i \in 1..Len(w) : cap(i) <=> lo + 1 <= i /\ i <= hi
  BY <1>1
<1>4. Word(w, lo, hi) = [i \in 1..Len(w) |-> Clk(tms(i), w[i], cap(i))]
  BY Zenon DEF Word
<1> HIDE DEF cap, tms
<1>5. \A i \in 1..Len(w) : /\ Clk(tms(i), w[i], cap(i)) \in Nibble
                           /\ Clk(tms(i), w[i], cap(i)).tms = tms(i)
                           /\ Clk(tms(i), w[i], cap(i)).tdi = w[i]
                           /\ Clk(tms(i), w[i], cap(i)).cap = cap(i)
  BY <1>1, <1>2, Fields, ZenonT(60)
<1>6. Word(w, lo, hi) \in [1..Len(w) -> Nibble]
  BY <1>4, <1>5, Zenon
<1>7. \A i \in 1..Len(w) : Word(w, lo, hi)[i] = Clk(tms(i), w[i], cap(i))
  BY <1>4, Zenon
<1>8. \A i \in 1..Len(w) : /\ Word(w, lo, hi)[i].tms = tms(i)
                           /\ Word(w, lo, hi)[i].tdi = w[i]
                           /\ Word(w, lo, hi)[i].cap <=> lo + 1 <= i /\ i <= hi
  BY <1>3, <1>5, <1>7, Zenon
<1>9. \A i \in 1..Len(w) : tms(i) = IF i = Len(w) THEN 1 ELSE 0
  BY Zenon DEF tms
<1> QED BY <1>1, <1>6, <1>8, <1>9, Listed

\* Reset: five TMS=1, then one TMS=0.
LEMMA ResetTapOf ==
  /\ ResetTap \in Seq(Nibble) /\ Len(ResetTap) = 6
  /\ \A i \in 1..6 : /\ ResetTap[i].tms = IF i = 6 THEN 0 ELSE 1
                     /\ ResetTap[i].tdi = 0 /\ ~ResetTap[i].cap
<1> DEFINE w == <<1, 1, 1, 1, 1>> \o <<0>>
<1>1. w \in Seq({0, 1}) /\ Len(w) = 6 /\ \A i \in 1..6 : w[i] = IF i <= 5 THEN <<1, 1, 1, 1, 1>>[i] ELSE <<0>>[i - 5]
  <2>1. /\ <<1, 1, 1, 1, 1>> \in Seq({0, 1}) /\ <<0>> \in Seq({0, 1})
        /\ Len(<<1, 1, 1, 1, 1>>) = 5 /\ Len(<<0>>) = 1
    OBVIOUS
  <2> QED BY <2>1, ConcatProperties
<1>2. \A i \in 1..6 : w[i] = IF i = 6 THEN 0 ELSE 1
  <2> HIDE DEF w
  <2>1. \A i \in 1..6 : i = 1 \/ i = 2 \/ i = 3 \/ i = 4 \/ i = 5 \/ i = 6
    OBVIOUS
  <2> QED BY <1>1, <2>1
<1>3. ResetTap = Steps(w)
  BY FromReset, Zenon DEF ResetTap, ResetWalk
<1> HIDE DEF w
<1>4. \A i \in 1..6 : ResetTap[i].tms = w[i] /\ ResetTap[i].tdi = 0 /\ ResetTap[i].cap = FALSE
  BY <1>1, <1>3, StepsOf
<1> QED BY <1>1, <1>2, <1>3, <1>4, StepsOf, ZenonT(60)

\* Two sequences, one behind the other.
LEMMA Behind ==
  ASSUME NEW S, NEW s \in Seq(S), NEW t \in Seq(S)
  PROVE  /\ s \o t \in Seq(S) /\ Len(s \o t) = Len(s) + Len(t) /\ Len(s) \in Nat /\ Len(t) \in Nat
         /\ \A i \in 1..Len(s) : (s \o t)[i] = s[i]
         /\ \A i \in Len(s) + 1..Len(s) + Len(t) : (s \o t)[i] = t[i - Len(s)]
<1>1. Len(s) \in Nat /\ Len(t) \in Nat
  BY LenProperties
<1> QED BY <1>1, ConcatProperties

\* The nibbles of a scan: the walk u into the shift state, the bits w, the way back.
IsScan(s, k, u, w, lo, hi) ==
  LET n == Len(w)
  IN  /\ s \in Seq(Nibble) /\ n \in Nat /\ k \in Nat /\ Len(s) = k + n + 2
      /\ \A p \in 1..k + n + 2 :
           /\ s[p].tms = IF p <= k THEN u[p] ELSE
                         IF (p = k + n /\ n > 0) \/ p = k + n + 1 THEN 1 ELSE 0
           /\ s[p].tdi = IF k + 1 <= p /\ p <= k + n THEN w[p - k] ELSE 0
           /\ s[p].cap <=> k + 1 <= p /\ p <= k + n /\ k + lo + 1 <= p /\ p <= k + hi

\* A scan is the walk u in, the word, and the two clocks back to Idle.
LEMMA ScanOf ==
  ASSUME NEW shift, NEW w \in Seq({0, 1}), NEW lo \in Nat, NEW hi \in Nat,
         NEW u \in Seq({0, 1}), Path("idle", shift) = u,
         Path(Clocked(shift, 1), "idle") = <<1, 0>>
  PROVE  IsScan(ScanBits(shift, w, lo, hi), Len(u), u, w, lo, hi)
<1> DEFINE k == Len(u)
<1> DEFINE n == Len(w)
           a == Steps(u)
           b == Word(w, lo, hi)
           c == Steps(<<1, 0>>)
           s == ScanBits(shift, w, lo, hi)
<1>1. s = a \o b \o c
  BY Zenon DEF ScanBits, Word
<1>2. /\ a \in Seq(Nibble) /\ Len(a) = k /\ k \in Nat
      /\ \A i \in 1..k : a[i].tms = u[i] /\ a[i].tdi = 0 /\ a[i].cap = FALSE
  BY StepsOf
<1>3. c \in Seq(Nibble) /\ Len(c) = 2
      /\ \A i \in 1..2 : c[i].tms = (IF i = 1 THEN 1 ELSE 0) /\ c[i].tdi = 0 /\ c[i].cap = FALSE
  <2> DEFINE t == <<1, 0>>
  <2>1. t \in Seq({0, 1}) /\ Len(t) = 2
    OBVIOUS
  <2>2. \A i \in 1..2 : t[i] = IF i = 1 THEN 1 ELSE 0
    <3>1. \A i \in 1..2 : i = 1 \/ i = 2
      OBVIOUS
    <3> QED BY <3>1
  <2> HIDE DEF t
  <2>3. /\ Steps(t) \in Seq(Nibble) /\ Len(Steps(t)) = 2
        /\ \A i \in 1..2 : Steps(t)[i].tms = t[i] /\ Steps(t)[i].tdi = 0 /\ Steps(t)[i].cap = FALSE
    BY <2>1, StepsOf
  <2> QED BY <2>2, <2>3 DEF t
<1>4. /\ b \in Seq(Nibble) /\ Len(b) = n /\ n \in Nat
      /\ \A i \in 1..n : /\ b[i].tms = IF i = n THEN 1 ELSE 0
                         /\ b[i].tdi = w[i]
                         /\ b[i].cap <=> lo + 1 <= i /\ i <= hi
  BY WordOf
<1> HIDE DEF a, b, c
<1>5. /\ a \o b \in Seq(Nibble) /\ Len(a \o b) = k + n
      /\ \A i \in 1..k : (a \o b)[i] = a[i]
      /\ \A i \in k + 1..k + n : (a \o b)[i] = b[i - k]
  <2>1. a \in Seq(Nibble) /\ b \in Seq(Nibble)
    BY <1>2, <1>4
  <2>2. /\ a \o b \in Seq(Nibble) /\ Len(a \o b) = Len(a) + Len(b)
        /\ \A i \in 1..Len(a) : (a \o b)[i] = a[i]
        /\ \A i \in Len(a) + 1..Len(a) + Len(b) : (a \o b)[i] = b[i - Len(a)]
    BY <2>1, Behind, Zenon
  <2> QED BY <1>2, <1>4, <2>2
<1>6. /\ s \in Seq(Nibble) /\ Len(s) = k + n + 2
      /\ \A i \in 1..k + n : s[i] = (a \o b)[i]
      /\ \A i \in k + n + 1..k + n + 2 : s[i] = c[i - (k + n)]
  <2> DEFINE d == a \o b
  <2> HIDE DEF s, d
  <2>1. /\ d \in Seq(Nibble) /\ Len(d) = k + n /\ s = d \o c
    BY <1>1, <1>5 DEF d
  <2>2. /\ d \o c \in Seq(Nibble) /\ Len(d \o c) = Len(d) + Len(c)
        /\ \A i \in 1..Len(d) : (d \o c)[i] = d[i]
        /\ \A i \in Len(d) + 1..Len(d) + Len(c) : (d \o c)[i] = c[i - Len(d)]
    <3>1. c \in Seq(Nibble) /\ d \in Seq(Nibble)
      BY <1>3, <2>1
    <3> QED BY <3>1, Behind, Zenon
  <2> HIDE DEF n
  <2>3. /\ s \in Seq(Nibble) /\ Len(s) = k + n + 2
        /\ \A i \in 1..k + n : s[i] = d[i]
        /\ \A i \in k + n + 1..k + n + 2 : s[i] = c[i - (k + n)]
    BY <1>2, <1>3, <1>4, <2>1, <2>2
  <2> QED BY <2>3 DEF d
<1> HIDE DEF s, n, k
<1>7. ASSUME NEW p \in 1..k + n + 2
      PROVE  /\ s[p].tms = IF p <= k THEN u[p] ELSE
                           IF (p = k + n /\ n > 0) \/ p = k + n + 1 THEN 1 ELSE 0
             /\ s[p].tdi = IF k + 1 <= p /\ p <= k + n THEN w[p - k] ELSE 0
             /\ s[p].cap <=> k + 1 <= p /\ p <= k + n /\ k + lo + 1 <= p /\ p <= k + hi
  <2>1. CASE p <= k
    <3>1. s[p] = a[p] /\ p \in 1..k
      <4>1. p \in 1..k + n /\ p \in 1..k
        BY <1>2, <1>4, <2>1
      <4> QED BY <1>5, <1>6, <4>1, Zenon
    <3> QED BY <1>2, <1>4, <2>1, <3>1
  <2>2. CASE k + 1 <= p /\ p <= k + n
    <3>1. s[p] = b[p - k] /\ p - k \in 1..n
      <4>1. p \in 1..k + n /\ p \in k + 1..k + n /\ p - k \in 1..n
        BY <1>2, <1>4, <2>2
      <4> QED BY <1>5, <1>6, <4>1, Zenon
    <3>2. s[p].tms = (IF p - k = n THEN 1 ELSE 0) /\ s[p].tdi = w[p - k]
          /\ (s[p].cap <=> lo + 1 <= p - k /\ p - k <= hi)
      BY <1>4, <3>1, Zenon
    <3>3. (lo + 1 <= p - k /\ p - k <= hi) <=> (k + lo + 1 <= p /\ p <= k + hi)
      BY <1>2, <1>4
    <3>4. p - k = n <=> p = k + n
      <4>1. k \in Nat /\ n \in Nat /\ p \in Nat
        BY <1>2, <1>4
      <4> QED BY <4>1
    <3>5. n > 0 /\ ~(p <= k) /\ p # k + n + 1
      BY <1>2, <1>4, <2>2
    <3> QED BY <2>2, <3>2, <3>3, <3>4, <3>5, Zenon
  <2>3. CASE p >= k + n + 1
    <3>1. s[p] = c[p - (k + n)] /\ p - (k + n) \in 1..2
      BY <1>2, <1>4, <1>6, <2>3
    <3> QED BY <1>2, <1>3, <1>4, <2>3, <3>1
  <2> QED BY <1>2, <1>4, <2>1, <2>2, <2>3
<1> QED BY <1>2, <1>4, <1>6, <1>7, Zenon DEF s, n, k, IsScan

\* A DR scan: three nibbles in, two back.
IsDrScan(s, n, w, lo, hi) ==
  /\ s \in Seq(Nibble) /\ n \in Nat /\ Len(s) = n + 5
  /\ \A p \in 1..n + 5 :
       /\ s[p].tms = IF p = 1 \/ (p = n + 3 /\ n > 0) \/ p = n + 4 THEN 1 ELSE 0
       /\ s[p].tdi = IF 4 <= p /\ p <= n + 3 THEN w[p - 3] ELSE 0
       /\ s[p].cap <=> 4 <= p /\ p <= n + 3 /\ lo + 4 <= p /\ p <= hi + 3

\* A DR scan: three nibbles in, two back.
LEMMA DrScan ==
  ASSUME NEW w \in Seq({0, 1}), NEW lo \in Nat, NEW hi \in Nat
  PROVE  IsDrScan(ScanBits("shiftdr", w, lo, hi), Len(w), w, lo, hi)
<1> DEFINE u == <<1, 0, 0>>
           n == Len(w)
           s == ScanBits("shiftdr", w, lo, hi)
<1>1. u \in Seq({0, 1}) /\ Len(u) = 3
  OBVIOUS
<1>2. \A p \in 1..3 : u[p] = IF p = 1 THEN 1 ELSE 0
  <2>1. \A p \in 1..3 : p = 1 \/ p = 2 \/ p = 3
    OBVIOUS
  <2> QED BY <2>1
<1>3. Path("idle", "shiftdr") = u /\ Path(Clocked("shiftdr", 1), "idle") = <<1, 0>>
  BY ToShiftDr, FromDr, ClockedTable
<1> HIDE DEF u
<1>4. /\ s \in Seq(Nibble) /\ n \in Nat /\ Len(s) = 3 + n + 2
      /\ \A p \in 1..3 + n + 2 :
           /\ s[p].tms = IF p <= 3 THEN u[p] ELSE
                         IF (p = 3 + n /\ n > 0) \/ p = 3 + n + 1 THEN 1 ELSE 0
           /\ s[p].tdi = IF 3 + 1 <= p /\ p <= 3 + n THEN w[p - 3] ELSE 0
           /\ s[p].cap <=> 3 + 1 <= p /\ p <= 3 + n /\ 3 + lo + 1 <= p /\ p <= 3 + hi
  <2>1. IsScan(s, 3, u, w, lo, hi)
    BY <1>1, <1>3, ScanOf
  <2> QED BY <2>1, Zenon DEF IsScan
<1> HIDE DEF s, n
<1>5. s \in Seq(Nibble) /\ n \in Nat /\ Len(s) = n + 5
  BY <1>4
<1>6. ASSUME NEW p \in 1..n + 5
      PROVE  /\ s[p].tms = IF p = 1 \/ (p = n + 3 /\ n > 0) \/ p = n + 4 THEN 1 ELSE 0
             /\ s[p].tdi = IF 4 <= p /\ p <= n + 3 THEN w[p - 3] ELSE 0
             /\ s[p].cap <=> 4 <= p /\ p <= n + 3 /\ lo + 4 <= p /\ p <= hi + 3
  <2>1. p \in 1..3 + n + 2
    BY <1>5
  <2>2. s[p].tms = IF p = 1 \/ (p = n + 3 /\ n > 0) \/ p = n + 4 THEN 1 ELSE 0
    BY <1>2, <1>4, <2>1
  <2>3. s[p].tdi = IF 4 <= p /\ p <= n + 3 THEN w[p - 3] ELSE 0
    BY <1>4, <2>1
  <2>4. s[p].cap <=> 4 <= p /\ p <= n + 3 /\ lo + 4 <= p /\ p <= hi + 3
    <3>1. s[p].cap <=> 3 + 1 <= p /\ p <= 3 + n /\ 3 + lo + 1 <= p /\ p <= 3 + hi
      BY <1>4, <2>1, Zenon
    <3>2. (3 + 1 <= p /\ p <= 3 + n /\ 3 + lo + 1 <= p /\ p <= 3 + hi)
          <=> (4 <= p /\ p <= n + 3 /\ lo + 4 <= p /\ p <= hi + 3)
      BY <1>5
    <3> QED BY <3>1, <3>2, Zenon
  <2> QED BY <2>2, <2>3, <2>4
<1> QED BY <1>5, <1>6, Zenon DEF s, n, IsDrScan

\* An IR scan, none of its bits captured: four nibbles in, two back.
LEMMA IrScan ==
  ASSUME NEW w \in Seq({0, 1})
  PROVE  LET s == ScanBits("shiftir", w, 0, 0)
             n == Len(w)
         IN  /\ s \in Seq(Nibble) /\ n \in Nat /\ Len(s) = n + 6
             /\ \A p \in 1..n + 6 :
                  /\ s[p].tms = IF p <= 2 \/ (p = n + 4 /\ n > 0) \/ p = n + 5 THEN 1 ELSE 0
                  /\ s[p].tdi = IF 5 <= p /\ p <= n + 4 THEN w[p - 4] ELSE 0
                  /\ ~s[p].cap
<1> DEFINE u == <<1, 1, 0, 0>>
           n == Len(w)
           s == ScanBits("shiftir", w, 0, 0)
<1>1. u \in Seq({0, 1}) /\ Len(u) = 4
  OBVIOUS
<1>2. \A p \in 1..4 : u[p] = IF p <= 2 THEN 1 ELSE 0
  <2>1. \A p \in 1..4 : p = 1 \/ p = 2 \/ p = 3 \/ p = 4
    OBVIOUS
  <2> QED BY <2>1
<1>3. Path("idle", "shiftir") = u /\ Path(Clocked("shiftir", 1), "idle") = <<1, 0>>
  BY ToShiftIr, FromIr, ClockedTable
<1> HIDE DEF u
<1>4. /\ s \in Seq(Nibble) /\ n \in Nat /\ Len(s) = 4 + n + 2
      /\ \A p \in 1..4 + n + 2 :
           /\ s[p].tms = IF p <= 4 THEN u[p] ELSE
                         IF (p = 4 + n /\ n > 0) \/ p = 4 + n + 1 THEN 1 ELSE 0
           /\ s[p].tdi = IF 4 + 1 <= p /\ p <= 4 + n THEN w[p - 4] ELSE 0
           /\ s[p].cap <=> 4 + 1 <= p /\ p <= 4 + n /\ 4 + 0 + 1 <= p /\ p <= 4 + 0
  <2>1. IsScan(s, 4, u, w, 0, 0)
    BY <1>1, <1>3, ScanOf
  <2> QED BY <2>1, Zenon DEF IsScan
<1> HIDE DEF s, n
<1>5. s \in Seq(Nibble) /\ n \in Nat /\ Len(s) = n + 6
  BY <1>4
<1>6. ASSUME NEW p \in 1..n + 6
      PROVE  /\ s[p].tms = IF p <= 2 \/ (p = n + 4 /\ n > 0) \/ p = n + 5 THEN 1 ELSE 0
             /\ s[p].tdi = IF 5 <= p /\ p <= n + 4 THEN w[p - 4] ELSE 0
             /\ ~s[p].cap
  <2>1. p \in 1..4 + n + 2
    BY <1>5
  <2>2. s[p].tms = IF p <= 2 \/ (p = n + 4 /\ n > 0) \/ p = n + 5 THEN 1 ELSE 0
    BY <1>2, <1>4, <2>1
  <2>3. s[p].tdi = IF 5 <= p /\ p <= n + 4 THEN w[p - 4] ELSE 0
    BY <1>4, <2>1
  <2>4. ~s[p].cap
    BY <1>4, <2>1
  <2> QED BY <2>2, <2>3, <2>4
<1> QED BY <1>5, <1>6, Zenon DEF s, n

\* The stream of a session that reads n IDCODE bits.
IdStream(n) == ResetTap \o ScanBits("shiftdr", Zeros(n), 0, n)

\* The stream of a scan of n IDCODE bits, nibble by nibble.
LEMMA IdNibbles ==
  ASSUME NEW n \in Nat, n > 0
  PROVE  /\ IdStream(n) \in Seq(Nibble) /\ Len(IdStream(n)) = n + 11
         /\ \A p \in 1..n + 11 :
              /\ IdStream(n)[p].tms = IF p <= 5 \/ p = 7 \/ p = n + 9 \/ p = n + 10 THEN 1 ELSE 0
              /\ IdStream(n)[p].tdi = 0
              /\ IdStream(n)[p].cap <=> 10 <= p /\ p <= n + 9
<1> DEFINE a == ResetTap
           b == ScanBits("shiftdr", Zeros(n), 0, n)
           s == IdStream(n)
<1>1. Zeros(n) \in Seq({0, 1}) /\ Len(Zeros(n)) = n /\ \A i \in 1..n : Zeros(n)[i] = 0
  BY Listed DEF Zeros
<1>2. /\ a \in Seq(Nibble) /\ Len(a) = 6
      /\ \A i \in 1..6 : a[i].tms = (IF i = 6 THEN 0 ELSE 1) /\ a[i].tdi = 0 /\ ~a[i].cap
  BY ResetTapOf
<1>3. /\ b \in Seq(Nibble) /\ Len(b) = n + 5
      /\ \A p \in 1..n + 5 :
           /\ b[p].tms = IF p = 1 \/ (p = n + 3 /\ n > 0) \/ p = n + 4 THEN 1 ELSE 0
           /\ b[p].tdi = IF 4 <= p /\ p <= n + 3 THEN Zeros(n)[p - 3] ELSE 0
           /\ b[p].cap <=> 4 <= p /\ p <= n + 3 /\ 0 + 4 <= p /\ p <= n + 3
  <2> DEFINE w == Zeros(n)
  <2> HIDE DEF w
  <2>1. w \in Seq({0, 1}) /\ Len(w) = n /\ 0 \in Nat
    BY <1>1 DEF w
  <2>2. IsDrScan(ScanBits("shiftdr", w, 0, n), n, w, 0, n)
    BY <2>1, DrScan
  <2> QED BY <2>2, Zenon DEF w, IsDrScan
<1> HIDE DEF a, b
<1>4. /\ s \in Seq(Nibble) /\ Len(s) = n + 11
      /\ \A i \in 1..6 : s[i] = a[i]
      /\ \A i \in 7..n + 11 : s[i] = b[i - 6]
  <2>1. a \in Seq(Nibble) /\ b \in Seq(Nibble)
    BY <1>2, <1>3
  <2>2. s = a \o b
    BY Zenon DEF IdStream, a, b
  <2> HIDE DEF s
  <2>3. /\ s \in Seq(Nibble) /\ Len(s) = Len(a) + Len(b)
        /\ \A i \in 1..Len(a) : s[i] = a[i]
        /\ \A i \in Len(a) + 1..Len(a) + Len(b) : s[i] = b[i - Len(a)]
    BY <2>1, <2>2, Behind, Zenon
  <2> QED BY <1>2, <1>3, <2>3
<1> HIDE DEF s
<1>5. ASSUME NEW p \in 1..n + 11
      PROVE  /\ s[p].tms = IF p <= 5 \/ p = 7 \/ p = n + 9 \/ p = n + 10 THEN 1 ELSE 0
             /\ s[p].tdi = 0
             /\ s[p].cap <=> 10 <= p /\ p <= n + 9
  <2>1. CASE p <= 6
    <3>1. p \in 1..6 /\ s[p] = a[p]
      BY <1>4, <2>1
    <3> QED BY <1>2, <2>1, <3>1
  <2>2. CASE p >= 7
    <3>1. p - 6 \in 1..n + 5 /\ s[p] = b[p - 6]
      BY <1>4, <2>2
    <3>2. s[p].tms = IF p = 7 \/ p = n + 9 \/ p = n + 10 THEN 1 ELSE 0
      BY <1>3, <3>1
    <3>3. s[p].tdi = 0
      BY <1>1, <1>3, <3>1
    <3>4. s[p].cap <=> 10 <= p /\ p <= n + 9
      <4>1. s[p].cap <=> 4 <= p - 6 /\ p - 6 <= n + 3 /\ 0 + 4 <= p - 6 /\ p - 6 <= n + 3
        BY <1>3, <3>1, Zenon
      <4>2. 4 <= p - 6 /\ p - 6 <= n + 3 /\ 0 + 4 <= p - 6 /\ p - 6 <= n + 3 <=> 10 <= p /\ p <= n + 9
        OBVIOUS
      <4> QED BY <4>1, <4>2, Zenon
    <3> QED BY <2>2, <3>2, <3>3, <3>4
  <2> QED BY <2>1, <2>2
<1> QED BY <1>4, <1>5, Zenon DEF s

\* The stream of an access: x into the instruction registers, y into the data registers.
DmiStream(x, y, lo, hi) ==
  ResetTap \o ScanBits("shiftir", x, 0, 0) \o ScanBits("shiftdr", y, lo, hi) \o Idle(1)

IsDmiStream(s, x, y, lo, hi, m, n) ==
  /\ s \in Seq(Nibble) /\ Len(s) = m + n + 18
  /\ \A p \in 1..m + n + 18 :
       /\ s[p].tms = IF p <= 5 \/ p = 7 \/ p = 8 \/ p = m + 10 \/ p = m + 11 \/ p = m + 13
                        \/ p = m + n + 15 \/ p = m + n + 16 THEN 1 ELSE 0
       /\ s[p].tdi = IF 11 <= p /\ p <= m + 10 THEN x[p - 10]
                     ELSE IF m + 16 <= p /\ p <= m + n + 15 THEN y[p - (m + 15)] ELSE 0
       /\ s[p].cap <=> m + 16 <= p /\ p <= m + n + 15 /\ m + lo + 16 <= p /\ p <= m + hi + 15

\* Nibble by nibble.
LEMMA DmiNibbles ==
  ASSUME NEW x \in Seq({0, 1}), NEW y \in Seq({0, 1}), NEW lo \in Nat, NEW hi \in Nat,
         NEW m, NEW n, m = Len(x), n = Len(y), m > 0, n > 0
  PROVE  IsDmiStream(DmiStream(x, y, lo, hi), x, y, lo, hi, m, n)
<1> DEFINE a == ResetTap
           b == ScanBits("shiftir", x, 0, 0)
           c == ScanBits("shiftdr", y, lo, hi)
           d == Idle(1)
           s == DmiStream(x, y, lo, hi)
<1>1. /\ a \in Seq(Nibble) /\ Len(a) = 6
      /\ \A i \in 1..6 : a[i].tms = (IF i = 6 THEN 0 ELSE 1) /\ a[i].tdi = 0 /\ ~a[i].cap
  BY ResetTapOf
<1>2. /\ b \in Seq(Nibble) /\ m \in Nat /\ Len(b) = m + 6
      /\ \A p \in 1..m + 6 :
           /\ b[p].tms = IF p <= 2 \/ (p = m + 4 /\ m > 0) \/ p = m + 5 THEN 1 ELSE 0
           /\ b[p].tdi = IF 5 <= p /\ p <= m + 4 THEN x[p - 4] ELSE 0
           /\ ~b[p].cap
  BY IrScan, Zenon
<1>3. /\ c \in Seq(Nibble) /\ n \in Nat /\ Len(c) = n + 5
      /\ \A p \in 1..n + 5 :
           /\ c[p].tms = IF p = 1 \/ (p = n + 3 /\ n > 0) \/ p = n + 4 THEN 1 ELSE 0
           /\ c[p].tdi = IF 4 <= p /\ p <= n + 3 THEN y[p - 3] ELSE 0
           /\ c[p].cap <=> 4 <= p /\ p <= n + 3 /\ lo + 4 <= p /\ p <= hi + 3
  <2>1. IsDrScan(c, n, y, lo, hi)
    BY DrScan
  <2> QED BY <2>1, Zenon DEF IsDrScan
<1>4. d \in Seq(Nibble) /\ Len(d) = 1 /\ d[1].tms = 0 /\ d[1].tdi = 0 /\ d[1].cap = FALSE
  <2> DEFINE w == [i \in 1..1 |-> 0]
  <2>1. w \in [1..1 -> {0, 1}] /\ w[1] = 0 /\ 1 \in Nat
    OBVIOUS
  <2>2. d = Steps(w)
    BY Zenon DEF Idle
  <2> HIDE DEF w, d
  <2>3. w \in Seq({0, 1}) /\ Len(w) = 1
    BY <2>1, Listed
  <2>4. 1 \in 1..Len(w)
    BY <2>3
  <2> QED BY <2>1, <2>2, <2>3, <2>4, StepsOf
<1> HIDE DEF a, b, c, d
<1>5. /\ a \o b \in Seq(Nibble) /\ Len(a \o b) = m + 12
      /\ \A i \in 1..6 : (a \o b)[i] = a[i]
      /\ \A i \in 7..m + 12 : (a \o b)[i] = b[i - 6]
  <2>1. a \in Seq(Nibble) /\ b \in Seq(Nibble)
    BY <1>1, <1>2
  <2>2. /\ a \o b \in Seq(Nibble) /\ Len(a \o b) = Len(a) + Len(b)
        /\ \A i \in 1..Len(a) : (a \o b)[i] = a[i]
        /\ \A i \in Len(a) + 1..Len(a) + Len(b) : (a \o b)[i] = b[i - Len(a)]
    BY <2>1, Behind, Zenon
  <2> QED BY <1>1, <1>2, <2>2
<1> DEFINE e == a \o b
<1> HIDE DEF e
<1>6. /\ e \o c \in Seq(Nibble) /\ Len(e \o c) = m + n + 17
      /\ \A i \in 1..m + 12 : (e \o c)[i] = e[i]
      /\ \A i \in m + 13..m + n + 17 : (e \o c)[i] = c[i - (m + 12)]
  <2>1. e \in Seq(Nibble) /\ c \in Seq(Nibble)
    BY <1>3, <1>5 DEF e
  <2>2. /\ e \o c \in Seq(Nibble) /\ Len(e \o c) = Len(e) + Len(c)
        /\ \A i \in 1..Len(e) : (e \o c)[i] = e[i]
        /\ \A i \in Len(e) + 1..Len(e) + Len(c) : (e \o c)[i] = c[i - Len(e)]
    BY <2>1, Behind, Zenon
  <2>3. Len(e) = m + 12
    BY <1>5 DEF e
  <2> QED BY <1>2, <1>3, <2>2, <2>3
<1> DEFINE f == e \o c
<1> HIDE DEF f
<1>7. /\ f \o d \in Seq(Nibble) /\ Len(f \o d) = m + n + 18
      /\ \A i \in 1..m + n + 17 : (f \o d)[i] = f[i]
      /\ (f \o d)[m + n + 18] = d[1]
  <2>1. f \in Seq(Nibble) /\ d \in Seq(Nibble)
    BY <1>4, <1>6 DEF f
  <2>2. /\ f \o d \in Seq(Nibble) /\ Len(f \o d) = Len(f) + Len(d)
        /\ \A i \in 1..Len(f) : (f \o d)[i] = f[i]
        /\ \A i \in Len(f) + 1..Len(f) + Len(d) : (f \o d)[i] = d[i - Len(f)]
    BY <2>1, Behind, Zenon
  <2>3. Len(f) = m + n + 17
    BY <1>6 DEF f
  <2> QED BY <1>2, <1>3, <1>4, <2>2, <2>3
<1>8. s = f \o d
  BY Zenon DEF DmiStream, a, b, c, d, e, f
<1> HIDE DEF s
<1>9. ASSUME NEW p \in 1..m + n + 18
      PROVE  /\ s[p].tms = IF p <= 5 \/ p = 7 \/ p = 8 \/ p = m + 10 \/ p = m + 11 \/ p = m + 13
                              \/ p = m + n + 15 \/ p = m + n + 16 THEN 1 ELSE 0
             /\ s[p].tdi = IF 11 <= p /\ p <= m + 10 THEN x[p - 10]
                           ELSE IF m + 16 <= p /\ p <= m + n + 15 THEN y[p - (m + 15)] ELSE 0
             /\ s[p].cap <=> m + 16 <= p /\ p <= m + n + 15 /\ m + lo + 16 <= p /\ p <= m + hi + 15
  <2>0. m \in Nat /\ n \in Nat /\ p \in Nat
    BY <1>2, <1>3
  <2>1. CASE p <= 6
    <3>1. p \in 1..6 /\ p \in 1..m + 12 /\ p \in 1..m + n + 17
      BY <2>0, <2>1
    <3>2. s[p] = a[p]
      BY <1>5, <1>6, <1>7, <1>8, <3>1, Zenon DEF e, f
    <3>3. s[p].tms = (IF p <= 5 THEN 1 ELSE 0) /\ s[p].tdi = 0 /\ ~s[p].cap
      BY <1>1, <2>1, <3>1, <3>2
    <3> QED BY <2>0, <2>1, <3>3
  <2>2. CASE 7 <= p /\ p <= m + 12
    <3>1. p \in 7..m + 12 /\ p \in 1..m + 12 /\ p \in 1..m + n + 17 /\ p - 6 \in 1..m + 6
      BY <2>0, <2>2
    <3>2. s[p] = b[p - 6]
      BY <1>5, <1>6, <1>7, <1>8, <3>1, Zenon DEF e, f
    <3>3. s[p].tms = (IF p = 7 \/ p = 8 \/ p = m + 10 \/ p = m + 11 THEN 1 ELSE 0) /\ ~s[p].cap
      <4> DEFINE q == p - 6
      <4>1. /\ s[p].tms = IF q <= 2 \/ (q = m + 4 /\ m > 0) \/ q = m + 5 THEN 1 ELSE 0
            /\ ~s[p].cap
        <5> HIDE DEF q
        <5>1. q \in 1..m + 6 /\ s[p] = b[q]
          BY <3>1, <3>2 DEF q
        <5> QED BY <1>2, <5>1, Zenon
      <4>2. (q <= 2 \/ (q = m + 4 /\ m > 0) \/ q = m + 5)
            <=> (p = 7 \/ p = 8 \/ p = m + 10 \/ p = m + 11)
        BY <2>0, <2>2
      <4> HIDE DEF q
      <4> QED BY <4>1, <4>2, Zenon
    <3>4. s[p].tdi = IF 11 <= p /\ p <= m + 10 THEN x[p - 10] ELSE 0
      <4>1. p - 6 - 4 = p - 10
        BY <2>0
      <4> QED BY <1>2, <2>0, <3>1, <3>2, <4>1, SMTT(30)
    <3> QED BY <2>0, <2>2, <3>3, <3>4
  <2>3. CASE m + 13 <= p /\ p <= m + n + 17
    <3> DEFINE q == p - (m + 12)
    <3>1. p \in m + 13..m + n + 17 /\ p \in 1..m + n + 17 /\ q \in 1..n + 5
      BY <2>0, <2>3
    <3>2. s[p] = c[q]
      BY <1>6, <1>7, <1>8, <3>1, Zenon DEF f
    <3>3. s[p].tms = IF p = m + 13 \/ p = m + n + 15 \/ p = m + n + 16 THEN 1 ELSE 0
      <4>1. s[p].tms = IF q = 1 \/ (q = n + 3 /\ n > 0) \/ q = n + 4 THEN 1 ELSE 0
        <5>1. q \in 1..n + 5 /\ s[p] = c[q]
          BY <3>1, <3>2
        <5> HIDE DEF q
        <5>2. c[q].tms = IF q = 1 \/ (q = n + 3 /\ n > 0) \/ q = n + 4 THEN 1 ELSE 0
          BY <1>3, <5>1
        <5> QED BY <5>1, <5>2
      <4>2. (q = 1 \/ (q = n + 3 /\ n > 0) \/ q = n + 4)
            <=> (p = m + 13 \/ p = m + n + 15 \/ p = m + n + 16)
        BY <2>0, <2>3
      <4> HIDE DEF q
      <4> QED BY <4>1, <4>2, Zenon
    <3>4. s[p].tdi = IF m + 16 <= p /\ p <= m + n + 15 THEN y[p - (m + 15)] ELSE 0
      <4>1. q - 3 = p - (m + 15)
        BY <2>0
      <4>2. 4 <= q /\ q <= n + 3 <=> m + 16 <= p /\ p <= m + n + 15
        BY <2>0
      <4>3. s[p].tdi = IF 4 <= q /\ q <= n + 3 THEN y[q - 3] ELSE 0
        <5>1. q \in 1..n + 5 /\ s[p] = c[q]
          BY <3>1, <3>2
        <5> HIDE DEF q
        <5> QED BY <1>3, <5>1, ZenonT(60)
      <4> HIDE DEF q
      <4> QED BY <4>1, <4>2, <4>3, Zenon
    <3>5. s[p].cap <=> m + 16 <= p /\ p <= m + n + 15 /\ m + lo + 16 <= p /\ p <= m + hi + 15
      <4>1. s[p].cap <=> 4 <= q /\ q <= n + 3 /\ lo + 4 <= q /\ q <= hi + 3
        BY <1>3, <3>1, <3>2, Zenon
      <4>2. 4 <= q /\ q <= n + 3 /\ lo + 4 <= q /\ q <= hi + 3
            <=> m + 16 <= p /\ p <= m + n + 15 /\ m + lo + 16 <= p /\ p <= m + hi + 15
        BY <2>0
      <4> QED BY <4>1, <4>2, Zenon
    <3> QED BY <2>0, <2>3, <3>3, <3>4, <3>5
  <2>4. CASE p = m + n + 18
    <3>1. s[p].tms = 0 /\ s[p].tdi = 0 /\ ~s[p].cap
      BY <1>4, <1>7, <1>8, <2>4
    <3> QED BY <2>0, <2>4, <3>1
  <2> QED BY <2>0, <2>1, <2>2, <2>3, <2>4
<1>10. s \in Seq(Nibble) /\ Len(s) = m + n + 18
  BY <1>7, <1>8
<1> QED BY <1>9, <1>10, Zenon DEF s, IsDmiStream

-----------------------------------------------------------------------------
(* The registers of the chain, laid end to end. *)

\* Up to three sequences, flattened.
LEMMA FlattenOf ==
  ASSUME NEW S, NEW n \in 1..3, NEW f \in [1..n -> Seq(S)]
  PROVE  FlattenSeq(f) = IF n = 1 THEN f[1] ELSE IF n = 2 THEN f[1] \o f[2] ELSE f[1] \o f[2] \o f[3]
<1>1. f \in Seq(Seq(S)) /\ Len(f) = n
  BY Listed
<1> DEFINE Runs(g) == g = [i \in 1..Len(f) |-> IF i = 1 THEN f[i] ELSE g[i - 1] \o f[i]]
           h == [i \in 1..n |-> IF i = 1 THEN f[1] ELSE IF i = 2 THEN f[1] \o f[2]
                                ELSE f[1] \o f[2] \o f[3]]
           g == CHOOSE x : Runs(x)
<1>2. Runs(h)
  <2>1. \A i \in 1..n : h[i] = IF i = 1 THEN f[i] ELSE h[i - 1] \o f[i]
    <3>1. ASSUME NEW i \in 1..n PROVE h[i] = IF i = 1 THEN f[i] ELSE h[i - 1] \o f[i]
      <4>1. i = 1 \/ i = 2 \/ i = 3
        OBVIOUS
      <4>2. CASE i = 1
        BY <4>2
      <4>3. CASE i = 2
        <5>1. i - 1 = 1 /\ 1 \in 1..n
          BY <4>3
        <5>2. h[1] = f[1] /\ h[i] = f[1] \o f[2]
          BY <4>3, <5>1
        <5> QED BY <4>3, <5>1, <5>2, Zenon
      <4>4. CASE i = 3
        <5>1. i - 1 = 2 /\ 2 \in 1..n
          BY <4>4
        <5>2. h[2] = f[1] \o f[2] /\ h[i] = f[1] \o f[2] \o f[3]
          BY <4>4, <5>1
        <5> QED BY <4>4, <5>1, <5>2, Zenon
      <4> QED BY <4>1, <4>2, <4>3, <4>4
    <3> QED BY <3>1
  <2>2. h = [i \in 1..n |-> h[i]]
    OBVIOUS
  <2> HIDE DEF h
  <2> QED BY <1>1, <2>1, <2>2, Zenon
<1> HIDE DEF h
<1>3. Runs(g)
  BY <1>2, Zenon
<1>4. FlattenSeq(f) = g[n]
  <2>1. Len(f) # 0
    BY <1>1
  <2>2. FlattenSeq(f) = g[Len(f)]
    BY <2>1, Zenon DEF FlattenSeq
  <2> QED BY <1>1, <2>2, Zenon
<1> HIDE DEF g
<1>5. \A i \in 1..n : g[i] = IF i = 1 THEN f[i] ELSE g[i - 1] \o f[i]
  BY <1>1, <1>3, Zenon
<1>6. n = 1 \/ n = 2 \/ n = 3
  OBVIOUS
<1>7. CASE n = 1
  BY <1>4, <1>5, <1>7
<1>8. CASE n = 2
  <2>1. g[1] = f[1] /\ g[2] = g[1] \o f[2]
    BY <1>5, <1>8
  <2> QED BY <1>4, <1>8, <2>1
<1>9. CASE n = 3
  <2>1. g[1] = f[1] /\ g[2] = g[1] \o f[2]
    BY <1>5, <1>9
  <2>2. g[3] = g[2] \o f[3]
    <3>1. 3 \in 1..n /\ 3 # 1 /\ 3 - 1 = 2
      BY <1>9
    <3> QED BY <1>5, <3>1, Zenon
  <2>3. FlattenSeq(f) = f[1] \o f[2] \o f[3]
    BY <1>4, <1>9, <2>1, <2>2, Zenon
  <2> QED BY <1>9, <2>3
<1> QED BY <1>6, <1>7, <1>8, <1>9

\* Where the part of TAP t begins.
Offset(parts, t) ==
  IF t = 0 THEN 0 ELSE IF t = 1 THEN Len(parts[0])
  ELSE IF t = 2 THEN Len(parts[0]) + Len(parts[1])
  ELSE Len(parts[0]) + Len(parts[1]) + Len(parts[2])

\* The first n parts of the chain, laid end to end.
Laid(parts, n) == FlattenSeq([i \in 1..n |-> parts[i - 1]])

\* Laid end to end, the part of TAP t is found behind the parts of the TAPs before it.
LEMMA LaidOf ==
  ASSUME NEW n \in 1..3, NEW parts, \A t \in 0..n - 1 : parts[t] \in Seq({0, 1})
  PROVE  /\ Laid(parts, n) \in Seq({0, 1})
         /\ Len(Laid(parts, n)) = Offset(parts, n)
         /\ \A t \in 0..n - 1 : \A i \in 1..Len(parts[t]) :
              Laid(parts, n)[Offset(parts, t) + i] = parts[t][i]
<1> DEFINE f == [i \in 1..n |-> parts[i - 1]]
           s == Laid(parts, n)
<1>1. f \in [1..n -> Seq({0, 1})]
  <2>1. \A i \in 1..n : i - 1 \in 0..n - 1
    OBVIOUS
  <2> QED BY <2>1, Zenon
<1>2. n = 1 \/ n = 2 \/ n = 3
  OBVIOUS
<1>3. s = IF n = 1 THEN f[1] ELSE IF n = 2 THEN f[1] \o f[2] ELSE f[1] \o f[2] \o f[3]
  BY <1>1, FlattenOf, Zenon DEF Laid
<1>4. \A i \in 1..n : f[i] = parts[i - 1]
  OBVIOUS
<1> HIDE DEF f, s
<1>5. CASE n = 1
  <2>1. s = parts[0] /\ parts[0] \in Seq({0, 1})
    BY <1>3, <1>4, <1>5
  <2>2. \A t \in 0..n - 1 : t = 0
    BY <1>5
  <2>3. Offset(parts, n) = Len(parts[0]) /\ Offset(parts, 0) = 0
    BY <1>5 DEF Offset
  <2>4. Len(parts[0]) \in Nat
    BY <2>1, LenProperties
  <2>5. \A i \in 1..Len(parts[0]) : s[Offset(parts, 0) + i] = parts[0][i]
    <3>1. \A i \in 1..Len(parts[0]) : Offset(parts, 0) + i = i
      BY <2>3, <2>4
    <3> QED BY <2>1, <3>1
  <2>6. /\ s \in Seq({0, 1}) /\ Len(s) = Offset(parts, n)
        /\ \A t \in 0..n - 1 : \A i \in 1..Len(parts[t]) : s[Offset(parts, t) + i] = parts[t][i]
    BY <2>1, <2>2, <2>3, <2>5, Zenon
  <2> QED BY <2>6 DEF s
<1>6. CASE n = 2
  <2> DEFINE a == parts[0]
             b == parts[1]
  <2>1. s = a \o b /\ a \in Seq({0, 1}) /\ b \in Seq({0, 1})
    <3>1. f[1] = parts[0] /\ f[2] = parts[1]
      BY <1>4, <1>6
    <3>2. s = f[1] \o f[2]
      BY <1>3, <1>6
    <3>3. 0 \in 0..n - 1 /\ 1 \in 0..n - 1
      BY <1>6
    <3> QED BY <3>1, <3>2, <3>3, Zenon
  <2>2. \A t \in 0..n - 1 : t = 0 \/ t = 1
    BY <1>6
  <2>3. Offset(parts, n) = Len(a) + Len(b) /\ Offset(parts, 0) = 0 /\ Offset(parts, 1) = Len(a)
    BY <1>6 DEF Offset
  <2> HIDE DEF a, b
  <2>4. /\ a \o b \in Seq({0, 1}) /\ Len(a \o b) = Len(a) + Len(b) /\ Len(a) \in Nat /\ Len(b) \in Nat
        /\ \A i \in 1..Len(a) : (a \o b)[i] = a[i]
        /\ \A i \in Len(a) + 1..Len(a) + Len(b) : (a \o b)[i] = b[i - Len(a)]
    BY <2>1, Behind, Zenon
  <2> DEFINE c == a \o b
  <2> HIDE DEF c
  <2>5. /\ \A i \in 1..Len(a) : s[Offset(parts, 0) + i] = a[i]
        /\ \A i \in 1..Len(b) : s[Offset(parts, 1) + i] = b[i]
    BY <2>1, <2>3, <2>4, SMTT(30) DEF c
  <2>6. /\ s \in Seq({0, 1}) /\ Len(s) = Offset(parts, n)
        /\ \A t \in 0..n - 1 : \A i \in 1..Len(parts[t]) : s[Offset(parts, t) + i] = parts[t][i]
    BY <2>1, <2>2, <2>3, <2>4, <2>5, Zenon DEF a, b
  <2> QED BY <2>6 DEF s
<1>7. CASE n = 3
  <2> DEFINE a == parts[0]
             b == parts[1]
             d == parts[2]
  <2>1. s = a \o b \o d /\ a \in Seq({0, 1}) /\ b \in Seq({0, 1}) /\ d \in Seq({0, 1})
    <3>1. f[1] = parts[0] /\ f[2] = parts[1] /\ f[3] = parts[2]
      <4>1. 1 \in 1..n /\ 2 \in 1..n /\ 3 \in 1..n /\ 1 - 1 = 0 /\ 2 - 1 = 1 /\ 3 - 1 = 2
        BY <1>7
      <4> QED BY <1>4, <4>1, Zenon
    <3>2. s = f[1] \o f[2] \o f[3]
      <4>1. n # 1 /\ n # 2
        BY <1>7
      <4> QED BY <1>3, <4>1, Zenon
    <3>3. 0 \in 0..n - 1 /\ 1 \in 0..n - 1 /\ 2 \in 0..n - 1
      BY <1>7
    <3> QED BY <3>1, <3>2, <3>3, Zenon
  <2>2. \A t \in 0..n - 1 : t = 0 \/ t = 1 \/ t = 2
    BY <1>7
  <2>3. Offset(parts, n) = Len(a) + Len(b) + Len(d) /\ Offset(parts, 0) = 0 /\ Offset(parts, 1) = Len(a)
        /\ Offset(parts, 2) = Len(a) + Len(b)
    BY <1>7 DEF Offset
  <2> HIDE DEF a, b, d
  <2>4. /\ a \o b \in Seq({0, 1}) /\ Len(a \o b) = Len(a) + Len(b) /\ Len(a) \in Nat /\ Len(b) \in Nat
        /\ \A i \in 1..Len(a) : (a \o b)[i] = a[i]
        /\ \A i \in Len(a) + 1..Len(a) + Len(b) : (a \o b)[i] = b[i - Len(a)]
    BY <2>1, Behind, Zenon
  <2> DEFINE c == a \o b
  <2> HIDE DEF c
  <2>5. /\ c \o d \in Seq({0, 1}) /\ Len(c \o d) = Len(c) + Len(d) /\ Len(c) \in Nat /\ Len(d) \in Nat
        /\ \A i \in 1..Len(c) : (c \o d)[i] = c[i]
        /\ \A i \in Len(c) + 1..Len(c) + Len(d) : (c \o d)[i] = d[i - Len(c)]
    <3>1. c \in Seq({0, 1}) /\ d \in Seq({0, 1})
      BY <2>1, <2>4, Zenon DEF c
    <3> QED BY <3>1, Behind, Zenon
  <2>6. s = c \o d
    BY <2>1, Zenon DEF c
  <2> DEFINE e == c \o d
  <2> HIDE DEF e
  <2>7. s = e
    BY <2>6 DEF e
  <2>8. /\ Len(c) = Len(a) + Len(b) /\ Len(a) \in Nat /\ Len(b) \in Nat /\ Len(d) \in Nat
        /\ \A i \in 1..Len(a) : c[i] = a[i]
        /\ \A i \in Len(a) + 1..Len(a) + Len(b) : c[i] = b[i - Len(a)]
        /\ \A i \in 1..Len(c) : e[i] = c[i]
        /\ \A i \in Len(c) + 1..Len(c) + Len(d) : e[i] = d[i - Len(c)]
    BY <2>4, <2>5, Zenon DEF c, e
  <2>9. /\ \A i \in 1..Len(a) : s[Offset(parts, 0) + i] = a[i]
        /\ \A i \in 1..Len(b) : s[Offset(parts, 1) + i] = b[i]
        /\ \A i \in 1..Len(d) : s[Offset(parts, 2) + i] = d[i]
    <3>1. \A i \in 1..Len(a) : s[Offset(parts, 0) + i] = a[i]
      <4>1. \A i \in 1..Len(a) : Offset(parts, 0) + i = i /\ i \in 1..Len(c)
        BY <2>3, <2>8
      <4> QED BY <2>7, <2>8, <4>1, Zenon
    <3>2. ASSUME NEW i \in 1..Len(b) PROVE s[Offset(parts, 1) + i] = b[i]
      <4> DEFINE j == Offset(parts, 1) + i
      <4>1. j \in Len(a) + 1..Len(a) + Len(b) /\ j \in 1..Len(c) /\ j - Len(a) = i
        BY <2>3, <2>8
      <4> HIDE DEF j
      <4>2. s[j] = e[j] /\ e[j] = c[j] /\ c[j] = b[j - Len(a)]
        BY <2>7, <2>8, <4>1, Zenon
      <4>3. s[j] = b[i]
        BY <4>1, <4>2, Zenon
      <4> QED BY <4>3 DEF j
    <3>3. ASSUME NEW i \in 1..Len(d) PROVE s[Offset(parts, 2) + i] = d[i]
      <4> DEFINE j == Offset(parts, 2) + i
      <4>1. j \in Len(c) + 1..Len(c) + Len(d) /\ j - Len(c) = i
        BY <2>3, <2>8
      <4> HIDE DEF j
      <4>2. s[j] = e[j] /\ e[j] = d[j - Len(c)]
        BY <2>7, <2>8, <4>1, Zenon
      <4>3. s[j] = d[i]
        BY <4>1, <4>2, Zenon
      <4> QED BY <4>3 DEF j
    <3> QED BY <3>1, <3>2, <3>3
  <2>10. s \in Seq({0, 1}) /\ Len(s) = Offset(parts, n)
    BY <2>3, <2>5, <2>6, <2>8
  <2>11. /\ s \in Seq({0, 1}) /\ Len(s) = Offset(parts, n)
         /\ \A t \in 0..n - 1 : \A i \in 1..Len(parts[t]) : s[Offset(parts, t) + i] = parts[t][i]
    BY <2>2, <2>9, <2>10, Zenon DEF a, b, d
  <2> QED BY <2>11 DEF s
<1> QED BY <1>2, <1>5, <1>6, <1>7

\* What the assumptions say of a board.
LEMMA BoardOf ==
  ASSUME board \in Boards
  PROVE  /\ NTaps \in 1..3 /\ Override \in Nat
         /\ \A t \in TapNo : /\ IdCode(t) \in Bits(IdLen) /\ IdCode(t) # Zeros(IdLen)
                             /\ IdCode(t) \in Seq({0, 1}) /\ Len(IdCode(t)) = IdLen
<1> DEFINE ids == board.idcodes
           S == Bits(IdLen) \ {Zeros(IdLen)}
<1>1. ids \in Seq(S) /\ Len(ids) \in 1..3 /\ board.override \in Nat /\ IdLen \in Nat
  BY ChainAssumption
<1> HIDE DEF S
<1>2. \A i \in 1..Len(ids) : ids[i] \in S
  BY <1>1, ElementOfSeq
<1>3. \A t \in TapNo : t + 1 \in 1..Len(ids)
  BY <1>1 DEF TapNo, NTaps
<1>4. \A t \in TapNo : IdCode(t) \in Bits(IdLen) /\ IdCode(t) # Zeros(IdLen)
  BY <1>2, <1>3, Zenon DEF IdCode, S
<1>5. \A t \in TapNo : IdCode(t) \in Seq({0, 1}) /\ Len(IdCode(t)) = IdLen
  <2>1. \A t \in TapNo : IdCode(t) \in [1..IdLen -> {0, 1}]
    BY <1>4 DEF Bits
  <2> QED BY <1>1, <2>1, Listed
<1> QED BY <1>1, <1>4, <1>5 DEF NTaps, Override

\* The three instructions differ.
LEMMA Codes ==
  /\ BYPASS \in Bits(IrLen) /\ IDCODE \in Bits(IrLen) /\ DMI \in Bits(IrLen)
  /\ BYPASS # IDCODE /\ BYPASS # DMI /\ IDCODE # DMI
  /\ BYPASS \in Seq({0, 1}) /\ IDCODE \in Seq({0, 1}) /\ DMI \in Seq({0, 1})
  /\ Len(BYPASS) = IrLen /\ Len(IDCODE) = IrLen /\ Len(DMI) = IrLen
  /\ IrLen \in Nat /\ IrLen >= 2
<1>1. IrLen \in Nat /\ IrLen >= 2 /\ 1 \in 1..IrLen /\ IrLen \in 1..IrLen /\ IrLen # 1
  BY ChainAssumption
<1>2. /\ BYPASS \in Bits(IrLen) /\ IDCODE \in Bits(IrLen) /\ DMI \in Bits(IrLen)
  BY <1>1 DEF BYPASS, IDCODE, DMI, Bits, Ones, Zeros
<1>3. /\ BYPASS[1] = 1 /\ BYPASS[IrLen] = 1 /\ IDCODE[1] = 1 /\ IDCODE[IrLen] = 0
      /\ DMI[1] = 0
  BY <1>1 DEF BYPASS, IDCODE, DMI, Bits, Ones, Zeros
<1>4. /\ BYPASS \in Seq({0, 1}) /\ IDCODE \in Seq({0, 1}) /\ DMI \in Seq({0, 1})
      /\ Len(BYPASS) = IrLen /\ Len(IDCODE) = IrLen /\ Len(DMI) = IrLen
  BY <1>1, <1>2, Listed DEF Bits
<1>5. BYPASS # IDCODE /\ BYPASS # DMI /\ IDCODE # DMI
  BY <1>3
<1> QED BY <1>1, <1>2, <1>4, <1>5

\* The parts of the chain, laid end to end.
LEMMA OverChainOf ==
  ASSUME board \in Boards, NEW parts, \A t \in TapNo : parts[t] \in Seq({0, 1})
  PROVE  /\ OverChain(parts) \in Seq({0, 1})
         /\ Len(OverChain(parts)) = Offset(parts, NTaps)
         /\ \A t \in TapNo : \A i \in 1..Len(parts[t]) :
              OverChain(parts)[Offset(parts, t) + i] = parts[t][i]
<1>1. OverChain(parts) = Laid(parts, NTaps)
  BY DEF OverChain, Laid
<1>2. NTaps \in 1..3
  BY BoardOf
<1>3. TapNo = 0..NTaps - 1
  BY DEF TapNo
<1>4. \A t \in 0..NTaps - 1 : parts[t] \in Seq({0, 1})
  BY <1>3
<1>5. /\ Laid(parts, NTaps) \in Seq({0, 1})
      /\ Len(Laid(parts, NTaps)) = Offset(parts, NTaps)
      /\ \A t \in 0..NTaps - 1 : \A i \in 1..Len(parts[t]) :
           Laid(parts, NTaps)[Offset(parts, t) + i] = parts[t][i]
  <2> DEFINE n == NTaps
  <2>1. n \in 1..3 /\ \A t \in 0..n - 1 : parts[t] \in Seq({0, 1})
    BY <1>2, <1>4
  <2> HIDE DEF n
  <2>2. /\ Laid(parts, n) \in Seq({0, 1})
        /\ Len(Laid(parts, n)) = Offset(parts, n)
        /\ \A t \in 0..n - 1 : \A i \in 1..Len(parts[t]) :
             Laid(parts, n)[Offset(parts, t) + i] = parts[t][i]
    BY <2>1, LaidOf
  <2> QED BY <2>2, Zenon DEF n
<1> QED BY <1>1, <1>3, <1>5, Zenon

\* Parts of one length.
LEMMA Even ==
  ASSUME board \in Boards, NEW len \in Nat,
         NEW parts, \A t \in TapNo : parts[t] \in Seq({0, 1}) /\ Len(parts[t]) = len
  PROVE  /\ OverChain(parts) \in Seq({0, 1}) /\ Len(OverChain(parts)) = NTaps * len
         /\ \A t \in TapNo : \A i \in 1..len : OverChain(parts)[t * len + i] = parts[t][i]
<1>1. NTaps \in 1..3
  BY BoardOf
<1>2. NTaps = 1 \/ NTaps = 2 \/ NTaps = 3
  BY <1>1
<1>3. TapNo = 0..NTaps - 1
  BY DEF TapNo
<1>4. \A t \in TapNo : Offset(parts, t) = t * len
  <2>1. ASSUME NEW t \in TapNo PROVE Offset(parts, t) = t * len
    <3>1. CASE t = 0
      BY <3>1 DEF Offset
    <3>2. CASE t = 1
      <4>1. 0 \in TapNo
        BY <1>1, <1>3
      <4> QED BY <3>2, <4>1 DEF Offset
    <3>3. CASE t = 2
      <4>1. 0 \in TapNo /\ 1 \in TapNo
        BY <1>1, <1>3, <3>3
      <4>2. Len(parts[0]) = len /\ Len(parts[1]) = len /\ len + len = t * len
        BY <3>3, <4>1
      <4>3. Offset(parts, t) = Len(parts[0]) + Len(parts[1])
        BY <3>3 DEF Offset
      <4> QED BY <4>2, <4>3, Zenon
    <3> QED BY <1>2, <1>3, <3>1, <3>2, <3>3
  <2> QED BY <2>1
<1>5. Offset(parts, NTaps) = NTaps * len
  <2>1. CASE NTaps = 1
    <3>1. 0 \in TapNo
      BY <1>3, <2>1
    <3> QED BY <2>1, <3>1 DEF Offset
  <2>2. CASE NTaps = 2
    <3>1. 0 \in TapNo /\ 1 \in TapNo
      BY <1>3, <2>2
    <3>2. Len(parts[0]) = len /\ Len(parts[1]) = len /\ len + len = NTaps * len
      BY <2>2, <3>1
    <3>3. Offset(parts, NTaps) = Len(parts[0]) + Len(parts[1])
      BY <2>2 DEF Offset
    <3> QED BY <3>2, <3>3, Zenon
  <2>3. CASE NTaps = 3
    <3>1. 0 \in TapNo /\ 1 \in TapNo /\ 2 \in TapNo
      BY <1>3, <2>3
    <3>2. Len(parts[0]) = len /\ Len(parts[1]) = len /\ Len(parts[2]) = len
          /\ len + len + len = NTaps * len
      BY <2>3, <3>1
    <3>3. Offset(parts, NTaps) = Len(parts[0]) + Len(parts[1]) + Len(parts[2])
      BY <2>3 DEF Offset
    <3> QED BY <3>2, <3>3, Zenon
  <2> QED BY <1>2, <2>1, <2>2, <2>3
<1>6. /\ OverChain(parts) \in Seq({0, 1})
      /\ Len(OverChain(parts)) = Offset(parts, NTaps)
      /\ \A t \in TapNo : \A i \in 1..Len(parts[t]) :
           OverChain(parts)[Offset(parts, t) + i] = parts[t][i]
  BY OverChainOf, Zenon
<1> QED BY <1>4, <1>5, <1>6, Zenon

\* The types of what the registers of the chain hold.
Registers == board \in Boards /\ ir \in [TapNo -> Bits(IrLen)] /\ response \in Bits(DmiLen)

\* The data register a TAP selects.
LEMMA DrOfType ==
  ASSUME Registers, NEW t \in TapNo
  PROVE  /\ DrOf(t) \in Seq({0, 1}) /\ Len(DrOf(t)) \in Nat /\ Len(DrOf(t)) > 0
         /\ ir[t] = IDCODE => DrOf(t) = IdCode(t) /\ Len(DrOf(t)) = IdLen
         /\ ir[t] = DMI => DrOf(t) = response /\ Len(DrOf(t)) = DmiLen
         /\ ir[t] # IDCODE /\ ir[t] # DMI => DrOf(t) = <<0>> /\ Len(DrOf(t)) = 1
<1>1. IdCode(t) \in Seq({0, 1}) /\ Len(IdCode(t)) = IdLen
  BY BoardOf DEF Registers
<1>2. response \in Seq({0, 1}) /\ Len(response) = DmiLen
  BY ChainAssumption, Listed DEF Registers, Bits
<1>3. IdLen \in Nat /\ IdLen > 0 /\ DmiLen \in Nat /\ DmiLen > 0
  BY ChainAssumption
<1>4. <<0>> \in Seq({0, 1}) /\ Len(<<0>>) = 1
  OBVIOUS
<1>5. DMI # IDCODE
  BY Codes
<1>6. /\ ir[t] = IDCODE => DrOf(t) = IdCode(t)
      /\ ir[t] = DMI => DrOf(t) = response
      /\ ir[t] # IDCODE /\ ir[t] # DMI => DrOf(t) = <<0>>
  <2>1. CASE ir[t] = IDCODE
    BY <1>5, <2>1 DEF DrOf
  <2>2. CASE ir[t] = DMI
    BY <1>5, <2>2 DEF DrOf
  <2>3. CASE ir[t] # IDCODE /\ ir[t] # DMI
    BY <2>3 DEF DrOf
  <2> QED BY <2>1, <2>2, <2>3
<1>7. CASE ir[t] = IDCODE
  <2>1. DrOf(t) = IdCode(t)
    BY <1>6, <1>7
  <2> QED BY <1>1, <1>3, <1>5, <1>7, <2>1, Zenon
<1>8. CASE ir[t] = DMI
  <2>1. DrOf(t) = response
    BY <1>6, <1>8
  <2> QED BY <1>2, <1>3, <1>5, <1>8, <2>1, Zenon
<1>9. CASE ir[t] # IDCODE /\ ir[t] # DMI
  <2>1. DrOf(t) = <<0>>
    BY <1>6, <1>9
  <2>2. Len(DrOf(t)) = 1 /\ DrOf(t) \in Seq({0, 1})
    BY <1>4, <2>1
  <2>3. Len(DrOf(t)) \in Nat /\ Len(DrOf(t)) > 0
    BY <2>2
  <2> QED BY <1>9, <2>1, <2>2, <2>3, Zenon
<1> QED BY <1>7, <1>8, <1>9

DrParts == [t \in TapNo |-> DrOf(t)]
DrChain == OverChain(DrParts)

\* The data registers, laid end to end.
LEMMA DrChainOf ==
  ASSUME Registers
  PROVE  /\ DrChain \in Seq({0, 1}) /\ Len(DrChain) = Offset(DrParts, NTaps)
         /\ \A t \in TapNo : \A i \in 1..Len(DrOf(t)) : DrChain[Offset(DrParts, t) + i] = DrOf(t)[i]
<1>1. \A t \in TapNo : DrParts[t] = DrOf(t) /\ DrParts[t] \in Seq({0, 1})
  BY DrOfType DEF DrParts
<1>2. /\ DrChain \in Seq({0, 1}) /\ Len(DrChain) = Offset(DrParts, NTaps)
      /\ \A t \in TapNo : \A i \in 1..Len(DrParts[t]) :
           DrChain[Offset(DrParts, t) + i] = DrParts[t][i]
  BY <1>1, OverChainOf DEF DrChain, Registers
<1> QED BY <1>1, <1>2, Zenon

\* Where the data registers begin.
LEMMA DrOffset ==
  ASSUME Registers, NEW t \in TapNo
  PROVE  /\ Len(FlattenSeq([i \in 1..t |-> DrOf(i - 1)])) = Offset(DrParts, t)
         /\ Offset(DrParts, t) \in Nat /\ Offset(DrParts, t) + Len(DrOf(t)) <= Len(DrChain)
<1>1. NTaps \in 1..3 /\ TapNo = 0..NTaps - 1
  BY BoardOf DEF Registers, TapNo
<1>2. \A u \in TapNo : DrParts[u] = DrOf(u) /\ DrParts[u] \in Seq({0, 1}) /\ Len(DrParts[u]) \in Nat
  BY DrOfType DEF DrParts
<1>3. Len(DrChain) = Offset(DrParts, NTaps)
  BY DrChainOf
<1>4. NTaps = 1 \/ NTaps = 2 \/ NTaps = 3
  BY <1>1
<1>5. t = 0 \/ t = 1 \/ t = 2
  BY <1>1
<1>6. Len(FlattenSeq([i \in 1..t |-> DrOf(i - 1)])) = Offset(DrParts, t)
  <2>1. CASE t = 0
    <3> DEFINE f == [i \in 1..t |-> DrOf(i - 1)]
    <3>1. f \in [1..0 -> {0, 1}] /\ 0 \in Nat
      BY <2>1
    <3>2. Len(f) = 0
      <4> HIDE DEF f
      <4> QED BY <3>1, Listed
    <3>3. FlattenSeq(f) = f
      BY <3>2, Zenon DEF FlattenSeq
    <3> HIDE DEF f
    <3>4. Len(FlattenSeq(f)) = Offset(DrParts, t)
      BY <2>1, <3>2, <3>3 DEF Offset
    <3> QED BY <3>4 DEF f
  <2>2. CASE t # 0
    <3>1. t \in 1..3 /\ \A i \in 1..t : i - 1 \in TapNo
      BY <1>1, <2>2
    <3>2. [i \in 1..t |-> DrOf(i - 1)] = [i \in 1..t |-> DrParts[i - 1]]
      BY <1>2, <3>1, Zenon
    <3>3. \A u \in 0..t - 1 : DrParts[u] \in Seq({0, 1})
      BY <1>1, <1>2, <3>1
    <3>4. Len(Laid(DrParts, t)) = Offset(DrParts, t)
      BY <3>1, <3>3, LaidOf
    <3> QED BY <3>2, <3>4, Zenon DEF Laid
  <2> QED BY <2>1, <2>2
<1>7. Offset(DrParts, t) \in Nat /\ Offset(DrParts, t) + Len(DrParts[t]) <= Offset(DrParts, NTaps)
  <2>1. CASE NTaps = 1
    <3>1. 0 \in TapNo /\ t = 0
      BY <1>1, <2>1
    <3> QED BY <1>2, <2>1, <3>1 DEF Offset
  <2> DEFINE x == Len(DrParts[0])
             y == Len(DrParts[1])
             z == Len(DrParts[2])
  <2>2. CASE NTaps = 2
    <3>1. 0 \in TapNo /\ 1 \in TapNo /\ (t = 0 \/ t = 1)
      BY <1>1, <2>2
    <3>2. x \in Nat /\ y \in Nat
      BY <1>2, <3>1
    <3>3. Offset(DrParts, NTaps) = x + y /\ Offset(DrParts, 0) = 0 /\ Offset(DrParts, 1) = x
      BY <2>2 DEF Offset
    <3> HIDE DEF x, y
    <3>4. 0 \in Nat /\ 0 + x <= x + y /\ x \in Nat /\ x + y <= x + y
      BY <3>2
    <3>5. CASE t = 0
      BY <3>3, <3>4, <3>5, Zenon DEF x
    <3>6. CASE t = 1
      BY <3>3, <3>4, <3>6, Zenon DEF y
    <3> QED BY <3>1, <3>5, <3>6
  <2>3. CASE NTaps = 3
    <3>1. 0 \in TapNo /\ 1 \in TapNo /\ 2 \in TapNo
      BY <1>1, <2>3
    <3>2. x \in Nat /\ y \in Nat /\ z \in Nat
      BY <1>2, <3>1
    <3>3. /\ Offset(DrParts, NTaps) = x + y + z /\ Offset(DrParts, 0) = 0
          /\ Offset(DrParts, 1) = x /\ Offset(DrParts, 2) = x + y
      BY <2>3 DEF Offset
    <3> HIDE DEF x, y, z
    <3>4. /\ 0 \in Nat /\ 0 + x <= x + y + z /\ x \in Nat /\ x + y <= x + y + z
          /\ x + y \in Nat /\ x + y + z <= x + y + z
      BY <3>2
    <3>5. CASE t = 0
      BY <3>3, <3>4, <3>5, Zenon DEF x
    <3>6. CASE t = 1
      BY <3>3, <3>4, <3>6, Zenon DEF y
    <3>7. CASE t = 2
      BY <3>3, <3>4, <3>7, Zenon DEF z
    <3> QED BY <1>5, <3>5, <3>6, <3>7
  <2> QED BY <1>4, <2>1, <2>2, <2>3
<1> QED BY <1>2, <1>3, <1>6, <1>7

\* What Update-DR loads into the DMI register of a TAP that selects it.
LEMMA DmiPartOf ==
  ASSUME Registers, NEW t \in TapNo, ir[t] = DMI,
         NEW r \in Seq({0, 1}), Len(r) = Len(DrChain)
  PROVE  /\ DmiPart(t, r) \in Bits(DmiLen)
         /\ \A i \in 1..DmiLen : DmiPart(t, r)[i] = r[Offset(DrParts, t) + i]
<1> DEFINE o == Offset(DrParts, t)
<1>1. o \in Nat /\ o + DmiLen <= Len(r) /\ DmiLen \in Nat /\ DmiLen > 0 /\ Len(r) \in Nat
  BY ChainAssumption, DrOffset, DrOfType, LenProperties
<1>2. DmiPart(t, r) = SubSeq(r, o + 1, o + DmiLen)
  BY DrOffset, Zenon DEF DmiPart
<1> HIDE DEF o
<1>3. \A i \in o + 1..o + DmiLen : r[i] \in {0, 1}
  BY <1>1, ElementOfSeq
<1> DEFINE l == o + 1
           h == o + DmiLen
           s == SubSeq(r, l, h)
<1>4. l \in Int /\ h \in Int /\ l <= h /\ h - l + 1 = DmiLen /\ \A i \in 1..DmiLen : l + i - 1 = o + i
  BY <1>1
<1>5. \A i \in l..h : r[i] \in {0, 1}
  BY <1>3
<1> HIDE DEF l, h
<1>6. s \in Seq({0, 1}) /\ Len(s) = DmiLen /\ \A i \in 1..DmiLen : s[i] = r[o + i]
  <2>1. /\ s \in Seq({0, 1})
        /\ Len(s) = IF l <= h THEN h - l + 1 ELSE 0
        /\ \A i \in 1..h - l + 1 : s[i] = r[l + i - 1]
    BY <1>4, <1>5, SubSeqProperties
  <2> HIDE DEF s
  <2> QED BY <1>4, <2>1, Zenon
<1>9. SubSeq(r, o + 1, o + DmiLen) = s
  BY Zenon DEF l, h
<1> HIDE DEF s
<1>7. s \in [1..DmiLen -> {0, 1}]
  BY <1>6, LenProperties
<1>8. DmiPart(t, r) = s
  BY <1>2, <1>9, Zenon
<1> QED BY <1>6, <1>7, <1>8, Zenon DEF o, Bits

\* The instruction registers and the IDCODEs, laid end to end.
IrChain == OverChain([t \in TapNo |-> IrCapture(t)])
IdChain == OverChain([t \in TapNo |-> IdCode(t)])

\* The length of the instruction registers.
LEMMA IrChainOf ==
  ASSUME board \in Boards
  PROVE  IrChain \in Seq({0, 1}) /\ Len(IrChain) = NTaps * IrLen /\ Len(IrChain) > 0
<1> DEFINE parts == [t \in TapNo |-> IrCapture(t)]
<1>1. IrLen \in Nat /\ IrLen > 0 /\ IDCODE \in Seq({0, 1}) /\ Len(IDCODE) = IrLen
  BY Codes
<1>2. \A t \in TapNo : parts[t] \in Seq({0, 1}) /\ Len(parts[t]) = IrLen
  BY <1>1 DEF IrCapture, IDCODE
<1> HIDE DEF parts
<1>3. OverChain(parts) \in Seq({0, 1}) /\ Len(OverChain(parts)) = NTaps * IrLen
  BY <1>1, <1>2, Even
<1>4. NTaps * IrLen > 0
  <2>1. NTaps = 1 \/ NTaps = 2 \/ NTaps = 3
    BY BoardOf
  <2> QED BY <1>1, <2>1
<1> QED BY <1>3, <1>4, Zenon DEF IrChain, parts

\* Where each IDCODE stands.
LEMMA IdChainOf ==
  ASSUME board \in Boards
  PROVE  /\ IdChain \in Seq({0, 1}) /\ Len(IdChain) = NTaps * IdLen /\ Len(IdChain) > 0
         /\ \A t \in TapNo : \A i \in 1..IdLen : IdChain[t * IdLen + i] = IdCode(t)[i]
<1> DEFINE parts == [t \in TapNo |-> IdCode(t)]
<1>1. IdLen \in Nat /\ IdLen > 0
  BY ChainAssumption
<1>2. \A t \in TapNo : parts[t] \in Seq({0, 1}) /\ Len(parts[t]) = IdLen /\ parts[t] = IdCode(t)
  BY BoardOf
<1> HIDE DEF parts
<1>3. /\ OverChain(parts) \in Seq({0, 1}) /\ Len(OverChain(parts)) = NTaps * IdLen
      /\ \A t \in TapNo : \A i \in 1..IdLen : OverChain(parts)[t * IdLen + i] = parts[t][i]
  BY <1>1, <1>2, Even
<1>4. NTaps * IdLen > 0
  <2>1. NTaps = 1 \/ NTaps = 2 \/ NTaps = 3
    BY BoardOf
  <2> QED BY <1>1, <2>1
<1>5. IdChain = OverChain(parts)
  BY Zenon DEF IdChain, parts
<1> QED BY <1>2, <1>3, <1>4, <1>5, Zenon

-----------------------------------------------------------------------------
(* The invariant. *)

Busy == session \in {"detect", "idcode", "dmi"}
AllIdcode == [t \in TapNo |-> IDCODE]
Selected == [t \in TapNo |-> IF t = Target THEN DMI ELSE BYPASS]

\* What a session sends, and how many of its nibbles have arrived.
IdBits == IF session = "detect" THEN 3 * IdLen ELSE (index + 1) * IdLen
IrWord == Ones(after * IrLen) \o DMI \o Ones(before * IrLen)
IrBits == Len(IrWord)
DrWord == Zeros(after) \o value \o Zeros(before)
DrBits == after + DmiLen + before
Stream == IF session = "dmi" THEN DmiStream(IrWord, DrWord, after, after + DmiLen)
          ELSE IdStream(IdBits)
At == Len(Stream) - Len(wire)

WireInv ==
  /\ Busy => Len(wire) <= Len(Stream) /\ \A i \in 1..Len(wire) : wire[i] = Stream[At + i]
  /\ ~Busy => wire = <<>>
  /\ session = "detect" => ~detected
  /\ session \in {"idcode", "dmi"} => detected
  /\ Busy => state = "idle"

\* The TAP state by the clocks of the session.  Five TMS=1 lead from any state to
\* Test-Logic-Reset; from Run-Test/Idle they avoid Update-DR.
Resetting(a) ==
  IF a = 0 THEN TapState
  ELSE IF a = 1 THEN {"reset", "seldr", "selir", "e1dr", "updr", "e2dr", "e1ir", "e2ir", "upir"}
  ELSE IF a = 2 THEN {"reset", "selir", "seldr", "updr", "upir"}
  ELSE IF a = 3 THEN {"reset", "seldr", "selir"}
  ELSE IF a = 4 THEN {"reset", "selir"}
  ELSE {"reset"}
Clean(a) == IF a = 0 THEN "idle" ELSE IF a = 1 THEN "seldr" ELSE IF a = 2 THEN "selir" ELSE "reset"

IdTap(a, n) ==
  IF a = 7 THEN "seldr" ELSE IF a = 8 THEN "capdr"
  ELSE IF 9 <= a /\ a < n + 9 THEN "shiftdr" ELSE IF a = n + 9 THEN "e1dr"
  ELSE IF a = n + 10 THEN "updr" ELSE "idle"
DmiTap(a, m, n) ==
  IF a = 7 THEN "seldr" ELSE IF a = 8 THEN "selir" ELSE IF a = 9 THEN "capir"
  ELSE IF 10 <= a /\ a < m + 10 THEN "shiftir" ELSE IF a = m + 10 THEN "e1ir"
  ELSE IF a = m + 11 THEN "upir" ELSE IF a = m + 13 THEN "seldr" ELSE IF a = m + 14 THEN "capdr"
  ELSE IF m + 15 <= a /\ a < m + n + 15 THEN "shiftdr" ELSE IF a = m + n + 15 THEN "e1dr"
  ELSE IF a = m + n + 16 THEN "updr" ELSE "idle"

TapInv ==
  /\ Busy /\ At <= 5 => tap \in Resetting(At)
  /\ session \in {"detect", "idcode"} /\ At > 5 => tap = IdTap(At, IdBits)
  /\ session = "dmi" /\ At > 5 => tap = DmiTap(At, IrBits, DrBits)
  /\ breaks = 0 /\ detected => /\ ~Busy => tap = "idle"
                               /\ Busy /\ At <= 5 => tap = Clean(At)

\* In the states between Capture and Update the chain has the length of the registers.
IrShape == {"shiftir", "e1ir", "pauseir", "e2ir", "upir"}
DrShape == {"shiftdr", "e1dr", "pausedr", "e2dr", "updr"}
ShapeInv ==
  /\ Len(chain) > 0
  /\ tap \in IrShape => Len(chain) = NTaps * IrLen
  /\ tap \in DrShape => Len(chain) = Len(DrChain)

\* The chain once k bits of word have been shifted in behind first.
Shifted(c, first, word, k) ==
  /\ Len(c) = Len(first)
  /\ \A i \in 1..Len(first) : c[i] = (first \o word)[i + k]
Least(a, b) == IF a < b THEN a ELSE b

IrInv ==
  /\ session \in {"detect", "idcode"} /\ At >= 5 => ir = AllIdcode
  /\ session = "dmi" /\ At >= 5 /\ At <= IrBits + 10 => ir = AllIdcode
  /\ Known /\ session = "dmi" /\ At >= IrBits + 11 => ir = Selected

IdInv ==
  session \in {"detect", "idcode"} =>
    /\ At <= 9 => captured = <<>>
    /\ At >= 9 => /\ Shifted(chain, IdChain, Zeros(IdBits), Least(At - 9, IdBits))
                  /\ Len(captured) = Least(At - 9, IdBits)
                  /\ \A i \in 1..Len(captured) : captured[i] = (IdChain \o Zeros(IdBits))[i]

\* The first `after` bits of the data scan are the bypass bits, not captured.
Caught(k) == IF k < after THEN 0 ELSE Least(k - after, DmiLen)
DrFirst == Zeros(after) \o response \o Zeros(before)
DmiInv ==
  Known /\ session = "dmi" =>
    /\ At >= 10 /\ At <= IrBits + 11 => Shifted(chain, IrChain, IrWord, Least(At - 10, IrBits))
    /\ At <= IrBits + 15 => captured = <<>>
    /\ At >= IrBits + 15 =>
         /\ At <= IrBits + DrBits + 15 => Shifted(chain, DrFirst, DrWord, At - (IrBits + 15))
         /\ Len(captured) = Caught(Least(At - (IrBits + 15), DrBits))
         /\ \A i \in 1..Len(captured) : captured[i] = response[i]
    /\ At >= IrBits + DrBits + 16 => dmi[Target] = value

\* The layout: nothing found yet, the row of the table, or the caller's choice.
LayoutInv ==
  /\ ~detected => \/ after = 0 /\ before = 0 /\ index = 0
                  \/ /\ IdCode(0) \in DOMAIN ChainTable
                     /\ after = ChainTable[IdCode(0)] /\ before = 0 /\ index = after
  /\ detected =>
       IF Override # NoOverride
       THEN Override < NTaps /\ after = Override /\ before = NTaps - 1 - Override /\ index = Override
       ELSE IF IdCode(0) \in DOMAIN ChainTable
       THEN after = ChainTable[IdCode(0)] /\ before = 0 /\ index = after
       ELSE after = 0 /\ before = 0 /\ index = 0

IInv ==
  TypeOK /\ WireInv /\ TapInv /\ ShapeInv /\ IrInv /\ IdInv /\ DmiInv /\ LayoutInv

-----------------------------------------------------------------------------
(* Words: what goes into the chain and where it ends up. *)

\* A word of zeros and a word of ones.
LEMMA Fill ==
  ASSUME NEW n \in Nat
  PROVE  /\ Zeros(n) \in Seq({0, 1}) /\ Len(Zeros(n)) = n /\ \A i \in 1..n : Zeros(n)[i] = 0
         /\ Ones(n) \in Seq({0, 1}) /\ Len(Ones(n)) = n /\ \A i \in 1..n : Ones(n)[i] = 1
<1>1. Zeros(n) \in [1..n -> {0, 1}] /\ Ones(n) \in [1..n -> {0, 1}]
  BY DEF Zeros, Ones
<1>2. \A i \in 1..n : Zeros(n)[i] = 0 /\ Ones(n)[i] = 1
  BY DEF Zeros, Ones
<1> QED BY <1>1, <1>2, Listed

\* A word between two fills of one bit.
Filled(u, n, bit) == u \in Seq({0, 1}) /\ Len(u) = n /\ \A i \in 1..n : u[i] = bit
IsFrame(x, a, l, b, bit, v) ==
  /\ x \in Seq({0, 1}) /\ Len(x) = a + l + b
  /\ \A i \in 1..a + l + b : x[i] = IF a + 1 <= i /\ i <= a + l THEN v[i - a] ELSE bit

\* The three parts of such a word, bit by bit.
LEMMA Framed ==
  ASSUME NEW a \in Nat, NEW b \in Nat, NEW bit \in {0, 1}, NEW l \in Nat,
         NEW u, Filled(u, a, bit), NEW v \in Seq({0, 1}), Len(v) = l, NEW w, Filled(w, b, bit)
  PROVE  IsFrame(u \o v \o w, a, l, b, bit, v)
<1>0. /\ u \in Seq({0, 1}) /\ Len(u) = a /\ \A i \in 1..a : u[i] = bit
      /\ w \in Seq({0, 1}) /\ Len(w) = b /\ \A i \in 1..b : w[i] = bit
  BY Zenon DEF Filled
<1> DEFINE x == u \o v
           y == x \o w
<1>1. x \in Seq({0, 1}) /\ Len(x) = a + l /\ (\A i \in 1..a : x[i] = u[i])
      /\ (\A i \in a + 1..a + l : x[i] = v[i - a])
  <2>1. /\ u \o v \in Seq({0, 1}) /\ Len(u \o v) = Len(u) + Len(v)
        /\ \A i \in 1..Len(u) : (u \o v)[i] = u[i]
        /\ \A i \in Len(u) + 1..Len(u) + Len(v) : (u \o v)[i] = v[i - Len(u)]
    BY <1>0, Behind, ZenonT(60)
  <2> QED BY <1>0, <2>1, Zenon
<1> HIDE DEF x
<1>2. y \in Seq({0, 1}) /\ Len(y) = a + l + b /\ (\A i \in 1..a + l : y[i] = x[i])
      /\ (\A i \in a + l + 1..a + l + b : y[i] = w[i - (a + l)])
  <2>1. /\ x \o w \in Seq({0, 1}) /\ Len(x \o w) = Len(x) + Len(w)
        /\ \A i \in 1..Len(x) : (x \o w)[i] = x[i]
        /\ \A i \in Len(x) + 1..Len(x) + Len(w) : (x \o w)[i] = w[i - Len(x)]
    <3>1. x \in Seq({0, 1}) /\ w \in Seq({0, 1})
      BY <1>0, <1>1
    <3> QED BY <3>1, Behind, Zenon
  <2> QED BY <1>0, <1>1, <2>1, ZenonT(60)
<1> HIDE DEF y
<1>3. ASSUME NEW i \in 1..a + l + b
      PROVE  y[i] = IF a + 1 <= i /\ i <= a + l THEN v[i - a] ELSE bit
  <2>1. CASE i <= a
    <3>1. i \in 1..a /\ i \in 1..a + l
      BY <2>1
    <3>2. y[i] = bit
      BY <1>0, <1>1, <1>2, <3>1, ZenonT(60)
    <3> QED BY <2>1, <3>2
  <2>2. CASE a + 1 <= i /\ i <= a + l
    <3>1. i \in a + 1..a + l /\ i \in 1..a + l
      BY <2>2
    <3> QED BY <1>1, <1>2, <2>2, <3>1, Zenon
  <2>3. CASE a + l + 1 <= i
    <3>1. i \in a + l + 1..a + l + b /\ i - (a + l) \in 1..b /\ ~(i <= a + l)
      BY <2>3
    <3> QED BY <1>0, <1>2, <3>1, Zenon
  <2> QED BY <2>1, <2>2, <2>3
<1>4. y \in Seq({0, 1}) /\ Len(y) = a + l + b
  BY <1>2
<1> QED BY <1>3, <1>4, Zenon DEF x, y, IsFrame

\* One bit out of the chain at the front, one in at the back.
LEMMA ShiftStep ==
  ASSUME NEW c \in Seq({0, 1}), NEW first \in Seq({0, 1}), NEW word \in Seq({0, 1}),
         NEW k \in Nat, k < Len(word), Len(first) > 0, Shifted(c, first, word, k), NEW bit, bit = word[k + 1]
  PROVE  /\ Shifted(Append(Tail(c), bit), first, word, k + 1)
         /\ c[1] = (first \o word)[k + 1]
<1> DEFINE l == Len(first)
           n == Len(word)
           s == first \o word
           d == Append(Tail(c), bit)
<1>1. l \in Nat /\ n \in Nat /\ l > 0 /\ Len(c) = l
  BY LenProperties DEF Shifted
<1>2. \A i \in l + 1..l + n : s[i] = word[i - l]
  BY Behind
<1>3. \A i \in 1..l : c[i] = s[i + k]
  BY DEF Shifted
<1>4. /\ Tail(c) \in Seq({0, 1}) /\ Len(Tail(c)) = l - 1
      /\ \A i \in 1..l - 1 : Tail(c)[i] = c[i + 1]
  <2>1. c # <<>>
    BY <1>1, EmptySeq
  <2> QED BY <1>1, <2>1, HeadTailProperties
<1>5. word[k + 1] \in {0, 1}
  <2>1. k + 1 \in 1..n
    BY <1>1
  <2> QED BY <2>1, ElementOfSeq
<1>6. Len(d) = l /\ d[l] = bit /\ \A i \in 1..l - 1 : d[i] = Tail(c)[i]
  <2> DEFINE t == Tail(c)
  <2>1. t \in Seq({0, 1}) /\ Len(t) = l - 1
    BY <1>4
  <2> HIDE DEF t
  <2>2. /\ Len(Append(t, bit)) = Len(t) + 1 /\ Append(t, bit)[Len(t) + 1] = bit
        /\ \A i \in 1..Len(t) : Append(t, bit)[i] = t[i]
    BY <1>5, <2>1, AppendProperties
  <2>3. Len(t) + 1 = l
    BY <1>1, <2>1
  <2> QED BY <2>1, <2>2, <2>3, Zenon DEF t
<1> HIDE DEF l, n, s, d
<1>7. ASSUME NEW i \in 1..l PROVE d[i] = s[i + (k + 1)]
  <2>1. CASE i = l
    <3> DEFINE j == i + (k + 1)
    <3>1. j \in l + 1..l + n /\ j - l = k + 1
      BY <1>1, <2>1 DEF n
    <3> HIDE DEF j
    <3>2. s[j] = word[j - l]
      BY <1>2, <3>1, Zenon
    <3>3. s[j] = word[k + 1]
      BY <3>1, <3>2, Zenon
    <3> QED BY <1>6, <2>1, <3>3, Zenon DEF j
  <2>2. CASE i # l
    <3>1. i \in 1..l - 1 /\ i + 1 \in 1..l /\ (i + 1) + k = i + (k + 1)
      BY <1>1, <2>2
    <3>2. d[i] = c[i + 1] /\ c[i + 1] = s[(i + 1) + k]
      BY <1>3, <1>4, <1>6, <3>1, Zenon
    <3> QED BY <3>1, <3>2, Zenon
  <2> QED BY <2>1, <2>2
<1>8. c[1] = s[k + 1]
  <2>1. 1 \in 1..l /\ 1 + k = k + 1
    BY <1>1
  <2> QED BY <1>3, <2>1, Zenon
<1> QED BY <1>6, <1>7, <1>8, Zenon DEF l, s, d, Shifted


\* Words that agree bit by bit.
LEMMA Same ==
  ASSUME NEW S, NEW n, NEW f \in [1..n -> S], NEW g \in [1..n -> S], \A i \in 1..n : f[i] = g[i]
  PROVE  f = g
<1>1. f = [i \in 1..n |-> f[i]] /\ g = [i \in 1..n |-> g[i]]
  OBVIOUS
<1>2. [i \in 1..n |-> f[i]] = [i \in 1..n |-> g[i]]
  BY Zenon
<1> QED BY <1>1, <1>2, Zenon

\* A slice of n bits.
LEMMA Slice ==
  ASSUME NEW r \in Seq({0, 1}), NEW o \in Nat, NEW n \in Nat, o + n <= Len(r)
  PROVE  /\ SubSeq(r, o + 1, o + n) \in [1..n -> {0, 1}]
         /\ \A i \in 1..n : SubSeq(r, o + 1, o + n)[i] = r[o + i]
<1> DEFINE l == o + 1
           h == o + n
           s == SubSeq(r, l, h)
<1>1. Len(r) \in Nat
  BY LenProperties
<1>2. \A i \in l..h : r[i] \in {0, 1}
  <2>1. \A i \in l..h : i \in 1..Len(r)
    BY <1>1
  <2> QED BY <2>1, ElementOfSeq
<1>3. l \in Int /\ h \in Int /\ h - l + 1 = n /\ (\A i \in 1..n : l + i - 1 = o + i)
      /\ (IF l <= h THEN n ELSE 0) = n
  BY <1>1
<1>4. s \in Seq({0, 1}) /\ Len(s) = n /\ \A i \in 1..n : s[i] = r[o + i]
  <2> HIDE DEF l, h
  <2>1. /\ s \in Seq({0, 1})
        /\ Len(s) = IF l <= h THEN h - l + 1 ELSE 0
        /\ \A i \in 1..h - l + 1 : s[i] = r[l + i - 1]
    BY <1>2, <1>3, SubSeqProperties
  <2> HIDE DEF s
  <2> QED BY <1>3, <2>1, Zenon
<1> HIDE DEF s
<1>5. s \in [1..n -> {0, 1}]
  BY <1>4, LenProperties
<1> QED BY <1>4, <1>5, Zenon DEF s, l, h

\* The types of what the host knows of the chain and of what it sends.
Sent == after \in 0..2 /\ before \in 0..2 /\ index \in 0..2 /\ value \in Bits(DmiLen)

\* The instruction word: the DMI instruction between ones.
LEMMA IrWordOf ==
  ASSUME Sent
  PROVE  /\ IrWord \in Seq({0, 1}) /\ IrBits \in Nat /\ IrBits > 0
         /\ IrBits = after * IrLen + IrLen + before * IrLen
         /\ \A i \in 1..IrBits :
              IrWord[i] = IF after * IrLen + 1 <= i /\ i <= after * IrLen + IrLen
                          THEN DMI[i - after * IrLen] ELSE 1
<1> DEFINE a == after * IrLen
           b == before * IrLen
           u == Ones(a)
           w == Ones(b)
<1>1. IrLen \in Nat /\ IrLen > 0 /\ DMI \in Seq({0, 1}) /\ Len(DMI) = IrLen
  BY Codes
<1>2. a \in Nat /\ b \in Nat
  <2>1. (after = 0 \/ after = 1 \/ after = 2) /\ (before = 0 \/ before = 1 \/ before = 2)
    BY DEF Sent
  <2> QED BY <1>1, <2>1
<1> HIDE DEF a, b
<1>3. /\ u \in Seq({0, 1}) /\ Len(u) = a /\ \A i \in 1..a : u[i] = 1
      /\ w \in Seq({0, 1}) /\ Len(w) = b /\ \A i \in 1..b : w[i] = 1
  BY <1>2, Fill
<1> HIDE DEF u, w
<1>4. /\ u \o DMI \o w \in Seq({0, 1}) /\ Len(u \o DMI \o w) = a + IrLen + b
      /\ \A i \in 1..a + IrLen + b :
           (u \o DMI \o w)[i] = IF a + 1 <= i /\ i <= a + IrLen THEN DMI[i - a] ELSE 1
  <2>1. IrLen \in Nat /\ 1 \in {0, 1}
    BY <1>1
  <2>2. /\ a \in Nat /\ b \in Nat /\ 1 \in {0, 1} /\ IrLen \in Nat
        /\ u \in Seq({0, 1}) /\ Len(u) = a /\ \A i \in 1..a : u[i] = 1
        /\ DMI \in Seq({0, 1}) /\ Len(DMI) = IrLen
        /\ w \in Seq({0, 1}) /\ Len(w) = b /\ \A i \in 1..b : w[i] = 1
    BY <1>1, <1>2, <1>3, <2>1, Zenon
  <2>3. Filled(u, a, 1) /\ Filled(w, b, 1)
    BY <2>2, Zenon DEF Filled
  <2>4. IsFrame(u \o DMI \o w, a, IrLen, b, 1, DMI)
    BY <2>2, <2>3, Framed
  <2> QED BY <2>4, Zenon DEF IsFrame
<1>5. IrWord = u \o DMI \o w
  BY Zenon DEF IrWord, u, w, a, b
<1>6. a + IrLen + b \in Nat /\ a + IrLen + b > 0
  BY <1>1, <1>2
<1>7. IrBits = a + IrLen + b /\ IrWord \in Seq({0, 1})
  BY <1>4, <1>5, Zenon DEF IrBits
<1> QED BY <1>4, <1>5, <1>6, <1>7, Zenon DEF a, b

\* A word for the target's register between zeros.
LEMMA DrFrame ==
  ASSUME Sent, NEW word \in Bits(DmiLen)
  PROVE  LET x == Zeros(after) \o word \o Zeros(before)
         IN  /\ x \in Seq({0, 1}) /\ Len(x) = DrBits /\ DrBits \in Nat /\ DrBits > 0
             /\ \A i \in 1..DrBits :
                  x[i] = IF after + 1 <= i /\ i <= after + DmiLen THEN word[i - after] ELSE 0
<1> DEFINE u == Zeros(after)
           w == Zeros(before)
<1>1. DmiLen \in Nat /\ DmiLen > 0 /\ after \in Nat /\ before \in Nat /\ 0 \in {0, 1}
  BY ChainAssumption DEF Sent
<1>2. word \in Seq({0, 1}) /\ Len(word) = DmiLen
  BY <1>1, Listed DEF Bits
<1>3. /\ u \in Seq({0, 1}) /\ Len(u) = after /\ \A i \in 1..after : u[i] = 0
      /\ w \in Seq({0, 1}) /\ Len(w) = before /\ \A i \in 1..before : w[i] = 0
  BY <1>1, Fill
<1> HIDE DEF u, w
<1>4. /\ u \o word \o w \in Seq({0, 1}) /\ Len(u \o word \o w) = after + DmiLen + before
      /\ \A i \in 1..after + DmiLen + before :
           (u \o word \o w)[i] = IF after + 1 <= i /\ i <= after + DmiLen THEN word[i - after] ELSE 0
  <2>1. /\ after \in Nat /\ before \in Nat /\ 0 \in {0, 1} /\ DmiLen \in Nat
        /\ u \in Seq({0, 1}) /\ Len(u) = after /\ \A i \in 1..after : u[i] = 0
        /\ word \in Seq({0, 1}) /\ Len(word) = DmiLen
        /\ w \in Seq({0, 1}) /\ Len(w) = before /\ \A i \in 1..before : w[i] = 0
    BY <1>1, <1>2, <1>3, Zenon
  <2>3. Filled(u, after, 0) /\ Filled(w, before, 0)
    BY <2>1, Zenon DEF Filled
  <2>4. IsFrame(u \o word \o w, after, DmiLen, before, 0, word)
    BY <2>1, <2>3, Framed
  <2> QED BY <2>4, Zenon DEF IsFrame
<1>5. DrBits = after + DmiLen + before /\ DrBits \in Nat /\ DrBits > 0
  BY <1>1 DEF DrBits
<1> QED BY <1>4, <1>5, Zenon DEF u, w

\* The layout the host found is that of the chain.
Lay == after + before + 1 = NTaps /\ after = Target /\ Target \in TapNo

\* Then the instruction word covers the instruction registers ...
LEMMA IrCovers ==
  ASSUME Sent, Lay, board \in Boards
  PROVE  IrBits = NTaps * IrLen /\ Len(IrChain) = IrBits
<1>1. IrLen \in Nat /\ IrBits = after * IrLen + IrLen + before * IrLen
  BY Codes, IrWordOf
<1>2. (after = 0 \/ after = 1 \/ after = 2) /\ (before = 0 \/ before = 1 \/ before = 2)
  BY DEF Sent
<1>3. NTaps = after + before + 1
  BY <1>2 DEF Lay
<1> HIDE DEF IrBits, NTaps
<1>4. IrBits = NTaps * IrLen
  BY <1>1, <1>2, <1>3
<1> QED BY <1>4, IrChainOf

\* ... and leaves DMI in the target and BYPASS in every other TAP.
LEMMA IrDelivered ==
  ASSUME Sent, Lay, board \in Boards, NEW c \in Seq({0, 1}), Shifted(c, IrChain, IrWord, IrBits),
         NEW t \in TapNo
  PROVE  SubSeq(c, t * IrLen + 1, (t + 1) * IrLen) = Selected[t]
<1> DEFINE o == t * IrLen
           m == IrBits
           a == after * IrLen
           s == SubSeq(c, o + 1, o + IrLen)
<1>1. /\ IrLen \in Nat /\ IrLen > 0 /\ m \in Nat /\ IrWord \in Seq({0, 1}) /\ Len(IrWord) = m
      /\ \A i \in 1..m : IrWord[i] = IF a + 1 <= i /\ i <= a + IrLen THEN DMI[i - a] ELSE 1
  BY Codes, IrWordOf DEF IrBits
<1>2. IrChain \in Seq({0, 1}) /\ Len(IrChain) = m
  BY IrChainOf, IrCovers
<1>3. Len(c) = m /\ \A i \in 1..m : c[i] = IrWord[i]
  <2>1. /\ \A i \in Len(IrChain) + 1..Len(IrChain) + Len(IrWord) :
             (IrChain \o IrWord)[i] = IrWord[i - Len(IrChain)]
    BY <1>1, <1>2, Behind
  <2>2. Len(c) = m /\ \A i \in 1..m : c[i] = (IrChain \o IrWord)[i + m]
    BY <1>2, Zenon DEF Shifted
  <2>3. \A i \in m + 1..m + m : (IrChain \o IrWord)[i] = IrWord[i - m]
    BY <1>1, <1>2, <2>1, Zenon
  <2> HIDE DEF m
  <2>4. \A i \in 1..m : i + m \in m + 1..m + m /\ (i + m) - m = i
    BY <1>1
  <2>5. ASSUME NEW i \in 1..m PROVE c[i] = IrWord[i]
    <3> DEFINE j == i + m
    <3>1. j \in m + 1..m + m /\ j - m = i /\ c[i] = (IrChain \o IrWord)[j]
      BY <2>2, <2>4
    <3> HIDE DEF j
    <3>2. (IrChain \o IrWord)[j] = IrWord[j - m]
      BY <2>3, <3>1, Zenon
    <3> QED BY <3>1, <3>2, Zenon
  <2> QED BY <2>2, <2>5, Zenon
<1>4. /\ t \in 0..NTaps - 1 /\ NTaps \in 1..3 /\ after = Target /\ Target \in 0..NTaps - 1
      /\ m = NTaps * IrLen
  BY BoardOf, IrCovers, Zenon DEF TapNo, Lay
<1>5. /\ (t = 0 \/ t = 1 \/ t = 2) /\ (after = 0 \/ after = 1 \/ after = 2)
      /\ (NTaps = 1 \/ NTaps = 2 \/ NTaps = 3)
  BY <1>4
<1>6. o \in Nat /\ a \in Nat /\ o + IrLen <= m /\ (t + 1) * IrLen = o + IrLen
      /\ (t < after => o + IrLen <= a) /\ (t > after => a + IrLen <= o) /\ (t = after => o = a)
  <2> DEFINE n == NTaps
  <2>1. /\ t <= n - 1 /\ m = n * IrLen /\ (n = 1 \/ n = 2 \/ n = 3)
    BY <1>4, <1>5
  <2> HIDE DEF n, m
  <2>2. o \in Nat /\ a \in Nat /\ (t + 1) * IrLen = o + IrLen
    BY <1>1, <1>5
  <2>3. o + IrLen <= m
    <3>1. (n = 1 => m = IrLen) /\ (n = 2 => m = IrLen + IrLen) /\ (n = 3 => m = IrLen + IrLen + IrLen)
      BY <1>1, <2>1
    <3>2. (t = 0 => o = 0) /\ (t = 1 => o = IrLen) /\ (t = 2 => o = IrLen + IrLen)
      BY <1>1
    <3> HIDE DEF o
    <3> QED BY <1>1, <1>5, <2>1, <3>1, <3>2
  <2>4. (t = 0 => o = 0) /\ (t = 1 => o = IrLen) /\ (t = 2 => o = IrLen + IrLen)
    BY <1>1
  <2>5. (after = 0 => a = 0) /\ (after = 1 => a = IrLen) /\ (after = 2 => a = IrLen + IrLen)
    BY <1>1
  <2> HIDE DEF a, o
  <2>6. (t < after => o + IrLen <= a) /\ (t > after => a + IrLen <= o) /\ (t = after => o = a)
    BY <1>1, <1>5, <2>4, <2>5
  <2> QED BY <2>2, <2>3, <2>6
<1> HIDE DEF o, m, a
<1>7. s \in [1..IrLen -> {0, 1}] /\ \A i \in 1..IrLen : s[i] = c[o + i]
  BY <1>1, <1>3, <1>6, Slice
<1>8. \A i \in 1..IrLen : o + i \in 1..m
  BY <1>1, <1>6
<1>9. \A i \in 1..IrLen : s[i] = IF a + 1 <= o + i /\ o + i <= a + IrLen THEN DMI[(o + i) - a] ELSE 1
  <2>1. ASSUME NEW i \in 1..IrLen
        PROVE  s[i] = IF a + 1 <= o + i /\ o + i <= a + IrLen THEN DMI[(o + i) - a] ELSE 1
    <3> DEFINE j == o + i
    <3>1. j \in 1..m /\ s[i] = c[j]
      BY <1>7, <1>8
    <3> HIDE DEF j
    <3>2. s[i] = IF a + 1 <= j /\ j <= a + IrLen THEN DMI[j - a] ELSE 1
      BY <1>1, <1>3, <3>1, Zenon
    <3> QED BY <3>2, Zenon DEF j
  <2> QED BY <2>1, Zenon
<1> HIDE DEF s
<1>10. s = Selected[t]
  <2>1. CASE t = after
    <3>1. \A i \in 1..IrLen : a + 1 <= o + i /\ o + i <= a + IrLen /\ (o + i) - a = i
      BY <1>1, <1>6, <2>1
    <3>2. \A i \in 1..IrLen : s[i] = DMI[i]
      BY <1>9, <3>1, Zenon
    <3>3. DMI \in [1..IrLen -> {0, 1}]
      BY Codes, Zenon DEF Bits
    <3>4. s = DMI
      BY <1>1, <1>7, <3>2, <3>3, Same
    <3> QED BY <1>4, <2>1, <3>4, Zenon DEF Selected
  <2>2. CASE t # after
    <3>1. \A i \in 1..IrLen : ~(a + 1 <= o + i /\ o + i <= a + IrLen)
      BY <1>1, <1>4, <1>5, <1>6, <2>2
    <3>2. \A i \in 1..IrLen : s[i] = 1
      BY <1>9, <3>1, Zenon
    <3>3. BYPASS \in [1..IrLen -> {0, 1}] /\ \A i \in 1..IrLen : BYPASS[i] = 1
      BY Codes DEF Bits, BYPASS, Ones
    <3>4. s = BYPASS
      BY <1>1, <1>7, <3>2, <3>3, Same
    <3> QED BY <1>4, <2>2, <3>4, Zenon DEF Selected
  <2> QED BY <2>1, <2>2
<1> QED BY <1>6, <1>10, Zenon DEF s, o

\* With DMI selected in the target and BYPASS elsewhere the data word covers the data
\* registers, and the target's register stands behind the bypass bits.
LEMMA DrSelected ==
  ASSUME Sent, Lay, Registers, ir = Selected
  PROVE  /\ Len(DrChain) = DrBits /\ DrBits \in Nat /\ DrBits > 0 /\ Offset(DrParts, Target) = after
         /\ Shifted(DrChain, DrFirst, DrWord, 0)
<1> DEFINE n == NTaps
           d == DmiLen
<1>1. /\ d \in Nat /\ d > 0 /\ n \in 1..3 /\ after \in 0..n - 1 /\ after \in Nat /\ before \in Nat
      /\ n = after + before + 1 /\ Target = after /\ TapNo = 0..n - 1
  <2>1. d \in Nat /\ d > 0 /\ n \in 1..3 /\ after \in Nat /\ before \in Nat
    BY ChainAssumption, BoardOf DEF Registers, Sent
  <2>2. Target = after /\ TapNo = 0..n - 1 /\ after \in TapNo /\ after + before + 1 = n
    BY Zenon DEF TapNo, Lay
  <2> HIDE DEF n, d
  <2> QED BY <2>1, <2>2
<1>2. \A t \in TapNo : Selected[t] = IF t = after THEN DMI ELSE BYPASS
  BY <1>1 DEF Selected
<1>3. \A t \in TapNo : /\ DrParts[t] = IF t = after THEN response ELSE <<0>>
                       /\ Len(DrParts[t]) = IF t = after THEN d ELSE 1
                       /\ DrParts[t] = DrOf(t)
  <2>1. ASSUME NEW t \in TapNo
        PROVE  /\ DrOf(t) = IF t = after THEN response ELSE <<0>>
               /\ Len(DrOf(t)) = IF t = after THEN d ELSE 1
    <3>1. /\ ir[t] = DMI => DrOf(t) = response /\ Len(DrOf(t)) = DmiLen
          /\ ir[t] # IDCODE /\ ir[t] # DMI => DrOf(t) = <<0>> /\ Len(DrOf(t)) = 1
      BY DrOfType
    <3>2. ir[t] = IF t = after THEN DMI ELSE BYPASS
      BY <1>2, Zenon
    <3>3. BYPASS # IDCODE /\ BYPASS # DMI
      BY Codes
    <3> QED BY <3>1, <3>2, <3>3, Zenon
  <2>2. \A t \in TapNo : DrParts[t] = DrOf(t)
    BY DEF DrParts
  <2> QED BY <2>1, <2>2, Zenon
<1>4. \A t \in 0..n : Offset(DrParts, t) = IF t <= after THEN t ELSE t - 1 + d
  <2> DEFINE x == Len(DrParts[0])
             y == Len(DrParts[1])
             z == Len(DrParts[2])
  <2>1. /\ n >= 1 => x = IF 0 = after THEN d ELSE 1
        /\ n >= 2 => y = IF 1 = after THEN d ELSE 1
        /\ n >= 3 => z = IF 2 = after THEN d ELSE 1
    <3>1. (n >= 1 => 0 \in TapNo) /\ (n >= 2 => 1 \in TapNo) /\ (n >= 3 => 2 \in TapNo)
      BY <1>1
    <3> QED BY <1>3, <3>1, Zenon
  <2>2. ASSUME NEW t \in 0..n PROVE Offset(DrParts, t) = IF t <= after THEN t ELSE t - 1 + d
    <3>1. /\ t = 0 => Offset(DrParts, t) = 0
          /\ t = 1 => Offset(DrParts, t) = x
          /\ t = 2 => Offset(DrParts, t) = x + y
          /\ t = 3 => Offset(DrParts, t) = x + y + z
      <4>1. /\ Offset(DrParts, 0) = 0 /\ Offset(DrParts, 1) = x /\ Offset(DrParts, 2) = x + y
            /\ Offset(DrParts, 3) = x + y + z
        BY DEF Offset
      <4> QED BY <4>1, Zenon
    <3> DEFINE o == Offset(DrParts, t)
    <3>2. t = 0 \/ t = 1 \/ t = 2 \/ t = 3
      BY <1>1
    <3> HIDE DEF x, y, z, n, d, o
    <3>3. o = IF t <= after THEN t ELSE t - 1 + d
      <4>1. /\ t = 0 => o = 0
            /\ t = 1 => o = x
            /\ t = 2 => o = x + y
            /\ t = 3 => o = x + y + z
        BY <3>1, Zenon DEF o
      <4>2. t \in 0..n
        OBVIOUS
      <4>3. CASE t = 0
        BY <1>1, <4>1, <4>3
      <4>4. CASE t = 1
        BY <1>1, <2>1, <4>1, <4>2, <4>4
      <4>5. CASE t = 2
        BY <1>1, <2>1, <4>1, <4>2, <4>5
      <4>6. CASE t = 3
        BY <1>1, <2>1, <4>1, <4>2, <4>6
      <4> QED BY <3>2, <4>3, <4>4, <4>5, <4>6
    <3> QED BY <3>3, Zenon DEF o
  <2> QED BY <2>2
<1>5. DrBits = after + d + before /\ Len(DrChain) = DrBits /\ DrBits \in Nat /\ DrBits > 0
  <2>1. Len(DrChain) = Offset(DrParts, n)
    BY DrChainOf
  <2>2. n \in 0..n /\ ~(n <= after) /\ n - 1 + d = after + d + before
        /\ after + d + before \in Nat /\ after + d + before > 0
    <3> HIDE DEF n, d
    <3> QED BY <1>1
  <2>3. DrBits = after + d + before
    BY DEF DrBits
  <2> QED BY <1>4, <2>1, <2>2, <2>3, Zenon
<1>6. Offset(DrParts, Target) = after
  <2>1. after \in 0..n /\ after <= after
    <3> HIDE DEF n
    <3> QED BY <1>1
  <2> QED BY <1>1, <1>4, <2>1, Zenon
<1>7. /\ DrFirst \in Seq({0, 1}) /\ Len(DrFirst) = DrBits
      /\ \A i \in 1..DrBits : DrFirst[i] = IF after + 1 <= i /\ i <= after + d THEN response[i - after] ELSE 0
  <2>1. response \in Bits(DmiLen)
    BY DEF Registers
  <2> QED BY <2>1, DrFrame, Zenon DEF DrFirst
<1>8. DrWord \in Seq({0, 1}) /\ Len(DrWord) = DrBits
  <2>1. value \in Bits(DmiLen)
    BY DEF Sent
  <2> QED BY <2>1, DrFrame, Zenon DEF DrWord
<1>9. \A t \in TapNo : \A i \in 1..Len(DrParts[t]) : DrChain[Offset(DrParts, t) + i] = DrParts[t][i]
  BY <1>3, DrChainOf, Zenon
<1>10. ASSUME NEW i \in 1..DrBits PROVE DrChain[i] = DrFirst[i]
  <2> DEFINE t == IF i <= after THEN i - 1 ELSE IF i <= after + d THEN after ELSE i - d
             k == IF after + 1 <= i /\ i <= after + d THEN i - after ELSE 1
             o == IF t <= after THEN t ELSE t - 1 + d
             l == IF t = after THEN d ELSE 1
  <2>1. /\ t \in TapNo /\ t \in 0..n /\ k \in 1..l /\ o + k = i
        /\ (t = after <=> after + 1 <= i /\ i <= after + d)
        /\ (t # after => k = 1) /\ (t = after => k = i - after)
    <3> HIDE DEF n, d
    <3> QED BY <1>1, <1>5
  <2>2. Offset(DrParts, t) = o
    BY <1>4, <2>1, Zenon
  <2>3. Len(DrParts[t]) = l /\ DrParts[t] = IF t = after THEN response ELSE <<0>>
    BY <1>3, <2>1, Zenon
  <2> HIDE DEF t, k, o, l
  <2>4. DrChain[o + k] = DrParts[t][k]
    BY <1>9, <2>1, <2>2, <2>3, Zenon
  <2>5. CASE after + 1 <= i /\ i <= after + d
    BY <1>7, <2>1, <2>3, <2>4, <2>5, Zenon
  <2>6. CASE ~(after + 1 <= i /\ i <= after + d)
    <3>1. <<0>>[1] = 0
      OBVIOUS
    <3> QED BY <1>7, <2>1, <2>3, <2>4, <2>6, <3>1, Zenon
  <2> QED BY <2>5, <2>6
<1>11. Shifted(DrChain, DrFirst, DrWord, 0)
  <2>1. \A i \in 1..Len(DrFirst) : (DrFirst \o DrWord)[i] = DrFirst[i]
    BY <1>7, <1>8, Behind
  <2>2. \A i \in 1..DrBits : i + 0 = i
    BY <1>5
  <2>3. \A i \in 1..DrBits : DrChain[i] = (DrFirst \o DrWord)[i + 0]
    BY <1>7, <1>10, <2>1, <2>2, Zenon
  <2> QED BY <1>5, <1>7, <2>3, Zenon DEF Shifted
<1> QED BY <1>5, <1>6, <1>11

\* The IDCODE of TAP k among the bits shifted out, zeros once the chain is exhausted.
LEMMA IdAt ==
  ASSUME board \in Boards, NEW c \in Seq({0, 1}), NEW n \in Nat, NEW k \in 0..2,
         (k + 1) * IdLen <= n, Len(c) = n, \A i \in 1..n : c[i] = (IdChain \o Zeros(n))[i]
  PROVE  SubSeq(c, k * IdLen + 1, (k + 1) * IdLen) = IF k < NTaps THEN IdCode(k) ELSE Zeros(IdLen)
<1> DEFINE o == k * IdLen
           e == NTaps * IdLen
           s == SubSeq(c, o + 1, o + IdLen)
<1>1. IdLen \in Nat /\ IdLen > 0 /\ NTaps \in 1..3
  BY ChainAssumption, BoardOf
<1>2. (NTaps = 1 \/ NTaps = 2 \/ NTaps = 3) /\ (k = 0 \/ k = 1 \/ k = 2)
  BY <1>1
<1>3. /\ o \in Nat /\ (k + 1) * IdLen = o + IdLen /\ o + IdLen <= n /\ e \in Nat
      /\ (k < NTaps => o + IdLen <= e) /\ (~(k < NTaps) => e <= o)
  <2> DEFINE m == NTaps
  <2>1. /\ (m = 1 => e = IdLen) /\ (m = 2 => e = IdLen + IdLen) /\ (m = 3 => e = IdLen + IdLen + IdLen)
        /\ (k = 0 => o = 0) /\ (k = 1 => o = IdLen) /\ (k = 2 => o = IdLen + IdLen)
        /\ (k + 1) * IdLen = o + IdLen
    BY <1>1, <1>2
  <2> HIDE DEF m, e, o
  <2>2. /\ o \in Nat /\ e \in Nat /\ (k < m => o + IdLen <= e) /\ (~(k < m) => e <= o)
    BY <1>1, <1>2, <2>1 DEF m
  <2> QED BY <2>1, <2>2 DEF m
<1>4. /\ IdChain \in Seq({0, 1}) /\ Len(IdChain) = e
      /\ \A t \in TapNo : \A i \in 1..IdLen : IdChain[t * IdLen + i] = IdCode(t)[i]
  BY IdChainOf
<1>5. Zeros(n) \in Seq({0, 1}) /\ Len(Zeros(n)) = n /\ \A i \in 1..n : Zeros(n)[i] = 0
  BY Fill
<1>6. /\ \A i \in 1..e : (IdChain \o Zeros(n))[i] = IdChain[i]
      /\ \A i \in e + 1..e + n : (IdChain \o Zeros(n))[i] = Zeros(n)[i - e]
  <2>1. /\ \A i \in 1..Len(IdChain) : (IdChain \o Zeros(n))[i] = IdChain[i]
        /\ \A i \in Len(IdChain) + 1..Len(IdChain) + Len(Zeros(n)) :
             (IdChain \o Zeros(n))[i] = Zeros(n)[i - Len(IdChain)]
    BY <1>4, <1>5, Behind
  <2> QED BY <1>4, <1>5, <2>1, Zenon
<1>7. TapNo = 0..NTaps - 1
  BY DEF TapNo
<1> DEFINE cat == IdChain \o Zeros(n)
<1> HIDE DEF o, e, cat
<1>8. s \in [1..IdLen -> {0, 1}] /\ \A i \in 1..IdLen : s[i] = c[o + i]
  BY <1>1, <1>3, Slice
<1> HIDE DEF s
<1>9. \A i \in 1..IdLen : s[i] = cat[o + i]
  <2>1. \A i \in 1..IdLen : o + i \in 1..n
    BY <1>1, <1>3
  <2> QED BY <1>8, <2>1, Zenon DEF cat
<1>10. CASE k < NTaps
  <2>1. k \in TapNo /\ \A i \in 1..IdLen : o + i \in 1..e
    BY <1>1, <1>3, <1>7, <1>10
  <2>2. \A i \in 1..IdLen : IdChain[o + i] = IdCode(k)[i]
    BY <1>4, <2>1, Zenon DEF o
  <2>3. \A i \in 1..IdLen : s[i] = IdCode(k)[i]
    BY <1>6, <1>9, <2>1, <2>2, Zenon DEF cat
  <2>4. IdCode(k) \in [1..IdLen -> {0, 1}]
    BY <2>1, BoardOf, Zenon DEF Bits
  <2>5. s = IdCode(k)
    <3>1. s \in [1..IdLen -> {0, 1}]
      BY <1>8, Zenon
    <3> QED BY <1>1, <2>3, <2>4, <3>1, Same
  <2> QED BY <1>3, <1>10, <2>5, Zenon DEF s, o
<1>11. CASE ~(k < NTaps)
  <2>1. \A i \in 1..IdLen : o + i \in e + 1..e + n /\ (o + i) - e \in 1..n
    BY <1>1, <1>3, <1>11
  <2>2. ASSUME NEW i \in 1..IdLen PROVE s[i] = 0
    <3> DEFINE j == o + i
    <3>1. j \in e + 1..e + n /\ j - e \in 1..n /\ s[i] = cat[j]
      BY <1>9, <2>1
    <3> HIDE DEF j
    <3> QED BY <1>5, <1>6, <3>1, Zenon DEF cat
  <2>3. Zeros(IdLen) \in [1..IdLen -> {0, 1}] /\ \A i \in 1..IdLen : Zeros(IdLen)[i] = 0
    BY <1>1 DEF Zeros
  <2>4. s = Zeros(IdLen)
    <3>1. \A i \in 1..IdLen : s[i] = Zeros(IdLen)[i]
      BY <2>2, <2>3, Zenon
    <3>2. s \in [1..IdLen -> {0, 1}] /\ Zeros(IdLen) \in [1..IdLen -> {0, 1}]
      BY <1>8, <2>3, Zenon
    <3> QED BY <1>1, <3>1, <3>2, Same
  <2> QED BY <1>3, <1>11, <2>4, Zenon DEF s, o
<1> QED BY <1>10, <1>11

\* What no clock changes.
LEMMA Kept ==
  ASSUME Tick
  PROVE  /\ Stream' = Stream /\ IdBits' = IdBits /\ IrWord' = IrWord /\ DrWord' = DrWord
         /\ IrBits' = IrBits /\ DrBits' = DrBits /\ DrFirst' = DrFirst
         /\ IrChain' = IrChain /\ IdChain' = IdChain /\ Known' = Known /\ Target' = Target
         /\ NTaps' = NTaps /\ TapNo' = TapNo /\ AllIdcode' = AllIdcode /\ Selected' = Selected
<1>1. UNCHANGED <<after, before, index, session, value, board, response>>
  BY DEF Tick, hostVars
<1>2. IdBits' = IdBits /\ IrWord' = IrWord /\ DrWord' = DrWord /\ DrBits' = DrBits
  BY <1>1 DEF IdBits, IrWord, DrWord, DrBits
<1>3. DrFirst' = DrFirst
  BY <1>1 DEF DrFirst
<1>4. IrBits' = IrBits
  BY <1>2 DEF IrBits
<1>5. Stream' = Stream
  BY <1>1, <1>2 DEF Stream
<1>6. NTaps' = NTaps /\ TapNo' = TapNo /\ Override' = Override
  BY <1>1 DEF NTaps, TapNo, Override
<1>7. \A t : IdCode(t)' = IdCode(t)
  BY <1>1 DEF IdCode
<1>8. Known' = Known /\ Target' = Target
  BY <1>1 DEF Known, Target, NTaps, IdCode, Override
<1>9. AllIdcode' = AllIdcode /\ Selected' = Selected
  BY <1>6, <1>8 DEF AllIdcode, Selected
<1>10. IrChain' = IrChain
  BY <1>1 DEF IrChain, OverChain, TapNo, NTaps, IrCapture
<1>11. IdChain' = IdChain
  BY <1>1 DEF IdChain, OverChain, TapNo, NTaps, IdCode
<1> QED BY <1>2, <1>3, <1>4, <1>5, <1>6, <1>8, <1>9, <1>10, <1>11

\* What the type invariant says of the registers and of the host.
LEMMA Types ==
  ASSUME TypeOK
  PROVE  /\ Registers /\ Sent /\ board \in Boards /\ wire \in Seq(Nibble) /\ tap \in TapState
         /\ captured \in Seq({0, 1}) /\ chain \in Seq({0, 1})
BY DEF TypeOK, Registers, Sent, Nibble

\* What a session of each kind sends.
LEMMA IdSends ==
  ASSUME Sent, session \in {"detect", "idcode"}
  PROVE  /\ IdBits \in Nat /\ IdBits > 0 /\ Stream \in Seq(Nibble) /\ Len(Stream) = IdBits + 11
         /\ \A p \in 1..IdBits + 11 :
              /\ Stream[p].tms = IF p <= 5 \/ p = 7 \/ p = IdBits + 9 \/ p = IdBits + 10 THEN 1 ELSE 0
              /\ Stream[p].tdi = 0
              /\ Stream[p].cap <=> 10 <= p /\ p <= IdBits + 9
<1>1. IdBits \in Nat /\ IdBits > 0
  <2>1. IdLen \in Nat /\ IdLen > 0 /\ (index = 0 \/ index = 1 \/ index = 2)
    BY ChainAssumption DEF Sent
  <2> QED BY <2>1 DEF IdBits
<1>2. Stream = IdStream(IdBits)
  BY DEF Stream
<1> QED BY <1>1, <1>2, IdNibbles, Zenon

\* The nibbles of a DMI access.
LEMMA DmiSends ==
  ASSUME Sent, session = "dmi"
  PROVE  LET m == IrBits
             n == DrBits
         IN  /\ m \in Nat /\ m > 0 /\ n \in Nat /\ n > 0 /\ IrWord \in Seq({0, 1}) /\ Len(IrWord) = m
             /\ DrWord \in Seq({0, 1}) /\ Len(DrWord) = n
             /\ Stream \in Seq(Nibble) /\ Len(Stream) = m + n + 18
             /\ \A p \in 1..m + n + 18 :
                 /\ Stream[p].tms =
                      IF p <= 5 \/ p = 7 \/ p = 8 \/ p = m + 10 \/ p = m + 11 \/ p = m + 13
                         \/ p = m + n + 15 \/ p = m + n + 16 THEN 1 ELSE 0
                 /\ Stream[p].tdi =
                      IF 11 <= p /\ p <= m + 10 THEN IrWord[p - 10]
                      ELSE IF m + 16 <= p /\ p <= m + n + 15 THEN DrWord[p - (m + 15)] ELSE 0
                 /\ Stream[p].cap <=> /\ m + 16 <= p /\ p <= m + n + 15
                                      /\ m + after + 16 <= p /\ p <= m + (after + DmiLen) + 15
<1>1. IrWord \in Seq({0, 1}) /\ IrBits \in Nat /\ IrBits > 0 /\ Len(IrWord) = IrBits
  BY IrWordOf DEF IrBits
<1>2. DrWord \in Seq({0, 1}) /\ DrBits \in Nat /\ DrBits > 0 /\ Len(DrWord) = DrBits
  <2>1. value \in Bits(DmiLen)
    BY DEF Sent
  <2> QED BY <2>1, DrFrame, Zenon DEF DrWord
<1>3. after \in Nat /\ after + DmiLen \in Nat
  BY ChainAssumption DEF Sent
<1>4. Stream = DmiStream(IrWord, DrWord, after, after + DmiLen)
  BY DEF Stream
<1> DEFINE s == DmiStream(IrWord, DrWord, after, after + DmiLen)
           m == IrBits
           n == DrBits
<1>5. /\ IrWord \in Seq({0, 1}) /\ DrWord \in Seq({0, 1}) /\ after \in Nat /\ after + DmiLen \in Nat
      /\ m = Len(IrWord) /\ n = Len(DrWord) /\ m > 0 /\ n > 0
  BY <1>1, <1>2, <1>3
<1>6. IsDmiStream(s, IrWord, DrWord, after, after + DmiLen, m, n)
  BY <1>5, DmiNibbles
<1> QED BY <1>1, <1>2, <1>4, <1>6, Zenon DEF IsDmiStream

\* A clock takes the next nibble of what the session sends.
LEMMA StepFacts ==
  ASSUME TypeOK, WireInv, Tick
  PROVE  /\ Busy /\ At \in Nat /\ At < Len(Stream) /\ Head(wire) = Stream[At + 1]
         /\ At' = At + 1 /\ WireInv'
<1>1. Sent /\ wire \in Seq(Nibble) /\ wire # <<>> /\ wire' = Tail(wire) /\ Stream' = Stream
  BY Types, Kept DEF Tick
<1>2. Busy
  BY <1>1 DEF WireInv
<1>3. Stream \in Seq(Nibble) /\ Len(Stream) \in Nat
  <2>1. session \in {"detect", "idcode"} \/ session = "dmi"
    BY <1>2 DEF Busy
  <2>2. Stream \in Seq(Nibble)
    BY <1>1, <2>1, IdSends, DmiSends, Zenon
  <2> QED BY <2>2, LenProperties
<1> DEFINE l == Len(Stream)
           w == Len(wire)
           v == Len(wire')
<1>4. w \in Nat /\ w > 0 /\ v = w - 1 /\ Head(wire) = wire[1] /\ \A i \in 1..v : wire'[i] = wire[i + 1]
  BY <1>1, HeadTailProperties, LenProperties, EmptySeq
<1>5. w <= l /\ \A i \in 1..w : wire[i] = Stream[At + i]
  BY <1>2 DEF WireInv
<1>6. At = l - w /\ At' = l - v
  BY <1>1 DEF At
<1> HIDE DEF l, w, v
<1>7. At \in Nat /\ At < l /\ At' = At + 1 /\ 1 \in 1..w
  BY <1>3, <1>4, <1>5, <1>6 DEF l
<1>8. Head(wire) = Stream[At + 1]
  BY <1>4, <1>5, <1>7
<1>9. WireInv'
  <2>1. UNCHANGED <<session, detected, state>>
    BY DEF Tick, hostVars
  <2>2. Busy' /\ (Busy' => state' = "idle") /\ (session' = "detect" => ~detected')
        /\ (session' \in {"idcode", "dmi"} => detected')
    BY <1>2, <2>1 DEF Busy, WireInv
  <2>3. v <= l /\ \A i \in 1..v : wire'[i] = Stream[At' + i]
    <3>1. v <= l
      BY <1>3, <1>4, <1>5 DEF l
    <3>2. ASSUME NEW i \in 1..v PROVE wire'[i] = Stream[At' + i]
      <4> DEFINE j == i + 1
      <4>1. j \in 1..w /\ At + j = At' + i
        BY <1>3, <1>4, <1>7 DEF l
      <4>2. wire'[i] = wire[j]
        BY <1>4
      <4> HIDE DEF j
      <4> QED BY <1>5, <4>1, <4>2, Zenon
    <3> QED BY <3>1, <3>2
  <2> QED BY <1>1, <2>2, <2>3 DEF WireInv, l, v
<1> QED BY <1>2, <1>7, <1>8, <1>9, Zenon DEF l

\* The nibble of a clock in a scan of IDCODEs ...
LEMMA IdClock ==
  ASSUME TypeOK, WireInv, Tick, session \in {"detect", "idcode"}
  PROVE  LET a == At
             n == IdBits
             nib == Head(wire)
         IN  /\ a \in 0..n + 10 /\ n \in Nat /\ n > 0
             /\ nib.tms = IF a <= 4 \/ a = 6 \/ a = n + 8 \/ a = n + 9 THEN 1 ELSE 0
             /\ nib.tdi = 0 /\ (nib.cap <=> 9 <= a /\ a <= n + 8) /\ nib \in Nibble
<1> DEFINE a == At
           n == IdBits
           p == a + 1
<1>1. /\ n \in Nat /\ n > 0 /\ Len(Stream) = n + 11 /\ Stream \in Seq(Nibble)
      /\ \A q \in 1..n + 11 :
           /\ Stream[q].tms = IF q <= 5 \/ q = 7 \/ q = n + 9 \/ q = n + 10 THEN 1 ELSE 0
           /\ Stream[q].tdi = 0
           /\ Stream[q].cap <=> 10 <= q /\ q <= n + 9
  BY Types, IdSends, Zenon
<1>2. a \in Nat /\ a < Len(Stream) /\ Head(wire) = Stream[p]
  BY StepFacts
<1> HIDE DEF a, n
<1>3. a \in 0..n + 10 /\ p \in 1..n + 11
  BY <1>1, <1>2
<1>4. /\ (p <= 5 \/ p = 7 \/ p = n + 9 \/ p = n + 10) <=> (a <= 4 \/ a = 6 \/ a = n + 8 \/ a = n + 9)
      /\ (10 <= p /\ p <= n + 9) <=> (9 <= a /\ a <= n + 8)
  BY <1>1, <1>2
<1> HIDE DEF p
<1>5. Stream[p] \in Nibble
  BY <1>1, <1>3, ElementOfSeq
<1> QED BY <1>1, <1>2, <1>3, <1>4, <1>5, ZenonT(60) DEF a, n

\* ... and in a DMI access.
LEMMA DmiClock ==
  ASSUME TypeOK, WireInv, Tick, session = "dmi"
  PROVE  LET a == At
             m == IrBits
             n == DrBits
             nib == Head(wire)
         IN  /\ a \in 0..m + n + 17 /\ m \in Nat /\ m > 0 /\ n \in Nat /\ n > 0
             /\ nib.tms = IF a <= 4 \/ a = 6 \/ a = 7 \/ a = m + 9 \/ a = m + 10 \/ a = m + 12
                             \/ a = m + n + 14 \/ a = m + n + 15 THEN 1 ELSE 0
             /\ 10 <= a /\ a <= m + 9 => nib.tdi = IrWord[(a - 10) + 1]
             /\ m + 15 <= a /\ a <= m + n + 14 => nib.tdi = DrWord[(a - (m + 15)) + 1]
             /\ nib.cap <=> /\ m + 15 <= a /\ a <= m + n + 14
                            /\ after <= a - (m + 15) /\ a - (m + 15) < after + DmiLen
             /\ nib \in Nibble
<1> DEFINE a == At
           m == IrBits
           n == DrBits
           p == a + 1
           d == after + DmiLen
<1>1. /\ m \in Nat /\ m > 0 /\ n \in Nat /\ n > 0 /\ Stream \in Seq(Nibble) /\ Len(Stream) = m + n + 18
      /\ \A q \in 1..m + n + 18 :
           /\ Stream[q].tms =
                IF q <= 5 \/ q = 7 \/ q = 8 \/ q = m + 10 \/ q = m + 11 \/ q = m + 13
                   \/ q = m + n + 15 \/ q = m + n + 16 THEN 1 ELSE 0
           /\ Stream[q].tdi =
                IF 11 <= q /\ q <= m + 10 THEN IrWord[q - 10]
                ELSE IF m + 16 <= q /\ q <= m + n + 15 THEN DrWord[q - (m + 15)] ELSE 0
           /\ Stream[q].cap <=> /\ m + 16 <= q /\ q <= m + n + 15
                                /\ m + after + 16 <= q /\ q <= m + d + 15
  BY Types, DmiSends, Zenon
<1>2. a \in Nat /\ a < Len(Stream) /\ Head(wire) = Stream[p]
  BY StepFacts
<1>3. after \in Nat /\ d \in Nat
  BY ChainAssumption, Types DEF Sent
<1> HIDE DEF a, m, n, d
<1>4. a \in 0..m + n + 17 /\ p \in 1..m + n + 18
  BY <1>1, <1>2
<1>5. /\ (p <= 5 \/ p = 7 \/ p = 8 \/ p = m + 10 \/ p = m + 11 \/ p = m + 13
          \/ p = m + n + 15 \/ p = m + n + 16)
         <=> (a <= 4 \/ a = 6 \/ a = 7 \/ a = m + 9 \/ a = m + 10 \/ a = m + 12
              \/ a = m + n + 14 \/ a = m + n + 15)
      /\ (m + 16 <= p /\ p <= m + n + 15 /\ m + after + 16 <= p /\ p <= m + d + 15)
         <=> (m + 15 <= a /\ a <= m + n + 14 /\ after <= a - (m + 15) /\ a - (m + 15) < d)
      /\ 10 <= a /\ a <= m + 9 => 11 <= p /\ p <= m + 10
      /\ m + 15 <= a /\ a <= m + n + 14 => ~(11 <= p /\ p <= m + 10) /\ m + 16 <= p /\ p <= m + n + 15
      /\ p - 10 = (a - 10) + 1 /\ p - (m + 15) = (a - (m + 15)) + 1
  BY <1>1, <1>2, <1>3
<1> HIDE DEF p
<1>6. Stream[p] \in Nibble
  BY <1>1, <1>4, ElementOfSeq
<1> DEFINE nib == Head(wire)
<1>7. nib.tms = IF a <= 4 \/ a = 6 \/ a = 7 \/ a = m + 9 \/ a = m + 10 \/ a = m + 12
                   \/ a = m + n + 14 \/ a = m + n + 15 THEN 1 ELSE 0
  <2>1. Stream[p].tms = IF p <= 5 \/ p = 7 \/ p = 8 \/ p = m + 10 \/ p = m + 11 \/ p = m + 13
                           \/ p = m + n + 15 \/ p = m + n + 16 THEN 1 ELSE 0
    BY <1>1, <1>4, Zenon
  <2>2. CASE a <= 4 \/ a = 6 \/ a = 7 \/ a = m + 9 \/ a = m + 10 \/ a = m + 12
             \/ a = m + n + 14 \/ a = m + n + 15
    BY <1>2, <1>5, <2>1, <2>2
  <2>3. CASE ~(a <= 4 \/ a = 6 \/ a = 7 \/ a = m + 9 \/ a = m + 10 \/ a = m + 12
               \/ a = m + n + 14 \/ a = m + n + 15)
    BY <1>2, <1>5, <2>1, <2>3
  <2> QED BY <2>2, <2>3, Zenon
<1>8. ASSUME 10 <= a, a <= m + 9 PROVE nib.tdi = IrWord[(a - 10) + 1]
  <2>1. 11 <= p /\ p <= m + 10
    BY <1>5, <1>8, Zenon
  <2>2. Stream[p].tdi = IrWord[p - 10]
    BY <1>1, <1>4, <2>1, Zenon
  <2> QED BY <1>2, <1>5, <2>2, Zenon
<1>10. ASSUME m + 15 <= a, a <= m + n + 14 PROVE nib.tdi = DrWord[(a - (m + 15)) + 1]
  <2>1. ~(11 <= p /\ p <= m + 10) /\ m + 16 <= p /\ p <= m + n + 15
    BY <1>5, <1>10, Zenon
  <2>2. Stream[p].tdi = DrWord[p - (m + 15)]
    BY <1>1, <1>4, <2>1, Zenon
  <2> QED BY <1>2, <1>5, <2>2, Zenon
<1>9. nib.cap <=> /\ m + 15 <= a /\ a <= m + n + 14
                  /\ after <= a - (m + 15) /\ a - (m + 15) < d
  <2>1. Stream[p].cap <=> /\ m + 16 <= p /\ p <= m + n + 15
                          /\ m + after + 16 <= p /\ p <= m + d + 15
    BY <1>1, <1>4, Zenon
  <2>2. (m + 16 <= p /\ p <= m + n + 15 /\ m + after + 16 <= p /\ p <= m + d + 15)
        <=> (m + 15 <= a /\ a <= m + n + 14 /\ after <= a - (m + 15) /\ a - (m + 15) < d)
    BY <1>5, Zenon
  <2> QED BY <1>2, <2>1, <2>2, Zenon
<1> HIDE DEF nib
<1> QED BY <1>1, <1>2, <1>4, <1>6, <1>7, <1>8, <1>9, <1>10, Zenon DEF a, m, n, d, nib

-----------------------------------------------------------------------------
(* The TAP state follows the clocks. *)

\* Each of the five TMS=1 brings the TAP closer to Test-Logic-Reset ...
LEMMA ResetMove ==
  ASSUME NEW a \in 0..4, NEW s \in Resetting(a)
  PROVE  Clocked(s, 1) \in Resetting(a + 1)
<1>1. a = 0 \/ a = 1 \/ a = 2 \/ a = 3 \/ a = 4
  OBVIOUS
<1>2. CASE a = 0
  <2>1. s \in TapState /\ a + 1 = 1
    BY <1>2 DEF Resetting
  <2> QED BY <2>1, ClockedTable DEF Resetting, TapState
<1>3. CASE a = 1
  <2>1. s \in {"reset", "seldr", "selir", "e1dr", "updr", "e2dr", "e1ir", "e2ir", "upir"} /\ a + 1 = 2
    BY <1>3 DEF Resetting
  <2> QED BY <2>1, ClockedTable DEF Resetting
<1>4. CASE a = 2
  <2>1. s \in {"reset", "selir", "seldr", "updr", "upir"} /\ a + 1 = 3
    BY <1>4 DEF Resetting
  <2> QED BY <2>1, ClockedTable DEF Resetting
<1>5. CASE a = 3
  <2>1. s \in {"reset", "seldr", "selir"} /\ a + 1 = 4
    BY <1>5 DEF Resetting
  <2> QED BY <2>1, ClockedTable DEF Resetting
<1>6. CASE a = 4
  <2>1. s \in {"reset", "selir"} /\ a + 1 = 5
    BY <1>6 DEF Resetting
  <2> QED BY <2>1, ClockedTable DEF Resetting
<1> QED BY <1>1, <1>2, <1>3, <1>4, <1>5, <1>6

\* ... and from Run-Test/Idle leads through the two Select states only.
LEMMA CleanMove ==
  ASSUME NEW a \in 0..4
  PROVE  Clocked(Clean(a), 1) = Clean(a + 1)
<1>1. a = 0 \/ a = 1 \/ a = 2 \/ a = 3 \/ a = 4
  OBVIOUS
<1>2. /\ Clean(0) = "idle" /\ Clean(1) = "seldr" /\ Clean(2) = "selir" /\ Clean(3) = "reset"
      /\ Clean(4) = "reset" /\ Clean(5) = "reset" /\ 0 + 1 = 1 /\ 1 + 1 = 2 /\ 2 + 1 = 3 /\ 3 + 1 = 4
      /\ 4 + 1 = 5
  BY DEF Clean
<1> QED BY <1>1, <1>2, ClockedTable, ZenonT(60)

\* A scan of IDCODEs after its reset.
LEMMA IdMove ==
  ASSUME NEW n \in Nat, n > 0, NEW a \in 6..n + 10,
         NEW tms, tms = IF a <= 4 \/ a = 6 \/ a = n + 8 \/ a = n + 9 THEN 1 ELSE 0
  PROVE  Clocked(IdTap(a, n), tms) = IdTap(a + 1, n)
<1>1. CASE a = 6
  BY <1>1, ClockedTable DEF IdTap
<1>2. CASE a = 7
  BY <1>2, ClockedTable DEF IdTap
<1>3. CASE a = 8
  BY <1>3, ClockedTable DEF IdTap
<1>4. CASE 9 <= a /\ a < n + 8
  BY <1>4, ClockedTable DEF IdTap
<1>5. CASE a = n + 8
  BY <1>5, ClockedTable DEF IdTap
<1>6. CASE a = n + 9
  BY <1>6, ClockedTable DEF IdTap
<1>7. CASE a = n + 10
  BY <1>7, ClockedTable DEF IdTap
<1> QED BY <1>1, <1>2, <1>3, <1>4, <1>5, <1>6, <1>7

\* An access after its reset.
LEMMA DmiMove ==
  ASSUME NEW m \in Nat, m > 0, NEW n \in Nat, n > 0, NEW a \in 6..m + n + 17,
         NEW tms, tms = IF a <= 4 \/ a = 6 \/ a = 7 \/ a = m + 9 \/ a = m + 10 \/ a = m + 12
                           \/ a = m + n + 14 \/ a = m + n + 15 THEN 1 ELSE 0
  PROVE  Clocked(DmiTap(a, m, n), tms) = DmiTap(a + 1, m, n)
<1>1. CASE a = 6
  BY <1>1, ClockedTable DEF DmiTap
<1>2. CASE a = 7
  BY <1>2, ClockedTable DEF DmiTap
<1>3. CASE a = 8
  BY <1>3, ClockedTable DEF DmiTap
<1>4. CASE a = 9
  BY <1>4, ClockedTable DEF DmiTap
<1>5. CASE 10 <= a /\ a < m + 9
  BY <1>5, ClockedTable DEF DmiTap
<1>6. CASE a = m + 9
  BY <1>6, ClockedTable DEF DmiTap
<1>7. CASE a = m + 10
  BY <1>7, ClockedTable DEF DmiTap
<1>8. CASE a = m + 11
  BY <1>8, ClockedTable DEF DmiTap
<1>9. CASE a = m + 12
  BY <1>9, ClockedTable DEF DmiTap
<1>10. CASE a = m + 13
  BY <1>10, ClockedTable DEF DmiTap
<1>11. CASE a = m + 14
  BY <1>11, ClockedTable DEF DmiTap
<1>12. CASE m + 15 <= a /\ a < m + n + 14
  BY <1>12, ClockedTable DEF DmiTap
<1>13. CASE a = m + n + 14
  BY <1>13, ClockedTable DEF DmiTap
<1>14. CASE a = m + n + 15
  BY <1>14, ClockedTable DEF DmiTap
<1>15. CASE a = m + n + 16
  BY <1>15, ClockedTable DEF DmiTap
<1>16. CASE a = m + n + 17
  BY <1>16, ClockedTable DEF DmiTap
<1> QED BY <1>1, <1>2, <1>3, <1>4, <1>5, <1>6, <1>7, <1>8, <1>9, <1>10, <1>11, <1>12, <1>13,
            <1>14, <1>15, <1>16

\* A TAP state is followed by a TAP state.
LEMMA ClockedType ==
  ASSUME NEW s \in TapState, NEW tms \in {0, 1}
  PROVE  Clocked(s, tms) \in TapState
BY ClockedTable DEF TapState

\* The TAP states of the invariant are kept by a clock.
LEMMA TickTap ==
  ASSUME TypeOK, WireInv, TapInv, Tick
  PROVE  TapInv' /\ tap' \in TapState
<1>1. /\ Busy /\ At \in Nat /\ At' = At + 1 /\ tap' = Clocked(tap, Head(wire).tms)
      /\ tap \in TapState
  BY StepFacts, Types DEF Tick
<1>2. UNCHANGED <<session, breaks, detected>> /\ IdBits' = IdBits /\ IrBits' = IrBits /\ DrBits' = DrBits
  BY Kept DEF Tick, hostVars
<1>3. session \in {"detect", "idcode"} \/ session = "dmi"
  BY <1>1 DEF Busy
<1> DEFINE a == At
           b == At'
           n == IdBits
           m == IrBits
           d == DrBits
           tms == Head(wire).tms
<1>4. ASSUME session \in {"detect", "idcode"}
      PROVE  /\ a \in 0..n + 10 /\ n \in Nat /\ n > 0
             /\ tms = IF a <= 4 \/ a = 6 \/ a = n + 8 \/ a = n + 9 THEN 1 ELSE 0
  BY <1>4, IdClock, Zenon
<1>5. ASSUME session = "dmi"
      PROVE  /\ a \in 0..m + d + 17 /\ m \in Nat /\ m > 0 /\ d \in Nat /\ d > 0
             /\ tms = IF a <= 4 \/ a = 6 \/ a = 7 \/ a = m + 9 \/ a = m + 10 \/ a = m + 12
                         \/ a = m + d + 14 \/ a = m + d + 15 THEN 1 ELSE 0
  BY <1>5, DmiClock, Zenon
<1>6. tms \in {0, 1}
  BY <1>3, <1>4, <1>5
<1>7. a <= 5 => tap \in Resetting(a)
  BY <1>1, Zenon DEF TapInv
<1>8. a \in Nat /\ b = a + 1
  BY <1>1
<1> HIDE DEF a, b, n, m, d, tms
<1>9. a <= 4 => tms = 1
  BY <1>3, <1>4, <1>5
<1>10. b <= 5 => tap' \in Resetting(b)
  <2>1. b <= 5 => a \in 0..4 /\ a <= 5 /\ a <= 4
    BY <1>8
  <2> QED BY <1>1, <1>7, <1>8, <1>9, <2>1, ResetMove, Zenon DEF tms
<1>11. ASSUME breaks = 0, detected, b <= 5 PROVE tap' = Clean(b)
  <2>1. a \in 0..4 /\ a <= 5 /\ a <= 4
    BY <1>8, <1>11
  <2>2. tap = Clean(a)
    BY <1>1, <1>11, <2>1, Zenon DEF TapInv, a
  <2> QED BY <1>1, <1>8, <1>9, <2>1, <2>2, CleanMove, Zenon DEF tms
<1>12. ASSUME a = 5 PROVE tap' = "idle" /\ b = 6
  <2>1. tap = "reset"
    BY <1>7, <1>12 DEF Resetting
  <2>2. tms = 0
    <3>1. CASE session \in {"detect", "idcode"}
      BY <1>4, <1>12, <3>1
    <3>2. CASE session = "dmi"
      BY <1>5, <1>12, <3>2
    <3> QED BY <1>3, <3>1, <3>2
  <2>3. tap' = "idle"
    BY <1>1, <2>1, <2>2, ClockedTable, Zenon DEF tms
  <2>4. b = 6
    BY <1>8, <1>12
  <2> QED BY <2>3, <2>4
<1>13. ASSUME session \in {"detect", "idcode"}, b > 5 PROVE tap' = IdTap(b, n)
  <2>1. a = 5 \/ a \in 6..n + 10
    BY <1>4, <1>8, <1>13
  <2>2. CASE a = 5
    <3>1. IdTap(6, n) = "idle"
      BY <1>4, <1>13 DEF IdTap
    <3> QED BY <1>12, <2>2, <3>1, Zenon
  <2>3. CASE a \in 6..n + 10
    <3>1. a > 5
      BY <1>4, <1>13, <2>3
    <3>2. tap = IdTap(a, n)
      BY <1>13, <3>1, Zenon DEF TapInv, a, n
    <3>3. Clocked(IdTap(a, n), tms) = IdTap(a + 1, n)
      BY <1>4, <1>13, <2>3, IdMove, Zenon
    <3> QED BY <1>1, <1>8, <3>2, <3>3, Zenon DEF tms
  <2> QED BY <2>1, <2>2, <2>3
<1>14. ASSUME session = "dmi", b > 5 PROVE tap' = DmiTap(b, m, d)
  <2>1. a = 5 \/ a \in 6..m + d + 17
    BY <1>5, <1>8, <1>14
  <2>2. CASE a = 5
    <3>1. DmiTap(6, m, d) = "idle"
      BY <1>5, <1>14 DEF DmiTap
    <3> QED BY <1>12, <2>2, <3>1, Zenon
  <2>3. CASE a \in 6..m + d + 17
    <3>1. a > 5
      BY <1>5, <1>14, <2>3
    <3>2. tap = DmiTap(a, m, d)
      BY <1>14, <3>1, Zenon DEF TapInv, a, m, d
    <3>3. Clocked(DmiTap(a, m, d), tms) = DmiTap(a + 1, m, d)
      BY <1>5, <1>14, <2>3, DmiMove, Zenon
    <3> QED BY <1>1, <1>8, <3>2, <3>3, Zenon DEF tms
  <2> QED BY <2>1, <2>2, <2>3
<1>15. tap' \in TapState
  BY <1>1, <1>6, ClockedType, Zenon DEF tms
<1>16. Busy' = Busy
  BY <1>2 DEF Busy
<1>17. /\ Busy' /\ At' <= 5 => tap' \in Resetting(At')
       /\ session' \in {"detect", "idcode"} /\ At' > 5 => tap' = IdTap(At', IdBits')
       /\ session' = "dmi" /\ At' > 5 => tap' = DmiTap(At', IrBits', DrBits')
       /\ breaks' = 0 /\ detected' => /\ ~Busy' => tap' = "idle"
                                      /\ Busy' /\ At' <= 5 => tap' = Clean(At')
  BY <1>1, <1>2, <1>10, <1>11, <1>13, <1>14, <1>16, Zenon DEF b, n, m, d
<1> QED BY <1>15, <1>17 DEF TapInv, Resetting, Clean, IdTap, DmiTap

-----------------------------------------------------------------------------
(* The chain keeps the length of the registers it stands for. *)

\* A clock, field by field.
LEMMA Clock ==
  ASSUME TypeOK, Tick
  PROVE  /\ Head(wire) \in Nibble /\ tap' = Clocked(tap, Head(wire).tms)
         /\ Head(wire).tms \in {0, 1} /\ Head(wire).tdi \in {0, 1}
         /\ tap = "capdr" => chain' = DrChain
         /\ tap = "capir" => chain' = IrChain
         /\ tap \in {"shiftdr", "shiftir"} => chain' = Append(Tail(chain), Head(wire).tdi)
         /\ tap \notin {"capdr", "capir", "shiftdr", "shiftir"} => chain' = chain
         /\ Head(wire).cap => captured' = Append(captured, chain[1])
         /\ ~Head(wire).cap => captured' = captured
         /\ tap' = "reset" => ir' = AllIdcode
         /\ tap' = "upir" => ir' = [t \in TapNo |-> SubSeq(chain', t * IrLen + 1, (t + 1) * IrLen)]
         /\ tap' \notin {"reset", "upir"} => ir' = ir
         /\ dmi' = [t \in TapNo |-> IF tap' = "updr" /\ ir[t] = DMI THEN DmiPart(t, chain') ELSE dmi[t]]
<1>1. Head(wire) \in Nibble
  <2>1. wire \in Seq(Nibble) /\ wire # <<>>
    BY Types DEF Tick
  <2> QED BY <2>1, HeadTailProperties
<1>2. tap' = Clocked(tap, Head(wire).tms)
  BY DEF Tick
<1>3. Head(wire).tms \in {0, 1} /\ Head(wire).tdi \in {0, 1}
  BY <1>1 DEF Nibble
<1>4. chain' = CASE tap = "capdr" -> DrChain
                 [] tap = "capir" -> IrChain
                 [] tap \in {"shiftdr", "shiftir"} -> Append(Tail(chain), Head(wire).tdi)
                 [] OTHER -> chain
  BY DEF Tick, DrChain, DrParts, IrChain
<1>5. /\ tap = "capdr" => chain' = DrChain
      /\ tap = "capir" => chain' = IrChain
      /\ tap \in {"shiftdr", "shiftir"} => chain' = Append(Tail(chain), Head(wire).tdi)
      /\ tap \notin {"capdr", "capir", "shiftdr", "shiftir"} => chain' = chain
  <2> DEFINE x == Append(Tail(chain), Head(wire).tdi)
  <2>1. chain' = CASE tap = "capdr" -> DrChain
                   [] tap = "capir" -> IrChain
                   [] tap \in {"shiftdr", "shiftir"} -> x
                   [] OTHER -> chain
    BY <1>4
  <2> HIDE DEF x
  <2>2. /\ tap = "capdr" => chain' = DrChain
        /\ tap = "capir" => chain' = IrChain
        /\ tap \in {"shiftdr", "shiftir"} => chain' = x
        /\ tap \notin {"capdr", "capir", "shiftdr", "shiftir"} => chain' = chain
    BY <2>1
  <2> QED BY <2>2, Zenon DEF x
<1>6. /\ Head(wire).cap => captured' = Append(captured, chain[1])
      /\ ~Head(wire).cap => captured' = captured
  BY DEF Tick
<1>7. ir' = CASE tap' = "reset" -> AllIdcode
              [] tap' = "upir" -> [t \in TapNo |-> SubSeq(chain', t * IrLen + 1, (t + 1) * IrLen)]
              [] OTHER -> ir
  BY <1>2 DEF Tick, AllIdcode
<1>8. /\ tap' = "reset" => ir' = AllIdcode
      /\ tap' = "upir" => ir' = [t \in TapNo |-> SubSeq(chain', t * IrLen + 1, (t + 1) * IrLen)]
      /\ tap' \notin {"reset", "upir"} => ir' = ir
  <2> DEFINE x == [t \in TapNo |-> SubSeq(chain', t * IrLen + 1, (t + 1) * IrLen)]
  <2>1. ir' = CASE tap' = "reset" -> AllIdcode
                [] tap' = "upir" -> x
                [] OTHER -> ir
    BY <1>7
  <2> HIDE DEF x
  <2>2. /\ tap' = "reset" => ir' = AllIdcode
        /\ tap' = "upir" => ir' = x
        /\ tap' \notin {"reset", "upir"} => ir' = ir
    BY <2>1
  <2> QED BY <2>2, Zenon DEF x
<1>9. dmi' = [t \in TapNo |-> IF tap' = "updr" /\ ir[t] = DMI THEN DmiPart(t, chain') ELSE dmi[t]]
  BY <1>2, Zenon DEF Tick
<1> QED BY <1>1, <1>2, <1>3, <1>5, <1>6, <1>8, <1>9, Zenon

\* One bit out, one bit in: the length stays.
LEMMA ShiftLen ==
  ASSUME NEW c \in Seq({0, 1}), Len(c) > 0, NEW bit \in {0, 1}
  PROVE  /\ Append(Tail(c), bit) \in Seq({0, 1}) /\ Len(Append(Tail(c), bit)) = Len(c)
         /\ c[1] \in {0, 1}
<1> DEFINE t == Tail(c)
<1>1. Len(c) \in Nat /\ c # <<>> /\ 1 \in 1..Len(c)
  BY LenProperties, EmptySeq
<1>2. t \in Seq({0, 1}) /\ Len(t) = Len(c) - 1
  BY <1>1, HeadTailProperties
<1> HIDE DEF t
<1>3. Append(t, bit) \in Seq({0, 1}) /\ Len(Append(t, bit)) = Len(t) + 1
  BY <1>2, AppendProperties
<1>4. c[1] \in {0, 1}
  BY <1>1, ElementOfSeq
<1> QED BY <1>1, <1>2, <1>3, <1>4 DEF t

\* The data registers the chain stands for do not change while the instructions do not.
LEMMA DrChainKept ==
  ASSUME Tick, ir' = ir
  PROVE  DrChain' = DrChain
<1>1. board' = board /\ response' = response
  BY DEF Tick
<1> QED BY <1>1 DEF DrChain, DrParts, OverChain, TapNo, NTaps, DrOf, IdCode

\* The type and the length of the chain are kept by a clock.
LEMMA TickShape ==
  ASSUME TypeOK, ShapeInv, Tick
  PROVE  ShapeInv' /\ chain' \in Seq({0, 1})
<1> DEFINE nib == Head(wire)
<1>1. /\ chain \in Seq({0, 1}) /\ Len(chain) > 0 /\ nib.tdi \in {0, 1} /\ nib.tms \in {0, 1}
      /\ tap \in TapState /\ tap' = Clocked(tap, nib.tms) /\ Registers /\ board \in Boards
  BY Types, Clock DEF ShapeInv
<1>2. DrChain \in Seq({0, 1}) /\ Len(DrChain) > 0
  <2>1. 0 \in TapNo
    BY BoardOf, <1>1 DEF TapNo
  <2>2. DrChain \in Seq({0, 1}) /\ Len(DrChain) \in Nat
    BY DrChainOf, LenProperties, <1>1
  <2>3. /\ Offset(DrParts, 0) \in Nat /\ Offset(DrParts, 0) + Len(DrOf(0)) <= Len(DrChain)
        /\ Len(DrOf(0)) \in Nat /\ Len(DrOf(0)) > 0
    BY <1>1, <2>1, DrOffset, DrOfType
  <2> DEFINE x == Offset(DrParts, 0)
             y == Len(DrOf(0))
             z == Len(DrChain)
  <2> HIDE DEF x, y, z
  <2>4. x \in Nat /\ y \in Nat /\ y > 0 /\ z \in Nat /\ x + y <= z
    BY <2>2, <2>3 DEF x, y, z
  <2>5. z > 0
    BY <2>4
  <2> QED BY <2>2, <2>5 DEF z
<1>3. IrChain \in Seq({0, 1}) /\ Len(IrChain) = NTaps * IrLen /\ Len(IrChain) > 0
  BY <1>1, IrChainOf
<1>4. /\ Append(Tail(chain), nib.tdi) \in Seq({0, 1})
      /\ Len(Append(Tail(chain), nib.tdi)) = Len(chain)
  BY <1>1, ShiftLen
<1> HIDE DEF nib
<1>5. /\ tap = "capdr" => chain' = DrChain
      /\ tap = "capir" => chain' = IrChain
      /\ tap \in {"shiftdr", "shiftir"} => chain' = Append(Tail(chain), nib.tdi)
      /\ tap \notin {"capdr", "capir", "shiftdr", "shiftir"} => chain' = chain
  BY Clock, Zenon DEF nib
<1>6. /\ tap = "capdr" => chain' = DrChain
      /\ tap = "capir" => chain' = IrChain
      /\ tap \notin {"capdr", "capir"} => Len(chain') = Len(chain)
      /\ chain' \in Seq({0, 1}) /\ Len(chain') > 0
  <2>1. CASE tap = "capdr"
    BY <1>2, <1>5, <2>1
  <2>2. CASE tap = "capir"
    BY <1>3, <1>5, <2>2
  <2>3. CASE tap \in {"shiftdr", "shiftir"}
    <3>1. tap \notin {"capdr", "capir"} /\ tap # "capdr" /\ tap # "capir"
      BY <2>3
    <3> QED BY <1>1, <1>4, <1>5, <2>3, <3>1, Zenon
  <2>4. CASE tap \notin {"capdr", "capir", "shiftdr", "shiftir"}
    BY <1>1, <1>5, <2>4
  <2> QED BY <2>1, <2>2, <2>3, <2>4
<1>7. ASSUME tap' \in IrShape PROVE Len(chain') = NTaps * IrLen
  <2>1. tap = "capir" \/ (tap \in IrShape /\ tap \notin {"capdr", "capir"})
    BY <1>1, <1>7, ClockedTable DEF IrShape, TapState
  <2> QED BY <1>3, <1>6, <2>1 DEF ShapeInv
<1>8. ASSUME tap' \in DrShape PROVE Len(chain') = Len(DrChain) /\ DrChain' = DrChain
  <2>1. tap = "capdr" \/ (tap \in DrShape /\ tap \notin {"capdr", "capir"})
    BY <1>1, <1>8, ClockedTable DEF DrShape, TapState
  <2>2. tap' \notin {"reset", "upir"}
    BY <1>8 DEF DrShape
  <2>3. ir' = ir
    BY <2>2, Clock
  <2> QED BY <1>6, <2>1, <2>3, DrChainKept DEF ShapeInv
<1>9. NTaps' = NTaps
  BY Kept
<1>10. /\ Len(chain') > 0
       /\ tap' \in IrShape => Len(chain') = NTaps' * IrLen
       /\ tap' \in DrShape => Len(chain') = Len(DrChain')
  BY <1>6, <1>7, <1>8, <1>9, Zenon
<1> QED BY <1>6, <1>10 DEF ShapeInv, IrShape, DrShape

\* The types are kept by a clock.
LEMMA TickType ==
  ASSUME TypeOK, WireInv, TapInv, ShapeInv, Tick
  PROVE  TypeOK'
<1>1. UNCHANGED <<state, after, before, index, detected, session, value, result, sessions, breaks,
                  board, response>>
  BY DEF Tick, hostVars
<1>2. tap' \in TapState
  BY TickTap
<1>3. chain' \in Seq({0, 1}) /\ ShapeInv'
  BY TickShape
<1>4. wire' \in Seq(Nibble)
  <2>1. wire \in Seq(Nibble) /\ wire # <<>> /\ wire' = Tail(wire)
    BY Types DEF Tick
  <2> QED BY <2>1, HeadTailProperties
<1>5. captured' \in Seq({0, 1})
  <2>1. captured \in Seq({0, 1}) /\ chain[1] \in {0, 1}
    <3>1. chain \in Seq({0, 1}) /\ Len(chain) > 0 /\ 0 \in {0, 1}
      BY Types DEF ShapeInv
    <3> QED BY <3>1, ShiftLen, Types
  <2>2. Append(captured, chain[1]) \in Seq({0, 1})
    BY <2>1, AppendProperties
  <2> QED BY <2>1, <2>2, Clock
<1>6. NTaps' = NTaps /\ TapNo' = TapNo
  BY Kept
<1>7. ir' \in [TapNo -> Bits(IrLen)]
  <2>1. CASE tap' = "reset"
    BY <2>1, Clock, Codes DEF AllIdcode
  <2>2. CASE tap' = "upir"
    <3>1. Len(chain') = NTaps * IrLen
      BY <1>3, <1>6, <2>2 DEF ShapeInv, IrShape
    <3>2. ASSUME NEW t \in TapNo
          PROVE  SubSeq(chain', t * IrLen + 1, (t + 1) * IrLen) \in Bits(IrLen)
      <4> DEFINE o == t * IrLen
                 c == chain'
                 l == Len(c)
      <4>1. IrLen \in Nat /\ NTaps \in 1..3 /\ t \in 0..NTaps - 1
        BY Codes, BoardOf, Types DEF TapNo
      <4>2. (NTaps = 1 \/ NTaps = 2 \/ NTaps = 3) /\ (t = 0 \/ t = 1 \/ t = 2) /\ t < NTaps
        BY <4>1
      <4> HIDE DEF l
      <4>3. l = NTaps * IrLen
        BY <3>1 DEF l
      <4>4. o \in Nat /\ o + IrLen <= l /\ (t + 1) * IrLen = o + IrLen
        <5> DEFINE m == NTaps
        <5>1. /\ (m = 1 => l = IrLen) /\ (m = 2 => l = IrLen + IrLen) /\ (m = 3 => l = IrLen + IrLen + IrLen)
              /\ (t = 0 => o = 0) /\ (t = 1 => o = IrLen) /\ (t = 2 => o = IrLen + IrLen)
              /\ (t + 1) * IrLen = o + IrLen
          BY <4>1, <4>2, <4>3
        <5> HIDE DEF m, o
        <5>2. o \in Nat /\ o + IrLen <= l
          BY <4>1, <4>2, <5>1 DEF m
        <5> QED BY <5>1, <5>2
      <4>5. c \in Seq({0, 1})
        BY <1>3
      <4> HIDE DEF o, c
      <4>6. SubSeq(c, o + 1, o + IrLen) \in [1..IrLen -> {0, 1}]
        BY <4>1, <4>4, <4>5, Slice DEF l
      <4> QED BY <4>4, <4>6, Zenon DEF o, c, Bits
    <3>3. ir' = [t \in TapNo |-> SubSeq(chain', t * IrLen + 1, (t + 1) * IrLen)]
      BY <2>2, Clock, Zenon
    <3> QED BY <3>2, <3>3, Zenon
  <2>3. CASE tap' \notin {"reset", "upir"}
    <3>1. ir' = ir
      BY <2>3, Clock
    <3> QED BY <3>1 DEF TypeOK
  <2> QED BY <2>1, <2>2, <2>3
<1>8. dmi' \in [TapNo -> Bits(DmiLen)]
  <2>1. ASSUME NEW t \in TapNo, tap' = "updr", ir[t] = DMI
        PROVE  DmiPart(t, chain') \in Bits(DmiLen)
    <3>1. ir' = ir
      BY <2>1, Clock
    <3>2. Len(chain') = Len(DrChain)
      BY <1>3, <2>1, <3>1, DrChainKept DEF ShapeInv, DrShape
    <3> DEFINE c == chain'
    <3>3. c \in Seq({0, 1}) /\ Len(c) = Len(DrChain) /\ Registers /\ ir[t] = DMI
      BY <1>3, <2>1, <3>2, Types
    <3> HIDE DEF c
    <3>4. DmiPart(t, c) \in Bits(DmiLen)
      BY <3>3, DmiPartOf
    <3> QED BY <3>4, Zenon DEF c
  <2>2. dmi \in [TapNo -> Bits(DmiLen)]
    BY DEF TypeOK
  <2>3. dmi' = [t \in TapNo |-> IF tap' = "updr" /\ ir[t] = DMI THEN DmiPart(t, chain') ELSE dmi[t]]
    BY Clock, Zenon
  <2> QED BY <2>1, <2>2, <2>3
<1>9. /\ board' \in Boards /\ state' \in TapState /\ after' \in 0..2 /\ before' \in 0..2 /\ index' \in 0..2
      /\ detected' \in BOOLEAN /\ session' \in {"none", "detect", "idcode", "dmi", "failed"}
      /\ value' \in Bits(DmiLen) /\ response' \in Bits(DmiLen)
      /\ sessions' \in 0..MaxSessions /\ breaks' \in 0..MaxBreaks
  BY <1>1 DEF TypeOK
<1> QED BY <1>2, <1>3, <1>4, <1>5, <1>6, <1>7, <1>8, <1>9 DEF TypeOK, Nibble

-----------------------------------------------------------------------------
(* What the chain carries. *)

\* On a chain the host knows, detection has found the layout.
LEMMA LayOf ==
  ASSUME Known, detected, LayoutInv, Sent, board \in Boards
  PROVE  Lay
<1> DEFINE n == NTaps
           o == Override
           c == ChainTable[IdCode(0)]
<1>1. n \in 1..3 /\ o \in Nat /\ TapNo = 0..n - 1 /\ after \in 0..2
  BY BoardOf DEF TapNo, Sent
<1>2. CASE o # NoOverride
  <2>1. o < n /\ after = o /\ before = n - 1 - o
    BY <1>2 DEF LayoutInv
  <2>2. Target = o
    BY <1>2 DEF Target
  <2> HIDE DEF n, o
  <2>3. after + before + 1 = n /\ after = Target /\ Target \in 0..n - 1
    BY <1>1, <2>1, <2>2
  <2> QED BY <1>1, <2>3, Zenon DEF Lay, n
<1>3. CASE o = NoOverride
  <2>1. \/ n = 1 /\ (IdCode(0) \in DOMAIN ChainTable => c = 0)
        \/ n = 2 /\ IdCode(0) \in DOMAIN ChainTable /\ c = 1
    BY <1>3 DEF Known
  <2>2. Target = IF n = 1 THEN 0 ELSE c
    BY <1>3 DEF Target
  <2>3. IF IdCode(0) \in DOMAIN ChainTable
        THEN after = c /\ before = 0 /\ index = after
        ELSE after = 0 /\ before = 0 /\ index = 0
    BY <1>3 DEF LayoutInv
  <2> HIDE DEF n, o, c
  <2>4. after + before + 1 = n /\ after = Target /\ Target \in 0..n - 1
    <3>1. CASE IdCode(0) \in DOMAIN ChainTable
      <4>1. after = c /\ before = 0
        BY <2>3, <3>1
      <4>2. (n = 1 /\ c = 0) \/ (n = 2 /\ c = 1)
        BY <2>1, <3>1
      <4> QED BY <2>2, <4>1, <4>2
    <3>2. CASE IdCode(0) \notin DOMAIN ChainTable
      <4>1. after = 0 /\ before = 0 /\ n = 1
        BY <2>1, <2>3, <3>2
      <4> QED BY <2>2, <4>1
    <3> QED BY <3>1, <3>2
  <2> QED BY <1>1, <2>4, Zenon DEF Lay, n
<1> QED BY <1>2, <1>3

\* The instructions are kept by a clock.
LEMMA TickIr ==
  ASSUME IInv, Tick, TapInv', TypeOK',
         Known /\ session = "dmi" /\ At' = IrBits + 11 => Shifted(chain', IrChain, IrWord, IrBits)
  PROVE  IrInv'
<1>1. TypeOK /\ WireInv /\ TapInv /\ IrInv /\ LayoutInv /\ Sent /\ board \in Boards
  BY Types DEF IInv
<1>2. /\ UNCHANGED <<session, detected>> /\ IdBits' = IdBits /\ IrBits' = IrBits /\ DrBits' = DrBits
      /\ Known' = Known /\ AllIdcode' = AllIdcode /\ Selected' = Selected
  BY Kept DEF Tick, hostVars
<1>3. Busy /\ At' = At + 1 /\ At \in Nat
  BY <1>1, StepFacts
<1>4. /\ tap' = "reset" => ir' = AllIdcode
      /\ tap' = "upir" => ir' = [t \in TapNo |-> SubSeq(chain', t * IrLen + 1, (t + 1) * IrLen)]
      /\ tap' \notin {"reset", "upir"} => ir' = ir
  BY <1>1, Clock
<1> DEFINE a == At
           b == At'
           n == IdBits
           m == IrBits
           d == DrBits
<1>5. b = a + 1 /\ a \in Nat
  BY <1>3
<1>6. ASSUME b = 5 PROVE ir' = AllIdcode
  <2>1. tap' \in Resetting(5)
    <3>1. Busy'
      BY <1>2, <1>3 DEF Busy
    <3>2. tap' \in Resetting(b)
      BY <1>6, <3>1 DEF TapInv, Resetting
    <3> QED BY <1>6, <3>2, Zenon
  <2>2. tap' = "reset"
    BY <2>1 DEF Resetting
  <2> QED BY <1>4, <2>2
<1>7. ASSUME session \in {"detect", "idcode"}, b >= 5 PROVE ir' = AllIdcode
  <2>1. CASE b = 5
    BY <1>6, <2>1
  <2>2. CASE b # 5
    <3>1. tap' = IdTap(b, n)
      <4>1. b > 5 /\ session' \in {"detect", "idcode"}
        BY <1>2, <1>5, <1>7, <2>2
      <4>2. tap' = IdTap(b, IdBits')
        BY <4>1 DEF TapInv, IdTap
      <4> QED BY <1>2, <4>2, Zenon
    <3> HIDE DEF b, n
    <3>2. tap' \notin {"reset", "upir"}
      BY <3>1 DEF IdTap
    <3>3. a >= 5
      BY <1>5, <1>7, <2>2
    <3>4. ir = AllIdcode
      BY <1>1, <1>7, <3>3, Zenon DEF IrInv
    <3> QED BY <1>4, <3>2, <3>4, Zenon
  <2> QED BY <2>1, <2>2
<1>8. ASSUME session = "dmi", b >= 6
      PROVE  /\ m \in Nat /\ m > 0 /\ d \in Nat /\ d > 0
             /\ tap' # "reset" /\ (tap' = "upir" <=> b = m + 11)
  <2>1. m \in Nat /\ m > 0 /\ d \in Nat /\ d > 0
    BY <1>1, <1>8, DmiClock, Zenon
  <2>2. tap' = DmiTap(b, m, d)
    <3>1. b > 5 /\ session' = "dmi"
      BY <1>2, <1>5, <1>8
    <3>2. tap' = DmiTap(b, IrBits', DrBits')
      BY <3>1 DEF TapInv, DmiTap
    <3> QED BY <1>2, <3>2, Zenon
  <2>3. b \in Nat
    BY <1>5
  <2> HIDE DEF b, m, d
  <2>4. tap' # "reset" /\ (tap' = "upir" <=> b = m + 11)
    BY <2>1, <2>2, <2>3 DEF DmiTap
  <2> QED BY <2>1, <2>4
<1>9. ASSUME session = "dmi", b >= 5, b <= m + 10 PROVE ir' = AllIdcode
  <2>1. CASE b = 5
    BY <1>6, <2>1
  <2>2. CASE b # 5
    <3>1. b >= 6
      BY <1>5, <1>9, <2>2
    <3>2. m \in Nat /\ tap' # "reset" /\ tap' # "upir"
      <4>1. m \in Nat /\ tap' # "reset" /\ (tap' = "upir" <=> b = m + 11)
        BY <1>8, <1>9, <3>1, Zenon
      <4> HIDE DEF m, b
      <4>2. b # m + 11
        BY <1>5, <1>9, <4>1
      <4> QED BY <4>1, <4>2
    <3>3. a >= 5 /\ a <= m + 10
      <4> HIDE DEF m
      <4> QED BY <1>5, <1>9, <2>2, <3>2
    <3>4. ir = AllIdcode
      BY <1>1, <1>9, <3>3, Zenon DEF IrInv
    <3> QED BY <1>4, <3>2, <3>4, Zenon
  <2> QED BY <2>1, <2>2
<1>10. ASSUME Known, session = "dmi", b >= m + 11 PROVE ir' = Selected
  <2>1. m \in Nat /\ b >= 6 /\ tap' # "reset" /\ (tap' = "upir" <=> b = m + 11)
    <3>1. m \in Nat /\ m > 0
      BY <1>1, <1>10, DmiClock, Zenon
    <3>2. b >= 6
      <4> HIDE DEF m
      <4> QED BY <1>5, <1>10, <3>1
    <3> QED BY <1>8, <1>10, <3>1, <3>2, Zenon
  <2>2. CASE b = m + 11
    <3>1. Shifted(chain', IrChain, IrWord, IrBits)
      BY <1>10, <2>2
    <3>2. detected
      BY <1>1, <1>10 DEF WireInv
    <3>3. Lay
      BY <1>1, <1>10, <3>2, LayOf
    <3> DEFINE c == chain'
    <3>4. c \in Seq({0, 1})
      BY Types DEF TypeOK
    <3>5. Shifted(c, IrChain, IrWord, IrBits)
      BY <3>1
    <3> HIDE DEF c
    <3>6. \A t \in TapNo : SubSeq(c, t * IrLen + 1, (t + 1) * IrLen) = Selected[t]
      <4>1. Sent /\ Lay /\ board \in Boards
        BY <1>1, <3>3
      <4> QED BY <4>1, <3>4, <3>5, IrDelivered
    <3>7. ir' = [t \in TapNo |-> SubSeq(c, t * IrLen + 1, (t + 1) * IrLen)]
      BY <1>4, <2>1, <2>2, Zenon DEF c
    <3>8. [t \in TapNo |-> SubSeq(c, t * IrLen + 1, (t + 1) * IrLen)] = [t \in TapNo |-> Selected[t]]
      BY <3>6, Zenon
    <3>9. Selected = [t \in TapNo |-> Selected[t]]
      BY DEF Selected
    <3> QED BY <3>7, <3>8, <3>9, Zenon
  <2>3. CASE b # m + 11
    <3>1. a >= m + 11
      <4> HIDE DEF m
      <4> QED BY <1>5, <1>10, <2>1, <2>3
    <3>2. ir = Selected
      BY <1>1, <1>10, <3>1, Zenon DEF IrInv
    <3> QED BY <1>4, <2>1, <2>3, <3>2
  <2> QED BY <2>2, <2>3
<1>11. /\ session' \in {"detect", "idcode"} /\ At' >= 5 => ir' = AllIdcode'
       /\ session' = "dmi" /\ At' >= 5 /\ At' <= IrBits' + 10 => ir' = AllIdcode'
       /\ Known' /\ session' = "dmi" /\ At' >= IrBits' + 11 => ir' = Selected'
  BY <1>2, <1>7, <1>9, <1>10, Zenon
<1> QED BY <1>11, Zenon DEF IrInv

\* One more bit captured.
Agrees(c, f, k) == Len(c) = k /\ \A i \in 1..Len(c) : c[i] = f[i]

\* A captured bit that continues what was captured so far.
LEMMA OneMore ==
  ASSUME NEW c \in Seq({0, 1}), NEW f, NEW k \in Nat, Agrees(c, f, k), NEW bit \in {0, 1}, bit = f[k + 1]
  PROVE  Agrees(Append(c, bit), f, k + 1)
<1>1. Len(c) = k /\ \A i \in 1..k : c[i] = f[i]
  BY Zenon DEF Agrees
<1>2. /\ Len(Append(c, bit)) = Len(c) + 1 /\ Append(c, bit)[Len(c) + 1] = bit
      /\ \A i \in 1..Len(c) : Append(c, bit)[i] = c[i]
  BY AppendProperties
<1>3. Len(Append(c, bit)) = k + 1 /\ Append(c, bit)[k + 1] = bit /\ \A i \in 1..k : Append(c, bit)[i] = c[i]
  BY <1>1, <1>2, Zenon
<1>4. \A i \in 1..k + 1 : i \in 1..k \/ i = k + 1
  OBVIOUS
<1>5. \A i \in 1..k + 1 : Append(c, bit)[i] = f[i]
  BY <1>1, <1>3, <1>4, Zenon
<1> QED BY <1>3, <1>5, Zenon DEF Agrees

\* Nothing shifted yet.
LEMMA Unshifted ==
  ASSUME NEW first \in Seq({0, 1}), NEW word \in Seq({0, 1})
  PROVE  Shifted(first, first, word, 0)
<1>1. Len(first) \in Nat /\ \A i \in 1..Len(first) : (first \o word)[i] = first[i]
  BY Behind
<1>2. \A i \in 1..Len(first) : i + 0 = i
  BY <1>1
<1> QED BY <1>1, <1>2, Zenon DEF Shifted

\* After Test-Logic-Reset every TAP has its IDCODE selected.
LEMMA DrAllIdcode ==
  ASSUME Registers, ir = AllIdcode
  PROVE  DrChain = IdChain
<1>1. \A t \in TapNo : DrOf(t) = IdCode(t)
  <2>1. \A t \in TapNo : ir[t] = IDCODE
    BY DEF AllIdcode
  <2> QED BY <2>1, DrOfType
<1>2. [t \in TapNo |-> DrOf(t)] = [t \in TapNo |-> IdCode(t)]
  BY <1>1, Zenon
<1> QED BY <1>2, Zenon DEF DrChain, DrParts, IdChain

\* The smaller of two numbers.
LEMMA Leasts ==
  ASSUME NEW a \in Nat, NEW b \in Nat
  PROVE  (a <= b => Least(a, b) = a) /\ (b <= a => Least(a, b) = b)
BY DEF Least

\* What a scan of IDCODEs has shifted and captured.
LEMMA TickId ==
  ASSUME IInv, Tick
  PROVE  IdInv'
<1>1. /\ TypeOK /\ WireInv /\ TapInv /\ ShapeInv /\ IrInv /\ IdInv /\ Sent /\ Registers
      /\ board \in Boards /\ captured \in Seq({0, 1}) /\ chain \in Seq({0, 1})
  BY Types DEF IInv
<1>2. session' = session /\ IdBits' = IdBits /\ IdChain' = IdChain
  BY Kept DEF Tick, hostVars
<1> SUFFICES ASSUME session \in {"detect", "idcode"} PROVE IdInv'
  BY <1>2 DEF IdInv
<1> DEFINE a == At
           b == At'
           n == IdBits
           nib == Head(wire)
           cat == IdChain \o Zeros(n)
<1>3. /\ a \in 0..n + 10 /\ n \in Nat /\ n > 0 /\ nib.tdi = 0 /\ (nib.cap <=> 9 <= a /\ a <= n + 8)
  BY <1>1, IdClock, Zenon
<1>4. b = a + 1
  BY <1>1, StepFacts
<1>5. a > 5 => tap = IdTap(a, n)
  BY <1>1, Zenon DEF TapInv
<1>6. a >= 5 => ir = AllIdcode
  BY <1>1, Zenon DEF IrInv
<1>7. /\ tap = "capdr" => chain' = DrChain
      /\ tap \in {"shiftdr", "shiftir"} => chain' = Append(Tail(chain), nib.tdi)
      /\ tap \notin {"capdr", "capir", "shiftdr", "shiftir"} => chain' = chain
      /\ nib.cap => captured' = Append(captured, chain[1])
      /\ ~nib.cap => captured' = captured
  BY <1>1, Clock, Zenon
<1>8. /\ a <= 9 => captured = <<>>
      /\ a >= 9 => Shifted(chain, IdChain, Zeros(n), Least(a - 9, n)) /\ Agrees(captured, cat, Least(a - 9, n))
  BY <1>1, Zenon DEF IdInv, Agrees
<1>9. IdChain \in Seq({0, 1}) /\ Len(IdChain) > 0
  BY <1>1, IdChainOf
<1>10. Zeros(n) \in Seq({0, 1}) /\ Len(Zeros(n)) = n /\ \A i \in 1..n : Zeros(n)[i] = 0
  BY <1>3, Fill
<1>11. chain[1] \in {0, 1}
  <2>1. Len(chain) > 0 /\ 0 \in {0, 1}
    BY <1>1 DEF ShapeInv
  <2> QED BY <1>1, <2>1, ShiftLen
<1> HIDE DEF a, b, n, nib, cat
<1>12. ASSUME b <= 9 PROVE captured' = <<>>
  <2>1. ~nib.cap /\ a <= 9
    BY <1>3, <1>4, <1>12
  <2> QED BY <1>7, <1>8, <2>1, Zenon
<1>13. ASSUME b >= 9
       PROVE  /\ Shifted(chain', IdChain, Zeros(n), Least(b - 9, n))
              /\ Agrees(captured', cat, Least(b - 9, n))
  <2>1. CASE a = 8
    <3>1. b <= 9 /\ b - 9 = 0 /\ 0 <= n /\ a > 5 /\ a >= 5
      BY <1>3, <1>4, <2>1
    <3>2. Least(b - 9, n) = 0
      BY <1>3, <3>1, Leasts
    <3>3. tap = "capdr"
      BY <1>5, <2>1, <3>1 DEF IdTap
    <3>4. chain' = IdChain
      BY <1>1, <1>6, <1>7, <3>1, <3>3, DrAllIdcode, Zenon
    <3>5. Shifted(IdChain, IdChain, Zeros(n), 0)
      BY <1>9, <1>10, Unshifted
    <3>6. Agrees(<<>>, cat, 0)
      BY DEF Agrees
    <3> QED BY <1>12, <3>1, <3>2, <3>4, <3>5, <3>6, Zenon
  <2>2. CASE 9 <= a /\ a <= n + 8
    <3> DEFINE k == a - 9
    <3>1. k \in Nat /\ k < n /\ b - 9 = k + 1 /\ k <= n /\ k + 1 <= n /\ k + 1 \in Nat
      BY <1>3, <1>4, <2>2
    <3>2. Least(k, n) = k /\ Least(k + 1, n) = k + 1
      BY <1>3, <3>1, Leasts
    <3>3. tap = "shiftdr"
      <4>1. a > 5 /\ 9 <= a /\ a < n + 9
        BY <1>3, <2>2
      <4>2. a # 7 /\ a # 8
        BY <2>2
      <4> QED BY <1>5, <4>1, <4>2 DEF IdTap
    <3>4. Shifted(chain, IdChain, Zeros(n), k) /\ Agrees(captured, cat, k)
      BY <1>8, <2>2, <3>2, Zenon
    <3> HIDE DEF k
    <3>5. Zeros(n)[k + 1] = 0
      <4>1. k + 1 \in 1..n
        BY <1>3, <3>1
      <4> QED BY <1>10, <4>1
    <3>6. chain' = Append(Tail(chain), nib.tdi) /\ captured' = Append(captured, chain[1])
      BY <1>3, <1>7, <2>2, <3>3
    <3>7. /\ Shifted(Append(Tail(chain), nib.tdi), IdChain, Zeros(n), k + 1)
          /\ chain[1] = (IdChain \o Zeros(n))[k + 1]
      <4>1. nib.tdi = Zeros(n)[k + 1] /\ k < Len(Zeros(n))
        BY <1>3, <1>10, <3>1, <3>5
      <4>2. /\ chain \in Seq({0, 1}) /\ IdChain \in Seq({0, 1}) /\ Zeros(n) \in Seq({0, 1}) /\ k \in Nat
            /\ Len(IdChain) > 0
        BY <1>1, <1>9, <1>10, <3>1
      <4> QED BY <3>4, <4>1, <4>2, ShiftStep
    <3>8. Agrees(Append(captured, chain[1]), cat, k + 1)
      <4>1. captured \in Seq({0, 1}) /\ k \in Nat /\ chain[1] = cat[k + 1]
        BY <1>1, <3>1, <3>7, Zenon DEF cat
      <4> QED BY <1>11, <3>4, <4>1, OneMore
    <3> QED BY <3>1, <3>2, <3>6, <3>7, <3>8, Zenon
  <2>3. CASE a >= n + 9
    <3>1. a - 9 \in Nat /\ b - 9 \in Nat /\ n <= a - 9 /\ n <= b - 9 /\ a >= 9 /\ ~nib.cap /\ a > 5
      BY <1>3, <1>4, <2>3
    <3>2. Least(a - 9, n) = n /\ Least(b - 9, n) = n
      BY <1>3, <3>1, Leasts
    <3>3. tap \notin {"capdr", "capir", "shiftdr", "shiftir"}
      <4>1. tap = IdTap(a, n)
        BY <1>5, <3>1
      <4>2. a # 7 /\ a # 8 /\ ~(a < n + 9)
        BY <1>3, <2>3, <3>1
      <4> QED BY <4>1, <4>2 DEF IdTap
    <3> QED BY <1>7, <1>8, <3>1, <3>2, <3>3, Zenon
  <2>4. a = 8 \/ (9 <= a /\ a <= n + 8) \/ a >= n + 9
    BY <1>3, <1>4, <1>13
  <2> QED BY <2>1, <2>2, <2>3, <2>4
<1>14. /\ At' <= 9 => captured' = <<>>
       /\ At' >= 9 => /\ Shifted(chain', IdChain', Zeros(IdBits'), Least(At' - 9, IdBits'))
                      /\ Len(captured') = Least(At' - 9, IdBits')
                      /\ \A i \in 1..Len(captured') : captured'[i] = (IdChain' \o Zeros(IdBits'))[i]
  BY <1>2, <1>12, <1>13, Zenon DEF Agrees, b, n, cat
<1> QED BY <1>14, Zenon DEF IdInv

\* The bits caught of a data scan, one clock on.
LEMMA CaughtStep ==
  ASSUME Sent, NEW k \in Nat
  PROVE  /\ k < after => Caught(k + 1) = Caught(k)
         /\ after <= k /\ k < after + DmiLen => Caught(k) = k - after /\ Caught(k + 1) = Caught(k) + 1
         /\ after + DmiLen <= k => Caught(k) = DmiLen
         /\ Caught(0) = 0
<1>1. after \in Nat /\ DmiLen \in Nat /\ DmiLen > 0
  BY ChainAssumption DEF Sent
<1>2. k < after => Caught(k + 1) = 0 /\ Caught(k) = 0
  BY <1>1 DEF Caught, Least
<1>3. after <= k /\ k < after + DmiLen => Caught(k) = k - after /\ Caught(k + 1) = (k - after) + 1
  BY <1>1 DEF Caught, Least
<1>4. after + DmiLen <= k => Caught(k) = DmiLen
  BY <1>1 DEF Caught, Least
<1>5. Caught(0) = 0
  BY <1>1 DEF Caught, Least
<1> QED BY <1>2, <1>3, <1>4, <1>5, Zenon

\* What Update-DR leaves in the target once the whole word is in.
LEMMA WordLanded ==
  ASSUME Sent, Lay, Registers, ir = Selected, NEW c \in Seq({0, 1}),
         Shifted(c, DrFirst, DrWord, DrBits)
  PROVE  DmiPart(Target, c) = value
<1> DEFINE n == DrBits
           d == DmiLen
           s == DmiPart(Target, c)
<1>1. /\ Len(DrChain) = n /\ n \in Nat /\ n > 0 /\ Offset(DrParts, Target) = after
  BY DrSelected
<1>2. Len(DrFirst) = n /\ DrFirst \in Seq({0, 1})
  <2>1. response \in Bits(DmiLen)
    BY DEF Registers
  <2> QED BY <2>1, DrFrame, Zenon DEF DrFirst
<1>3. value \in Bits(DmiLen)
  BY DEF Sent
<1>4. /\ DrWord \in Seq({0, 1}) /\ Len(DrWord) = n
      /\ \A i \in 1..n : DrWord[i] = IF after + 1 <= i /\ i <= after + d THEN value[i - after] ELSE 0
  BY <1>3, DrFrame, Zenon DEF DrWord
<1>5. Len(c) = n /\ \A i \in 1..n : c[i] = (DrFirst \o DrWord)[i + n]
  BY <1>2, Zenon DEF Shifted
<1>6. \A i \in Len(DrFirst) + 1..Len(DrFirst) + Len(DrWord) :
        (DrFirst \o DrWord)[i] = DrWord[i - Len(DrFirst)]
  BY <1>2, <1>4, Behind
<1> DEFINE cat == DrFirst \o DrWord
<1>7. \A i \in n + 1..n + n : cat[i] = DrWord[i - n]
  BY <1>2, <1>4, <1>6, Zenon
<1>8. s \in Bits(DmiLen) /\ \A i \in 1..d : s[i] = c[Offset(DrParts, Target) + i]
  <2>1. Target \in TapNo /\ ir[Target] = DMI
    BY DEF Lay, Selected
  <2>2. c \in Seq({0, 1}) /\ Len(c) = Len(DrChain)
    BY <1>1, <1>5
  <2> QED BY <2>1, <2>2, DmiPartOf
<1>9. after \in Nat /\ d \in Nat /\ d > 0 /\ before \in Nat /\ n = after + d + before
  BY ChainAssumption DEF Sent, DrBits
<1> HIDE DEF n, d, s, cat
<1>10. ASSUME NEW i \in 1..d PROVE s[i] = value[i]
  <2> DEFINE j == after + i
             l == j + n
  <2>1. j \in 1..n /\ l \in n + 1..n + n /\ l - n = j /\ j - after = i
        /\ after + 1 <= j /\ j <= after + d
    BY <1>1, <1>9
  <2>2. s[i] = c[j]
    BY <1>1, <1>8, Zenon
  <2>3. c[j] = cat[l]
    BY <1>5, <2>1, Zenon DEF cat
  <2> HIDE DEF j, l
  <2>4. cat[l] = DrWord[j]
    BY <1>7, <2>1, Zenon
  <2>5. DrWord[j] = value[i]
    BY <1>4, <2>1, Zenon
  <2> QED BY <2>2, <2>3, <2>4, <2>5
<1>11. s \in [1..d -> {0, 1}] /\ value \in [1..d -> {0, 1}] /\ d \in Nat
  BY <1>3, <1>8, <1>9, Zenon DEF Bits, d
<1>12. s = value
  BY <1>10, <1>11, Same
<1> QED BY <1>12 DEF s

\* What an access has shifted, captured and updated.
LEMMA TickDmi ==
  ASSUME IInv, Tick, TapInv'
  PROVE  DmiInv'
<1>1. /\ TypeOK /\ WireInv /\ TapInv /\ ShapeInv /\ IrInv /\ DmiInv /\ LayoutInv /\ Sent /\ Registers
      /\ board \in Boards /\ captured \in Seq({0, 1}) /\ chain \in Seq({0, 1})
  BY Types DEF IInv
<1>2. /\ UNCHANGED <<session, detected, after, response, value>> /\ IrBits' = IrBits /\ DrBits' = DrBits
      /\ Known' = Known /\ IrChain' = IrChain /\ IrWord' = IrWord /\ DrWord' = DrWord
      /\ DrFirst' = DrFirst /\ Target' = Target
  BY Kept DEF Tick, hostVars
<1> SUFFICES ASSUME Known, session = "dmi" PROVE DmiInv'
  BY <1>2 DEF DmiInv
<1>3. Lay
  <2>1. detected
    BY <1>1 DEF WireInv
  <2> QED BY <1>1, <2>1, LayOf
<1> DEFINE a == At
           b == At'
           m == IrBits
           n == DrBits
           d == DmiLen
           nib == Head(wire)
<1>4. /\ a \in 0..m + n + 17 /\ m \in Nat /\ m > 0 /\ n \in Nat /\ n > 0
      /\ 10 <= a /\ a <= m + 9 => nib.tdi = IrWord[(a - 10) + 1]
      /\ m + 15 <= a /\ a <= m + n + 14 => nib.tdi = DrWord[(a - (m + 15)) + 1]
      /\ nib.cap <=> /\ m + 15 <= a /\ a <= m + n + 14
                     /\ after <= a - (m + 15) /\ a - (m + 15) < after + DmiLen
  BY <1>1, DmiClock, Zenon
<1>5. b = a + 1
  BY <1>1, StepFacts
<1>6. /\ a > 5 => tap = DmiTap(a, m, n)
      /\ b > 5 => tap' = DmiTap(b, m, n)
  <2>1. a > 5 => tap = DmiTap(a, m, n)
    BY <1>1, Zenon DEF TapInv
  <2>2. b > 5 => tap' = DmiTap(b, IrBits', DrBits')
    BY <1>2 DEF TapInv, DmiTap
  <2> QED BY <1>2, <2>1, <2>2, Zenon
<1>7. /\ tap = "capdr" => chain' = DrChain
      /\ tap = "capir" => chain' = IrChain
      /\ tap \in {"shiftdr", "shiftir"} => chain' = Append(Tail(chain), nib.tdi)
      /\ tap \notin {"capdr", "capir", "shiftdr", "shiftir"} => chain' = chain
      /\ nib.cap => captured' = Append(captured, chain[1])
      /\ ~nib.cap => captured' = captured
      /\ dmi' = [t \in TapNo |-> IF tap' = "updr" /\ ir[t] = DMI THEN DmiPart(t, chain') ELSE dmi[t]]
  BY <1>1, Clock, Zenon
<1>8. /\ a >= 10 /\ a <= m + 11 => Shifted(chain, IrChain, IrWord, Least(a - 10, m))
      /\ a <= m + 15 => captured = <<>>
      /\ a >= m + 15 => /\ a <= m + n + 15 => Shifted(chain, DrFirst, DrWord, a - (m + 15))
                        /\ Agrees(captured, response, Caught(Least(a - (m + 15), n)))
      /\ a >= m + n + 16 => dmi[Target] = value
  BY <1>1, Zenon DEF DmiInv, Agrees
<1>9. /\ IrChain \in Seq({0, 1}) /\ Len(IrChain) > 0 /\ IrWord \in Seq({0, 1}) /\ Len(IrWord) = m
  BY <1>1, IrChainOf, IrWordOf DEF IrBits
<1>10. /\ DrFirst \in Seq({0, 1}) /\ Len(DrFirst) = n
       /\ \A i \in 1..n : DrFirst[i] = IF after + 1 <= i /\ i <= after + d THEN response[i - after] ELSE 0
  <2>1. response \in Bits(DmiLen)
    BY <1>1 DEF Registers
  <2> QED BY <1>1, <2>1, DrFrame, Zenon DEF DrFirst
<1>11. DrWord \in Seq({0, 1}) /\ Len(DrWord) = n
  <2>1. value \in Bits(DmiLen)
    BY <1>1 DEF Sent
  <2> QED BY <1>1, <2>1, DrFrame, Zenon DEF DrWord
<1>12. chain[1] \in {0, 1}
  <2>1. Len(chain) > 0 /\ 0 \in {0, 1}
    BY <1>1 DEF ShapeInv
  <2> QED BY <1>1, <2>1, ShiftLen
<1>13. a >= m + 11 => ir = Selected
  BY <1>1, Zenon DEF IrInv
<1>14. after \in Nat /\ d \in Nat /\ d > 0 /\ before \in Nat /\ n = after + d + before
  BY <1>1, ChainAssumption DEF Sent, DrBits
<1> HIDE DEF a, b, m, n, d, nib
<1>15. ASSUME b >= 10, b <= m + 11
       PROVE  Shifted(chain', IrChain, IrWord, Least(b - 10, m))
  <2>1. CASE a = 9
    <3>1. b - 10 = 0 /\ 0 <= m /\ a > 5
      BY <1>4, <1>5, <2>1
    <3>2. Least(b - 10, m) = 0
      BY <1>4, <3>1, Leasts
    <3>3. tap = "capir"
      BY <1>6, <2>1, <3>1 DEF DmiTap
    <3>4. Shifted(IrChain, IrChain, IrWord, 0)
      BY <1>9, Unshifted
    <3> QED BY <1>7, <3>2, <3>3, <3>4, Zenon
  <2>2. CASE 10 <= a /\ a <= m + 9
    <3> DEFINE k == a - 10
    <3>1. k \in Nat /\ k < m /\ b - 10 = k + 1 /\ k <= m /\ k + 1 <= m /\ k + 1 \in Nat /\ a <= m + 11
      BY <1>4, <1>5, <2>2
    <3>2. Least(k, m) = k /\ Least(k + 1, m) = k + 1
      BY <1>4, <3>1, Leasts
    <3>3. tap = "shiftir"
      <4>1. a > 5 /\ 10 <= a /\ a < m + 10 /\ a # 7 /\ a # 8 /\ a # 9
        BY <1>4, <2>2
      <4> QED BY <1>6, <4>1 DEF DmiTap
    <3>4. Shifted(chain, IrChain, IrWord, k) /\ nib.tdi = IrWord[k + 1]
      BY <1>4, <1>8, <2>2, <3>1, <3>2, Zenon
    <3>5. chain' = Append(Tail(chain), nib.tdi)
      BY <1>7, <3>3
    <3> HIDE DEF k
    <3>6. Shifted(Append(Tail(chain), nib.tdi), IrChain, IrWord, k + 1)
      <4>1. /\ chain \in Seq({0, 1}) /\ IrChain \in Seq({0, 1}) /\ IrWord \in Seq({0, 1}) /\ k \in Nat
            /\ Len(IrChain) > 0 /\ k < Len(IrWord)
        BY <1>1, <1>9, <3>1
      <4> QED BY <3>4, <4>1, ShiftStep
    <3> QED BY <3>1, <3>2, <3>5, <3>6, Zenon
  <2>3. CASE a = m + 10
    <3>1. a - 10 = m /\ b - 10 = m + 1 /\ m <= m + 1 /\ m <= m /\ a >= 10 /\ a <= m + 11 /\ m + 1 \in Nat /\ a > 5
      BY <1>4, <1>5, <2>3
    <3>2. Least(m, m) = m /\ Least(m + 1, m) = m
      BY <1>4, <3>1, Leasts
    <3>3. tap = "e1ir"
      <4>1. a # 7 /\ a # 8 /\ a # 9 /\ ~(a < m + 10)
        BY <1>4, <2>3
      <4> QED BY <1>6, <2>3, <3>1, <4>1 DEF DmiTap
    <3>4. tap \notin {"capdr", "capir", "shiftdr", "shiftir"}
      BY <3>3
    <3> QED BY <1>7, <1>8, <3>1, <3>2, <3>4, Zenon
  <2>4. a = 9 \/ (10 <= a /\ a <= m + 9) \/ a = m + 10
    BY <1>4, <1>5, <1>15
  <2> QED BY <2>1, <2>2, <2>3, <2>4
<1>16. ASSUME b <= m + 15 PROVE captured' = <<>>
  <2>1. ~nib.cap /\ a <= m + 15
    BY <1>4, <1>5, <1>16
  <2> QED BY <1>7, <1>8, <2>1, Zenon
<1>17. ASSUME b >= m + 15
       PROVE  /\ b <= m + n + 15 => Shifted(chain', DrFirst, DrWord, b - (m + 15))
              /\ Agrees(captured', response, Caught(Least(b - (m + 15), n)))
  <2>1. CASE a = m + 14
    <3>1. b - (m + 15) = 0 /\ 0 <= n /\ a > 5 /\ a >= m + 11 /\ b <= m + 15
      BY <1>4, <1>5, <2>1
    <3>2. Least(0, n) = 0 /\ Caught(0) = 0
      BY <1>1, <1>4, <3>1, Leasts, CaughtStep
    <3>3. tap = "capdr"
      <4>1. a # 7 /\ a # 8 /\ a # 9 /\ ~(a < m + 10) /\ a # m + 10 /\ a # m + 11 /\ a # m + 13
        BY <1>4, <2>1
      <4> QED BY <1>6, <2>1, <3>1, <4>1 DEF DmiTap
    <3>4. Shifted(DrChain, DrFirst, DrWord, 0)
      BY <1>1, <1>3, <1>13, <3>1, DrSelected
    <3>5. Agrees(<<>>, response, 0)
      BY DEF Agrees
    <3> QED BY <1>7, <1>16, <3>1, <3>2, <3>3, <3>4, <3>5, Zenon
  <2>2. CASE m + 15 <= a /\ a <= m + n + 14
    <3> DEFINE k == a - (m + 15)
    <3>1. k \in Nat /\ k < n /\ b - (m + 15) = k + 1 /\ k <= n /\ k + 1 <= n /\ k + 1 \in Nat
          /\ a <= m + n + 15
      BY <1>4, <1>5, <2>2
    <3>2. Least(k, n) = k /\ Least(k + 1, n) = k + 1
      BY <1>4, <3>1, Leasts
    <3>3. tap = "shiftdr"
      <4>1. /\ a > 5 /\ a # 7 /\ a # 8 /\ a # 9 /\ ~(a < m + 10) /\ a # m + 10 /\ a # m + 11 /\ a # m + 13
            /\ a # m + 14 /\ m + 15 <= a /\ a < m + n + 15
        BY <1>4, <2>2
      <4> QED BY <1>6, <4>1 DEF DmiTap
    <3>4. /\ Shifted(chain, DrFirst, DrWord, k) /\ nib.tdi = DrWord[k + 1]
          /\ Agrees(captured, response, Caught(k))
      BY <1>4, <1>8, <2>2, <3>1, <3>2, Zenon
    <3>5. chain' = Append(Tail(chain), nib.tdi)
      BY <1>7, <3>3
    <3>6. nib.cap <=> after <= k /\ k < after + d
      BY <1>4, <2>2, Zenon DEF d
    <3> HIDE DEF k
    <3>7. /\ Shifted(Append(Tail(chain), nib.tdi), DrFirst, DrWord, k + 1)
          /\ chain[1] = (DrFirst \o DrWord)[k + 1]
      <4>1. /\ chain \in Seq({0, 1}) /\ DrFirst \in Seq({0, 1}) /\ DrWord \in Seq({0, 1}) /\ k \in Nat
            /\ Len(DrFirst) > 0 /\ k < Len(DrWord)
        BY <1>1, <1>4, <1>10, <1>11, <3>1
      <4> QED BY <3>4, <4>1, ShiftStep
    <3>8. chain[1] = DrFirst[k + 1]
      <4>1. \A i \in 1..Len(DrFirst) : (DrFirst \o DrWord)[i] = DrFirst[i]
        BY <1>10, <1>11, Behind
      <4>2. k + 1 \in 1..n
        BY <1>4, <3>1
      <4> QED BY <1>10, <3>7, <4>1, <4>2, Zenon
    <3>9. Agrees(captured', response, Caught(k + 1))
      <4>1. CASE after <= k /\ k < after + d
        <5>1. Caught(k) = k - after /\ Caught(k + 1) = Caught(k) + 1
          BY <1>1, <3>1, <4>1, CaughtStep, Zenon DEF d
        <5> DEFINE j == k + 1
        <5>2. k - after \in Nat /\ j \in 1..n /\ after + 1 <= j /\ j <= after + d
              /\ j - after = (k - after) + 1
          BY <1>4, <1>14, <3>1, <4>1
        <5>3. captured' = Append(captured, chain[1])
          BY <1>7, <3>6, <4>1
        <5>4. chain[1] = response[(k - after) + 1]
          <6>1. chain[1] = DrFirst[j]
            BY <3>8
          <6> HIDE DEF j
          <6>2. DrFirst[j] = response[j - after]
            BY <1>10, <5>2, Zenon
          <6> QED BY <5>2, <6>1, <6>2, Zenon
        <5> DEFINE q == k - after
        <5>5. q \in Nat /\ Agrees(captured, response, q) /\ chain[1] = response[q + 1]
          BY <3>4, <5>1, <5>2, <5>4, Zenon
        <5> HIDE DEF q
        <5>6. Agrees(Append(captured, chain[1]), response, q + 1)
          BY <1>1, <1>12, <5>5, OneMore
        <5> QED BY <5>1, <5>3, <5>6, Zenon DEF q
      <4>2. CASE ~(after <= k /\ k < after + d)
        <5>1. captured' = captured
          BY <1>7, <3>6, <4>2
        <5>2. k < after \/ (after + d <= k /\ after + d <= k + 1)
          BY <1>14, <3>1, <4>2
        <5>3. Caught(k + 1) = Caught(k)
          BY <1>1, <3>1, <5>2, CaughtStep, Zenon DEF d
        <5> QED BY <3>4, <5>1, <5>3, Zenon
      <4> QED BY <4>1, <4>2
    <3> QED BY <3>1, <3>2, <3>5, <3>7, <3>9, Zenon
  <2>3. CASE a >= m + n + 15
    <3>1. /\ a - (m + 15) \in Nat /\ b - (m + 15) \in Nat /\ n <= a - (m + 15) /\ n <= b - (m + 15)
          /\ a >= m + 15 /\ ~nib.cap /\ ~(b <= m + n + 15)
      BY <1>4, <1>5, <2>3
    <3>2. Least(a - (m + 15), n) = n /\ Least(b - (m + 15), n) = n
      BY <1>4, <3>1, Leasts
    <3> QED BY <1>7, <1>8, <3>1, <3>2, Zenon
  <2>4. a = m + 14 \/ (m + 15 <= a /\ a <= m + n + 14) \/ a >= m + n + 15
    BY <1>4, <1>5, <1>17
  <2> QED BY <2>1, <2>2, <2>3, <2>4
<1>18. ASSUME b >= m + n + 16 PROVE dmi'[Target] = value
  <2>1. Target \in TapNo
    BY <1>3 DEF Lay
  <2>2. CASE a = m + n + 15
    <3>1. b > 5 /\ a > 5 /\ a >= m + 15 /\ a <= m + n + 15 /\ a - (m + 15) = n /\ a >= m + 11 /\ b = m + n + 16
      BY <1>4, <1>5, <2>2
    <3>2. tap = "e1dr"
      <4>1. /\ a # 7 /\ a # 8 /\ a # 9 /\ ~(a < m + 10) /\ a # m + 10 /\ a # m + 11 /\ a # m + 13
            /\ a # m + 14 /\ ~(a < m + n + 15)
        BY <1>4, <2>2
      <4> QED BY <1>6, <2>2, <3>1, <4>1 DEF DmiTap
    <3>3. tap' = "updr"
      <4>1. /\ b # 7 /\ b # 8 /\ b # 9 /\ ~(b < m + 10) /\ b # m + 10 /\ b # m + 11 /\ b # m + 13
            /\ b # m + 14 /\ ~(b < m + n + 15) /\ b # m + n + 15
        BY <1>4, <1>5, <2>2
      <4> QED BY <1>6, <3>1, <4>1 DEF DmiTap
    <3>4. chain' = chain
      <4>1. tap \notin {"capdr", "capir", "shiftdr", "shiftir"}
        BY <3>2
      <4> QED BY <1>7, <4>1, Zenon
    <3>5. Shifted(chain, DrFirst, DrWord, n) /\ ir = Selected
      BY <1>8, <1>13, <3>1, Zenon
    <3>6. DmiPart(Target, chain) = value
      BY <1>1, <1>3, <3>5, WordLanded DEF n
    <3>7. ir[Target] = DMI
      BY <2>1, <3>5 DEF Selected
    <3>8. dmi'[Target] = DmiPart(Target, chain')
      BY <1>7, <2>1, <3>3, <3>7, Zenon
    <3> QED BY <3>4, <3>6, <3>8, Zenon
  <2>3. CASE a # m + n + 15
    <3>1. b > 5 /\ a >= m + n + 16 /\ b > m + n + 16
      BY <1>4, <1>5, <1>18, <2>3
    <3>2. tap' # "updr"
      <4>1. /\ b # 7 /\ b # 8 /\ b # 9 /\ ~(b < m + 10) /\ b # m + 10 /\ b # m + 11 /\ b # m + 13
            /\ b # m + 14 /\ ~(b < m + n + 15) /\ b # m + n + 15 /\ b # m + n + 16
        BY <1>4, <1>5, <3>1
      <4>2. tap' = "idle"
        BY <1>6, <3>1, <4>1 DEF DmiTap
      <4> QED BY <4>2
    <3>3. dmi'[Target] = dmi[Target]
      BY <1>7, <2>1, <3>2, Zenon
    <3> QED BY <1>8, <3>1, <3>3, Zenon
  <2> QED BY <2>2, <2>3
<1>19. /\ At' >= 10 /\ At' <= IrBits' + 11 => Shifted(chain', IrChain', IrWord', Least(At' - 10, IrBits'))
       /\ At' <= IrBits' + 15 => captured' = <<>>
       /\ At' >= IrBits' + 15 =>
            /\ At' <= IrBits' + DrBits' + 15 => Shifted(chain', DrFirst', DrWord', At' - (IrBits' + 15))
            /\ Agrees(captured', response', Caught(Least(At' - (IrBits' + 15), DrBits')))
       /\ At' >= IrBits' + DrBits' + 16 => (dmi[Target])' = value'
  BY <1>2, <1>15, <1>16, <1>17, <1>18, Zenon DEF b, m, n
<1> QED BY <1>2, <1>19 DEF DmiInv, Agrees, Caught, Least

-----------------------------------------------------------------------------
(* The invariant is kept by every step. *)

\* The layout is kept by a step that leaves the chain and the host's view of it alone.
LEMMA LayoutKept ==
  ASSUME LayoutInv, UNCHANGED <<after, before, index, detected, board>>
  PROVE  LayoutInv'
BY DEF LayoutInv, IdCode, Override, NTaps

\* The length of the registers is kept by a step of the host.
LEMMA ShapeKept ==
  ASSUME ShapeInv, UNCHANGED deviceVars
  PROVE  ShapeInv'
<1>1. UNCHANGED <<board, tap, ir, chain, response, dmi>>
  BY DEF deviceVars
<1>2. DrChain' = DrChain
  BY <1>1 DEF DrChain, DrParts, OverChain, TapNo, NTaps, DrOf, IdCode
<1>3. NTaps' = NTaps
  BY <1>1 DEF NTaps
<1> QED BY <1>1, <1>2, <1>3 DEF ShapeInv, IrShape, DrShape

\* A clock.
LEMMA TickKeeps ==
  ASSUME IInv, Tick
  PROVE  IInv'
<1>1. TypeOK /\ WireInv /\ TapInv /\ ShapeInv /\ LayoutInv /\ Sent
  BY Types DEF IInv
<1>2. TapInv'
  BY <1>1, TickTap
<1>3. ShapeInv'
  BY <1>1, TickShape
<1>4. TypeOK'
  BY <1>1, TickType
<1>5. DmiInv'
  BY <1>2, TickDmi
<1>6. IdInv'
  BY TickId
<1>7. ASSUME Known, session = "dmi", At' = IrBits + 11 PROVE Shifted(chain', IrChain, IrWord, IrBits)
  <2>1. /\ session' = session /\ IrBits' = IrBits /\ Known' = Known /\ IrChain' = IrChain /\ IrWord' = IrWord
    BY Kept DEF Tick, hostVars
  <2>2. IrBits \in Nat
    BY <1>1, IrWordOf
  <2> DEFINE m == IrBits
             b == At'
  <2>3. Known' /\ session' = "dmi" /\ b = m + 11
    BY <1>7, <2>1
  <2>4. b >= 10 /\ b <= m + 11 => Shifted(chain', IrChain, IrWord, Least(b - 10, m))
    BY <1>5, <2>1, <2>3 DEF DmiInv, Least
  <2> HIDE DEF m, b
  <2>5. m \in Nat
    BY <2>2 DEF m
  <2>6. b >= 10 /\ b <= m + 11 /\ b - 10 \in Nat /\ m <= b - 10
    BY <2>3, <2>5
  <2>7. Least(b - 10, m) = m
    BY <2>5, <2>6, Leasts
  <2> QED BY <2>4, <2>6, <2>7, Zenon DEF m
<1>8. IrInv'
  BY <1>2, <1>4, <1>7, TickIr
<1>9. WireInv'
  BY <1>1, StepFacts
<1>10. LayoutInv'
  <2>1. UNCHANGED <<after, before, index, detected, board>>
    BY DEF Tick, hostVars
  <2> QED BY <1>1, <2>1, LayoutKept
<1> QED BY <1>2, <1>3, <1>4, <1>5, <1>6, <1>8, <1>9, <1>10 DEF IInv

\* A stream that has been delivered leaves every TAP in Run-Test/Idle.
LEMMA Delivered ==
  ASSUME TypeOK, WireInv, TapInv, Busy, wire = <<>>
  PROVE  /\ tap = "idle" /\ state = "idle"
         /\ session \in {"detect", "idcode"} => At = IdBits + 11 /\ IdBits \in Nat /\ IdBits > 0
         /\ session = "dmi" => /\ At = IrBits + DrBits + 18 /\ IrBits \in Nat /\ IrBits > 0
                               /\ DrBits \in Nat /\ DrBits > 0
<1>1. Sent /\ Len(wire) = 0 /\ state = "idle"
  BY Types, EmptySeq DEF WireInv
<1>2. At = Len(Stream) - 0
  BY <1>1 DEF At
<1>3. CASE session \in {"detect", "idcode"}
  <2> DEFINE a == At
             n == IdBits
             l == Len(Stream)
  <2>1. n \in Nat /\ n > 0 /\ l = n + 11
    BY <1>1, <1>3, IdSends, Zenon
  <2>2. a > 5 => tap = IdTap(a, n)
    BY <1>3, Zenon DEF TapInv
  <2>3. a = l - 0
    BY <1>2
  <2> HIDE DEF a, n, l
  <2>4. a = n + 11 /\ tap = "idle"
    <3>1. a = n + 11 /\ a > 5
      BY <2>1, <2>3
    <3> QED BY <2>1, <2>2, <3>1 DEF IdTap
  <2>5. session # "dmi"
    BY <1>3
  <2> QED BY <1>1, <2>1, <2>4, <2>5, Zenon DEF a, n
<1>4. CASE session = "dmi"
  <2> DEFINE a == At
             m == IrBits
             n == DrBits
             l == Len(Stream)
  <2>1. m \in Nat /\ m > 0 /\ n \in Nat /\ n > 0 /\ l = m + n + 18
    BY <1>1, <1>4, DmiSends, Zenon
  <2>2. a > 5 => tap = DmiTap(a, m, n)
    BY <1>4, Zenon DEF TapInv
  <2>3. a = l - 0
    BY <1>2
  <2> HIDE DEF a, m, n, l
  <2>4. a = m + n + 18 /\ tap = "idle"
    <3>1. a = m + n + 18 /\ a > 5
      BY <2>1, <2>3
    <3> QED BY <2>1, <2>2, <3>1 DEF DmiTap
  <2>5. session \notin {"detect", "idcode"}
    BY <1>4
  <2> QED BY <1>1, <2>1, <2>4, <2>5, Zenon DEF a, m, n
<1> QED BY <1>3, <1>4 DEF Busy

\* A session that has ended sends nothing and owes nothing.
LEMMA Quiet ==
  ASSUME IInv, ~Busy', wire' = <<>>, UNCHANGED deviceVars,
         breaks' = 0 /\ detected' => tap = "idle", TypeOK', LayoutInv'
  PROVE  IInv'
<1>1. ShapeInv /\ tap' = tap
  BY DEF IInv, deviceVars
<1>2. ShapeInv'
  BY <1>1, ShapeKept
<1>3. session' \notin {"detect", "idcode", "dmi"}
  BY DEF Busy
<1>4. WireInv'
  BY <1>3 DEF WireInv, Busy
<1>5. TapInv'
  BY <1>1, <1>3 DEF TapInv, Busy
<1>6. IrInv' /\ IdInv' /\ DmiInv'
  BY <1>3 DEF IrInv, IdInv, DmiInv
<1> QED BY <1>2, <1>4, <1>5, <1>6 DEF IInv

\* A broken stream.
LEMMA BreakKeeps ==
  ASSUME IInv, Break
  PROVE  IInv'
<1>1. /\ UNCHANGED <<state, after, before, index, detected, value, result, sessions, captured>>
      /\ UNCHANGED deviceVars /\ UNCHANGED <<board, tap, ir, chain, response, dmi>>
      /\ wire' = <<>> /\ session' = "failed" /\ breaks' = breaks + 1 /\ breaks < MaxBreaks
  BY DEF Break, deviceVars
<1>2. TypeOK /\ LayoutInv
  BY DEF IInv
<1>3. breaks' \in 0..MaxBreaks /\ breaks' # 0
  BY <1>1, <1>2, ChainAssumption DEF TypeOK
<1>4. TypeOK'
  <2>1. <<>> \in Seq([tms : {0, 1}, tdi : {0, 1}, cap : BOOLEAN])
    OBVIOUS
  <2> QED BY <1>1, <1>2, <1>3, <2>1 DEF TypeOK, TapNo, NTaps
<1>5. LayoutInv'
  BY <1>1, <1>2, LayoutKept
<1>6. ~Busy'
  BY <1>1 DEF Busy
<1> QED BY <1>1, <1>3, <1>4, <1>5, <1>6, Quiet

\* The end of a session that read.
LEMMA CollectKeeps ==
  ASSUME IInv, Collect
  PROVE  IInv'
<1>1. /\ UNCHANGED <<state, after, before, index, detected, value, sessions, breaks, wire, captured>>
      /\ UNCHANGED deviceVars /\ UNCHANGED <<board, tap, ir, chain, response, dmi>>
      /\ wire = <<>> /\ session' = "none" /\ session \in {"idcode", "dmi"}
  BY DEF Collect, deviceVars
<1>2. TypeOK /\ LayoutInv /\ WireInv /\ TapInv
  BY DEF IInv
<1>3. TypeOK'
  BY <1>1, <1>2 DEF TypeOK, TapNo, NTaps
<1>4. LayoutInv'
  BY <1>1, <1>2, LayoutKept
<1>5. ~Busy' /\ Busy
  BY <1>1 DEF Busy
<1>6. tap = "idle"
  BY <1>1, <1>2, <1>5, Delivered
<1> QED BY <1>1, <1>3, <1>4, <1>5, <1>6, Quiet

\* The opening of a session, whatever it sends.
LEMMA Opens ==
  ASSUME IInv, session \in {"none", "failed"}, session' \in {"detect", "idcode", "dmi"},
         wire' = Stream', wire' \in Seq(Nibble), captured' = <<>>, state' = "idle",
         UNCHANGED <<after, before, index, detected, breaks>>, UNCHANGED deviceVars,
         session' = "detect" => ~detected, session' \in {"idcode", "dmi"} => detected, TypeOK'
  PROVE  IInv'
<1>1. /\ TypeOK /\ TapInv /\ ShapeInv /\ LayoutInv /\ Sent /\ tap \in TapState
      /\ UNCHANGED <<board, tap, ir, chain, response, dmi>>
  BY Types DEF IInv, deviceVars
<1>2. Len(wire') \in Nat
  BY LenProperties
<1>3. At' = 0
  <2>1. At' = Len(Stream') - Len(wire') /\ Len(Stream') = Len(wire')
    BY DEF At
  <2> HIDE DEF At, Stream
  <2> QED BY <1>2, <2>1
<1>4. ~Busy /\ Busy'
  BY DEF Busy
<1>5. WireInv'
  <2> DEFINE l == Len(wire')
  <2>1. Len(wire') <= Len(Stream')
    <3>1. Len(Stream') = l
      OBVIOUS
    <3> HIDE DEF l, Stream
    <3>2. l <= l
      BY <1>2 DEF l
    <3> QED BY <3>1, <3>2 DEF l
  <2>2. ASSUME NEW i \in 1..Len(wire') PROVE wire'[i] = Stream'[At' + i]
    <3>1. At' + i = i
      BY <1>2, <1>3
    <3> QED BY <3>1, Zenon
  <2>3. /\ session' = "detect" => ~detected'
        /\ session' \in {"idcode", "dmi"} => detected'
    OBVIOUS
  <2> QED BY <1>4, <2>1, <2>2, <2>3 DEF WireInv
<1>6. TapInv'
  <2>1. tap' \in Resetting(0)
    BY <1>1 DEF Resetting
  <2>2. breaks' = 0 /\ detected' => tap' = Clean(0)
    BY <1>1, <1>4 DEF TapInv, Clean
  <2>3. tap' \in Resetting(At') /\ (breaks' = 0 /\ detected' => tap' = Clean(At')) /\ ~(At' > 5)
    BY <1>3, <2>1, <2>2
  <2> QED BY <1>4, <2>3 DEF TapInv, Resetting, Clean
<1>7. IrBits' = IrBits /\ IrBits \in Nat /\ DrBits' = DrBits /\ DrBits \in Nat
  <2>1. IrBits' = IrBits /\ DrBits' = DrBits
    BY DEF IrBits, IrWord, DrBits
  <2>2. value \in Bits(DmiLen)
    BY <1>1 DEF Sent
  <2> QED BY <1>1, <2>1, <2>2, IrWordOf, DrFrame, Zenon
<1>8. IrInv' /\ IdInv' /\ DmiInv'
  <2> DEFINE b == At'
             m == IrBits'
             n == DrBits'
  <2>1. b = 0 /\ m \in Nat /\ n \in Nat
    BY <1>3, <1>7
  <2> HIDE DEF b, m, n
  <2>2. /\ ~(b >= 5) /\ ~(b >= m + 11) /\ ~(b >= 9) /\ ~(b >= 10) /\ ~(b >= m + 15) /\ ~(b >= m + n + 16)
    BY <2>1
  <2>3. /\ ~(At' >= 5) /\ ~(At' >= IrBits' + 11) /\ ~(At' >= 9) /\ ~(At' >= 10)
        /\ ~(At' >= IrBits' + 15) /\ ~(At' >= IrBits' + DrBits' + 16)
    BY <2>2, Zenon DEF b, m, n
  <2>4. IrInv'
    BY <2>3, Zenon DEF IrInv
  <2>5. IdInv'
    BY <2>3, Zenon DEF IdInv
  <2>6. DmiInv'
    BY <2>3, Zenon DEF DmiInv
  <2> QED BY <2>4, <2>5, <2>6
<1>9. ShapeInv' /\ LayoutInv'
  BY <1>1, ShapeKept, LayoutKept
<1> QED BY <1>5, <1>6, <1>8, <1>9 DEF IInv

\* The types after the opening of a session.
LEMMA OpensType ==
  ASSUME TypeOK, NEW kind \in {"detect", "idcode", "dmi"}, NEW nibbles \in Seq(Nibble),
         Begin(kind, nibbles), value' \in Bits(DmiLen)
  PROVE  TypeOK'
<1>1. /\ UNCHANGED <<after, before, index, detected, breaks>> /\ UNCHANGED <<board, tap, ir, chain, response, dmi>>
      /\ session' = kind /\ wire' = nibbles /\ captured' = <<>> /\ state' = "idle"
      /\ sessions' = sessions + 1 /\ sessions < MaxSessions
  BY DEF Begin, deviceVars
<1>2. sessions' \in 0..MaxSessions
  BY <1>1, ChainAssumption DEF TypeOK
<1>3. <<>> \in Seq({0, 1}) /\ "idle" \in TapState
  BY DEF TapState
<1>4. wire' \in Seq([tms : {0, 1}, tdi : {0, 1}, cap : BOOLEAN])
  BY <1>1 DEF Nibble
<1> QED BY <1>1, <1>2, <1>3, <1>4 DEF TypeOK, TapNo, NTaps

\* The detection, ...
LEMMA DetectKeeps ==
  ASSUME IInv, Detect
  PROVE  IInv'
<1> DEFINE n == 3 * IdLen
           s == IdStream(n)
<1>1. TypeOK /\ value \in Bits(DmiLen) /\ n \in Nat /\ n > 0
  <2>1. IdLen \in Nat /\ IdLen > 0
    BY ChainAssumption
  <2> QED BY <2>1 DEF IInv, TypeOK
<1>2. s \in Seq(Nibble)
  BY <1>1, IdNibbles
<1>3. Begin("detect", s) /\ ~detected /\ value' = value
  BY Zenon DEF Detect, IdStream
<1> HIDE DEF s
<1>4. TypeOK'
  BY <1>1, <1>2, <1>3, OpensType
<1>5. /\ session \in {"none", "failed"} /\ session' = "detect" /\ wire' = s /\ captured' = <<>> /\ state' = "idle"
      /\ UNCHANGED <<after, before, index, detected, breaks>> /\ UNCHANGED deviceVars
  BY <1>3 DEF Begin
<1>6. Stream' = s
  <2>1. IdBits' = n
    BY <1>5 DEF IdBits
  <2>2. Stream' = IdStream(IdBits')
    BY <1>5 DEF Stream
  <2> QED BY <2>1, <2>2, Zenon DEF s
<1> QED BY <1>2, <1>3, <1>4, <1>5, <1>6, Opens

\* ... the read of the IDCODE ...
LEMMA ReadIdcodeKeeps ==
  ASSUME IInv, ReadIdcode
  PROVE  IInv'
<1> DEFINE n == (index + 1) * IdLen
           s == IdStream(n)
<1>1. TypeOK /\ value \in Bits(DmiLen) /\ n \in Nat /\ n > 0
  <2>1. IdLen \in Nat /\ IdLen > 0 /\ TypeOK
    BY ChainAssumption DEF IInv
  <2>2. index = 0 \/ index = 1 \/ index = 2
    BY <2>1 DEF TypeOK
  <2>3. n \in Nat /\ n > 0
    BY <2>1, <2>2
  <2> QED BY <2>1, <2>3 DEF TypeOK
<1>2. s \in Seq(Nibble)
  <2> HIDE DEF n
  <2> QED BY <1>1, IdNibbles
<1>3. Begin("idcode", s) /\ detected /\ value' = value
  BY Zenon DEF ReadIdcode, IdStream
<1> HIDE DEF s
<1>4. TypeOK'
  BY <1>1, <1>2, <1>3, OpensType
<1>5. /\ session \in {"none", "failed"} /\ session' = "idcode" /\ wire' = s /\ captured' = <<>> /\ state' = "idle"
      /\ UNCHANGED <<after, before, index, detected, breaks>> /\ UNCHANGED deviceVars
  BY <1>3 DEF Begin
<1>6. Stream' = s
  <2>1. IdBits' = n
    BY <1>5 DEF IdBits
  <2>2. Stream' = IdStream(IdBits')
    BY <1>5 DEF Stream
  <2> QED BY <2>1, <2>2, Zenon DEF s
<1> QED BY <1>2, <1>3, <1>4, <1>5, <1>6, Opens

\* ... and an access.
LEMMA AccessKeeps ==
  ASSUME IInv, NEW word \in Bits(DmiLen), Access(word)
  PROVE  IInv'
<1> DEFINE y == Zeros(after) \o word \o Zeros(before)
           s == DmiStream(IrWord, y, after, after + DmiLen)
<1>1. TypeOK /\ Sent
  BY Types DEF IInv
<1>2. s \in Seq(Nibble)
  <2> DEFINE m == IrBits
             n == DrBits
  <2>1. y \in Seq({0, 1}) /\ Len(y) = n /\ n \in Nat /\ n > 0
    BY <1>1, DrFrame, Zenon
  <2>2. IrWord \in Seq({0, 1}) /\ m \in Nat /\ m > 0 /\ m = Len(IrWord)
    BY <1>1, IrWordOf DEF IrBits
  <2>3. after \in Nat /\ after + DmiLen \in Nat
    BY <1>1, ChainAssumption DEF Sent
  <2> HIDE DEF y
  <2>4. IsDmiStream(s, IrWord, y, after, after + DmiLen, m, n)
    BY <2>1, <2>2, <2>3, DmiNibbles
  <2> QED BY <2>4, Zenon DEF IsDmiStream
<1>3. Begin("dmi", s) /\ detected /\ value' = word
  BY Zenon DEF Access, DmiStream, ScanIr, ScanDrResp, IrWord
<1>5. /\ session \in {"none", "failed"} /\ session' = "dmi" /\ wire' = s /\ captured' = <<>> /\ state' = "idle"
      /\ UNCHANGED <<after, before, index, detected, breaks>> /\ UNCHANGED deviceVars
  <2> HIDE DEF s
  <2> QED BY <1>3 DEF Begin
<1>6. Stream' = s
  <2>1. IrWord' = IrWord /\ DrWord' = y /\ after' = after
    BY <1>3, <1>5 DEF IrWord, DrWord
  <2> HIDE DEF y
  <2>2. Stream' = DmiStream(IrWord', DrWord', after', after' + DmiLen)
    BY <1>5 DEF Stream
  <2> QED BY <2>1, <2>2, Zenon
<1> HIDE DEF s
<1>4. TypeOK'
  BY <1>1, <1>2, <1>3, OpensType
<1> QED BY <1>2, <1>3, <1>4, <1>5, <1>6, Opens

\* As many IDCODEs as TAPs among the three words shifted out.
LEMMA Counted ==
  ASSUME board \in Boards, NEW ids,
         \A k \in 0..2 : ids[k] = IF k < NTaps THEN IdCode(k) ELSE Zeros(IdLen)
  PROVE  Cardinality({k \in 0..2 : ids[k] # Zeros(IdLen)}) = NTaps /\ ids[0] = IdCode(0)
<1> DEFINE n == NTaps
           S == {k \in 0..2 : ids[k] # Zeros(IdLen)}
<1>1. n \in 1..3 /\ TapNo = 0..n - 1 /\ \A t \in TapNo : IdCode(t) # Zeros(IdLen)
  BY BoardOf DEF TapNo
<1>2. \A k \in 0..2 : ids[k] # Zeros(IdLen) <=> k < n
  <2>1. \A k \in 0..2 : k < n => k \in TapNo
    <3> HIDE DEF n
    <3> QED BY <1>1
  <2> QED BY <1>1, <2>1
<1> HIDE DEF n
<1>3. S = 0..n - 1
  <2>1. \A k : k \in S <=> k \in 0..2 /\ k < n
    BY <1>2
  <2>2. \A k : k \in 0..2 /\ k < n <=> k \in 0..n - 1
    BY <1>1
  <2> HIDE DEF S
  <2> QED BY <2>1, <2>2
<1>4. Cardinality(0..n - 1) = n
  <2>1. 0 \in Int /\ n - 1 \in Int /\ ~(0 > n - 1) /\ (n - 1) - 0 + 1 = n
    BY <1>1
  <2>2. Cardinality(0..n - 1) = IF 0 > n - 1 THEN 0 ELSE (n - 1) - 0 + 1
    BY <2>1, FS_Interval
  <2> QED BY <2>1, <2>2, Zenon
<1>5. ids[0] = IdCode(0)
  <2>1. 0 \in 0..2 /\ 0 < n
    BY <1>1
  <2> QED BY <2>1, Zenon DEF n
<1> QED BY <1>3, <1>4, <1>5, Zenon DEF n

\* The end of the detection: the layout is that of the table or of the caller.
LEMMA DetectedKeeps ==
  ASSUME IInv, Detected
  PROVE  IInv'
<1> DEFINE ids == [k \in 0..2 |-> SubSeq(captured, k * IdLen + 1, (k + 1) * IdLen)]
           num == Cardinality({k \in 0..2 : ids[k] # Zeros(IdLen)})
           tab == IdCode(0) \in DOMAIN ChainTable
           row == ChainTable[IdCode(0)]
           out == Override # NoOverride /\ Override >= NTaps
           picks == Override # NoOverride /\ ~out
<1>1. /\ TypeOK /\ WireInv /\ TapInv /\ IdInv /\ LayoutInv /\ Sent /\ board \in Boards
      /\ captured \in Seq({0, 1})
  BY Types DEF IInv
<1>2. /\ session = "detect" /\ wire = <<>> /\ session' = (IF out THEN "failed" ELSE "none") /\ detected' = ~out
      /\ after' = IF picks THEN Override ELSE IF tab THEN row ELSE after
      /\ before' = IF picks THEN NTaps - 1 - Override ELSE IF tab THEN 0 ELSE before
      /\ index' = IF picks THEN Override ELSE IF tab THEN row ELSE index
      /\ UNCHANGED <<state, value, result, sessions, breaks, wire, captured, deviceVars>>
  <2>1. session = "detect" /\ wire = <<>> /\ Busy
    BY DEF Detected, Busy
  <2> DEFINE a == At
             n == IdBits
  <2>2. a = n + 11 /\ n \in Nat /\ n > 0
    BY <1>1, <2>1, Delivered
  <2>3. n = 3 * IdLen /\ IdLen \in Nat
    BY <2>1, ChainAssumption DEF IdBits
  <2>4. /\ a >= 9 => /\ Len(captured) = Least(a - 9, n)
                     /\ \A i \in 1..Len(captured) : captured[i] = (IdChain \o Zeros(n))[i]
    BY <1>1, <2>1, Zenon DEF IdInv
  <2> HIDE DEF a, n
  <2>5. a >= 9 /\ a - 9 \in Nat /\ n <= a - 9
    BY <2>2
  <2>6. Least(a - 9, n) = n
    BY <2>2, <2>5, Leasts
  <2>7. Len(captured) = n /\ \A i \in 1..n : captured[i] = (IdChain \o Zeros(n))[i]
    BY <2>4, <2>5, <2>6, Zenon
  <2>8. \A k \in 0..2 : (k + 1) * IdLen <= n
    <3>1. ASSUME NEW k \in 0..2 PROVE (k + 1) * IdLen <= n
      <4>1. k = 0 \/ k = 1 \/ k = 2
        OBVIOUS
      <4> QED BY <2>3, <4>1
    <3> QED BY <3>1
  <2>9. \A k \in 0..2 : ids[k] = IF k < NTaps THEN IdCode(k) ELSE Zeros(IdLen)
    <3>1. ASSUME NEW k \in 0..2
          PROVE  SubSeq(captured, k * IdLen + 1, (k + 1) * IdLen)
                   = IF k < NTaps THEN IdCode(k) ELSE Zeros(IdLen)
      <4>1. /\ board \in Boards /\ captured \in Seq({0, 1}) /\ n \in Nat /\ (k + 1) * IdLen <= n
            /\ Len(captured) = n /\ \A i \in 1..n : captured[i] = (IdChain \o Zeros(n))[i]
        BY <1>1, <2>2, <2>7, <2>8, Zenon
      <4> QED BY <4>1, IdAt
    <3>2. \A k \in 0..2 : ids[k] = SubSeq(captured, k * IdLen + 1, (k + 1) * IdLen)
      OBVIOUS
    <3> HIDE DEF ids
    <3> QED BY <3>1, <3>2, Zenon
  <2> HIDE DEF ids
  <2>10. num = NTaps /\ ids[0] = IdCode(0)
    BY <1>1, <2>9, Counted
  <2> DEFINE o2 == Override # NoOverride /\ Override >= num
             p2 == Override # NoOverride /\ ~o2
             t2 == ids[0] \in DOMAIN ChainTable
  <2>11. /\ session' = (IF o2 THEN "failed" ELSE "none") /\ detected' = ~o2
         /\ after' = IF p2 THEN Override ELSE IF t2 THEN ChainTable[ids[0]] ELSE after
         /\ before' = IF p2 THEN num - 1 - Override ELSE IF t2 THEN 0 ELSE before
         /\ index' = IF p2 THEN Override ELSE IF t2 THEN ChainTable[ids[0]] ELSE index
         /\ UNCHANGED <<state, value, result, sessions, breaks, wire, captured, deviceVars>>
    BY Zenon DEF Detected, ids
  <2> HIDE DEF num
  <2> QED BY <2>1, <2>10, <2>11, Zenon
<1>3. /\ NTaps \in 1..3 /\ Override \in Nat /\ (tab => row \in 0..2) /\ NTaps' = NTaps /\ Override' = Override
      /\ IdCode(0)' = IdCode(0)
  <2>1. UNCHANGED board
    BY <1>2 DEF deviceVars
  <2> QED BY <1>1, <2>1, BoardOf, ChainAssumption DEF NTaps, Override, IdCode
<1> DEFINE n == NTaps
           o == Override
<1>4. n \in 1..3 /\ o \in Nat /\ (tab => row \in 0..2) /\ after \in 0..2 /\ before \in 0..2 /\ index \in 0..2
  BY <1>1, <1>3 DEF Sent
<1>5. ~detected
  BY <1>1, <1>2 DEF WireInv
<1>6. \/ after = 0 /\ before = 0 /\ index = 0
      \/ tab /\ after = row /\ before = 0 /\ index = after
  BY <1>1, <1>5 DEF LayoutInv
<1> HIDE DEF ids, num, tab, row, n, o
<1>7. after' \in 0..2 /\ before' \in 0..2 /\ index' \in 0..2 /\ detected' \in BOOLEAN
      /\ session' \in {"none", "failed"}
  <2>1. CASE o = NoOverride
    BY <1>2, <1>4, <2>1 DEF o
  <2>2. CASE o # NoOverride /\ o >= n
    BY <1>2, <1>4, <2>2 DEF o, n
  <2>3. CASE o # NoOverride /\ ~(o >= n)
    <3>1. /\ after' = o /\ before' = n - 1 - o /\ index' = o /\ session' = "none" /\ detected' = TRUE
      BY <1>2, <2>3 DEF o, n
    <3> QED BY <1>4, <2>3, <3>1
  <2> QED BY <2>1, <2>2, <2>3
<1>8. TypeOK'
  <2>1. UNCHANGED <<state, value, result, sessions, breaks, wire, captured, board, tap, ir, chain, response, dmi>>
    BY <1>2 DEF deviceVars
  <2> QED BY <1>1, <1>7, <2>1 DEF TypeOK, TapNo, NTaps
<1>9. LayoutInv'
  <2>1. /\ ~detected' => \/ after' = 0 /\ before' = 0 /\ index' = 0
                         \/ tab /\ after' = row /\ before' = 0 /\ index' = after'
        /\ detected' => IF o # NoOverride
                        THEN o < n /\ after' = o /\ before' = n - 1 - o /\ index' = o
                        ELSE IF tab THEN after' = row /\ before' = 0 /\ index' = after'
                        ELSE after' = 0 /\ before' = 0 /\ index' = 0
    <3>1. CASE o = NoOverride
      <4>1. /\ detected' = TRUE
            /\ after' = (IF tab THEN row ELSE after) /\ before' = (IF tab THEN 0 ELSE before)
            /\ index' = (IF tab THEN row ELSE index)
        BY <1>2, <3>1 DEF o
      <4> QED BY <1>6, <3>1, <4>1
    <3>2. CASE o # NoOverride /\ o >= n
      <4>1. /\ detected' = FALSE
            /\ after' = (IF tab THEN row ELSE after) /\ before' = (IF tab THEN 0 ELSE before)
            /\ index' = (IF tab THEN row ELSE index)
        BY <1>2, <3>2 DEF o, n
      <4> QED BY <1>6, <3>2, <4>1
    <3>3. CASE o # NoOverride /\ ~(o >= n)
      <4>1. /\ after' = o /\ before' = n - 1 - o /\ index' = o /\ detected' = TRUE
        BY <1>2, <3>3 DEF o, n
      <4>2. o < n
        BY <1>4, <3>3
      <4> QED BY <3>3, <4>1, <4>2
    <3> QED BY <3>1, <3>2, <3>3
  <2> QED BY <1>3, <2>1 DEF LayoutInv, tab, row, n, o
<1>10. tap = "idle"
  <2>1. Busy /\ wire = <<>>
    BY <1>2 DEF Busy
  <2> QED BY <1>1, <2>1, Delivered
<1>11. ~Busy' /\ wire' = <<>> /\ UNCHANGED deviceVars
  <2>1. wire' = <<>> /\ UNCHANGED deviceVars
    BY <1>2, Zenon
  <2>2. ~Busy'
    BY <1>7 DEF Busy
  <2> QED BY <2>1, <2>2
<1> QED BY <1>8, <1>9, <1>10, <1>11, Quiet

\* A step that changes nothing.
LEMMA StutterKeeps ==
  ASSUME IInv, UNCHANGED vars
  PROVE  IInv'
<1>1. /\ UNCHANGED <<state, after, before, index, detected, session, value, result, sessions, breaks>>
      /\ UNCHANGED <<wire, captured>> /\ UNCHANGED <<board, tap, ir, chain, response, dmi>>
      /\ UNCHANGED deviceVars
  BY DEF vars, hostVars, deviceVars
<1>2. /\ TypeOK /\ WireInv /\ TapInv /\ ShapeInv /\ IrInv /\ IdInv /\ DmiInv /\ LayoutInv
  BY DEF IInv
<1>3. ShapeInv' /\ LayoutInv'
  BY <1>1, <1>2, ShapeKept, LayoutKept
<1>4. TypeOK'
  BY <1>1, <1>2 DEF TypeOK, TapNo, NTaps
<1>5. /\ Stream' = Stream /\ IdBits' = IdBits /\ IrWord' = IrWord /\ DrWord' = DrWord
      /\ IrBits' = IrBits /\ DrBits' = DrBits /\ DrFirst' = DrFirst
      /\ IrChain' = IrChain /\ IdChain' = IdChain /\ Known' = Known /\ Target' = Target
      /\ AllIdcode' = AllIdcode /\ Selected' = Selected
  <2>1. IdBits' = IdBits /\ IrWord' = IrWord /\ DrWord' = DrWord /\ DrBits' = DrBits /\ DrFirst' = DrFirst
    BY <1>1 DEF IdBits, IrWord, DrWord, DrBits, DrFirst
  <2>2. IrBits' = IrBits
    BY <2>1 DEF IrBits
  <2>3. Stream' = Stream
    BY <1>1, <2>1 DEF Stream
  <2>4. Known' = Known /\ Target' = Target /\ NTaps' = NTaps /\ TapNo' = TapNo
    BY <1>1 DEF Known, Target, NTaps, IdCode, Override, TapNo
  <2>5. AllIdcode' = AllIdcode /\ Selected' = Selected
    BY <2>4 DEF AllIdcode, Selected
  <2>6. IrChain' = IrChain /\ IdChain' = IdChain
    BY <1>1 DEF IrChain, IdChain, OverChain, TapNo, NTaps, IrCapture, IdCode
  <2> QED BY <2>1, <2>2, <2>3, <2>4, <2>5, <2>6
<1>6. At' = At
  BY <1>1, <1>5 DEF At
<1>7. WireInv'
  BY <1>1, <1>2, <1>5, <1>6 DEF WireInv, Busy
<1>8. TapInv'
  BY <1>1, <1>2, <1>5, <1>6 DEF TapInv, Busy, Resetting, Clean, IdTap, DmiTap
<1>9. IrInv'
  BY <1>1, <1>2, <1>5, <1>6 DEF IrInv
<1>10. IdInv'
  BY <1>1, <1>2, <1>5, <1>6 DEF IdInv, Shifted, Least
<1>11. DmiInv'
  BY <1>1, <1>2, <1>5, <1>6 DEF DmiInv, Caught, Shifted, Least
<1> QED BY <1>3, <1>4, <1>7, <1>8, <1>9, <1>10, <1>11 DEF IInv

-----------------------------------------------------------------------------
(* Theorems. *)

\* The invariant holds at the start, whatever state the TAPs were left in.
LEMMA InitHolds == Init => IInv
<1> SUFFICES ASSUME Init PROVE IInv
  OBVIOUS
<1>1. /\ state = "reset" /\ after = 0 /\ before = 0 /\ index = 0 /\ detected = FALSE
      /\ session = "none" /\ value = Zeros(DmiLen) /\ wire = <<>>
      /\ captured = <<>> /\ result = <<>> /\ sessions = 0 /\ breaks = 0
      /\ board \in Boards /\ tap \in TapState /\ response \in Bits(DmiLen)
      /\ dmi = [t \in TapNo |-> Zeros(DmiLen)]
  BY DEF Init
<1>2. ir \in [TapNo -> Bits(IrLen)]
  <2>1. PICK instr \in {BYPASS, IDCODE, DMI} : ir = [t \in TapNo |-> instr]
    BY DEF Init
  <2>2. instr \in Bits(IrLen)
    BY Codes
  <2> QED BY <2>1, <2>2
<1>3. Registers
  BY <1>1, <1>2 DEF Registers
<1>4. Zeros(DmiLen) \in Bits(DmiLen) /\ DmiLen \in Nat
  BY ChainAssumption DEF Zeros, Bits
<1>5. chain = IF tap \in IrStates THEN Zeros(NTaps * IrLen) ELSE DrChain
  BY DEF Init, DrChain, DrParts
<1>6. NTaps * IrLen \in Nat /\ NTaps * IrLen > 0
  <2>1. IrLen \in Nat /\ IrLen >= 2 /\ NTaps \in 1..3
    BY <1>1, BoardOf, Codes
  <2>2. NTaps = 1 \/ NTaps = 2 \/ NTaps = 3
    BY <2>1
  <2> QED BY <2>1, <2>2
<1>7. Zeros(NTaps * IrLen) \in Seq({0, 1}) /\ Len(Zeros(NTaps * IrLen)) = NTaps * IrLen
  <2> DEFINE n == NTaps * IrLen
  <2>1. n \in Nat
    BY <1>6
  <2> HIDE DEF n
  <2>2. Zeros(n) \in Seq({0, 1}) /\ Len(Zeros(n)) = n
    BY <2>1, Fill
  <2> QED BY <2>2 DEF n
<1>8. DrChain \in Seq({0, 1}) /\ Len(DrChain) > 0
  <2>1. 0 \in TapNo
    BY BoardOf, <1>1 DEF TapNo
  <2>2. DrChain \in Seq({0, 1}) /\ Len(DrChain) \in Nat
    BY DrChainOf, LenProperties, <1>3
  <2>3. /\ Offset(DrParts, 0) \in Nat /\ Offset(DrParts, 0) + Len(DrOf(0)) <= Len(DrChain)
        /\ Len(DrOf(0)) \in Nat /\ Len(DrOf(0)) > 0
    BY <1>3, <2>1, DrOffset, DrOfType
  <2> DEFINE x == Offset(DrParts, 0)
             y == Len(DrOf(0))
             z == Len(DrChain)
  <2> HIDE DEF x, y, z
  <2>4. x \in Nat /\ y \in Nat /\ y > 0 /\ z \in Nat /\ x + y <= z
    BY <2>2, <2>3 DEF x, y, z
  <2>5. z > 0
    BY <2>4
  <2> QED BY <2>2, <2>5 DEF z
<1>9. ShapeInv /\ chain \in Seq({0, 1})
  <2>1. CASE tap \in IrStates
    <3>1. tap \notin DrShape
      BY <2>1 DEF IrStates, DrShape
    <3> QED BY <1>5, <1>6, <1>7, <2>1, <3>1 DEF ShapeInv
  <2>2. CASE tap \notin IrStates
    <3>1. tap \notin IrShape
      BY <2>2 DEF IrStates, IrShape
    <3> QED BY <1>5, <1>8, <2>2, <3>1 DEF ShapeInv
  <2> QED BY <2>1, <2>2
<1>10. TypeOK
  <2>1. MaxSessions \in Nat /\ MaxBreaks \in Nat /\ "reset" \in TapState
    BY ChainAssumption DEF TapState
  <2>2. <<>> \in Seq([tms : {0, 1}, tdi : {0, 1}, cap : BOOLEAN]) /\ <<>> \in Seq({0, 1})
    OBVIOUS
  <2>3. dmi \in [TapNo -> Bits(DmiLen)] /\ value \in Bits(DmiLen)
    BY <1>1, <1>4
  <2>4. /\ state \in TapState /\ after \in 0..2 /\ before \in 0..2 /\ index \in 0..2
        /\ detected \in BOOLEAN /\ session \in {"none", "detect", "idcode", "dmi", "failed"}
        /\ sessions \in 0..MaxSessions /\ breaks \in 0..MaxBreaks
    <3>1. 0 \in 0..2 /\ 0 \in 0..MaxSessions /\ 0 \in 0..MaxBreaks
      BY <2>1
    <3> QED BY <1>1, <2>1, <3>1, Zenon
  <2>5. /\ wire \in Seq([tms : {0, 1}, tdi : {0, 1}, cap : BOOLEAN]) /\ captured \in Seq({0, 1})
    BY <1>1, <2>2
  <2>6. /\ board \in Boards /\ tap \in TapState /\ response \in Bits(DmiLen) /\ chain \in Seq({0, 1})
        /\ ir \in [TapNo -> Bits(IrLen)]
    BY <1>1, <1>2, <1>9
  <2> QED BY <2>3, <2>4, <2>5, <2>6, Zenon DEF TypeOK
<1>11. session \notin {"detect", "idcode", "dmi"} /\ ~Busy /\ ~detected
  BY <1>1 DEF Busy
<1>12. WireInv /\ TapInv /\ IrInv /\ IdInv /\ DmiInv
  BY <1>1, <1>11 DEF WireInv, TapInv, IrInv, IdInv, DmiInv
<1>13. LayoutInv
  BY <1>1 DEF LayoutInv
<1> QED BY <1>9, <1>10, <1>12, <1>13 DEF IInv

\* The invariant is inductive: every step of the host, of the stream and of the TAPs keeps it.
LEMMA NextHolds == IInv /\ [Next]_vars => IInv'
<1> SUFFICES ASSUME IInv, [Next]_vars PROVE IInv'
  OBVIOUS
<1>1. CASE Detect
  BY <1>1, DetectKeeps
<1>2. CASE Detected
  BY <1>2, DetectedKeeps
<1>3. CASE ReadIdcode
  BY <1>3, ReadIdcodeKeeps
<1>4. CASE \E w \in Bits(DmiLen) : Access(w)
  BY <1>4, AccessKeeps
<1>5. CASE Collect
  BY <1>5, CollectKeeps
<1>6. CASE Break
  BY <1>6, BreakKeeps
<1>7. CASE Tick
  BY <1>7, TickKeeps
<1>8. CASE UNCHANGED vars
  BY <1>8, StutterKeeps
<1> QED BY <1>1, <1>2, <1>3, <1>4, <1>5, <1>6, <1>7, <1>8 DEF Next, Host

\* The invariant IInv holds in every reachable state, for every set of boards, every table and
\* every length of the registers.
THEOREM Inductive == Spec => []IInv
BY InitHolds, NextHolds, PTL DEF Spec

\* Types: in particular no clock shifts an empty chain, and Update-IR and Update-DR
\* always find as many bits in the chain as the registers take.
THEOREM TypesHold == Spec => []TypeOK
<1>1. IInv => TypeOK
  BY DEF IInv
<1> QED BY <1>1, Inductive, PTL

\* transport.py keeps no feedback from the TAP: self.state is the device's state once a
\* stream is delivered, also after a stream broken off anywhere.
THEOREM StateTracked == Spec => []TracksDevice
<1>1. IInv => TracksDevice
  <2> SUFFICES ASSUME IInv, wire = <<>>, session \in {"detect", "idcode", "dmi"} PROVE state = tap
    BY DEF TracksDevice
  <2>1. TypeOK /\ WireInv /\ TapInv /\ Busy
    BY DEF IInv, Busy
  <2> QED BY <2>1, Delivered
<1> QED BY <1>1, Inductive, PTL

\* _detect_chain finds the target's place on every chain chips.py knows or the caller describes.
THEOREM LayoutFound == Spec => []LayoutMatchesChain
<1>1. IInv => LayoutMatchesChain
  <2> SUFFICES ASSUME IInv, Known, detected
               PROVE  after + before + 1 = NTaps /\ after = Target /\ index = Target
    BY DEF LayoutMatchesChain
  <2>1. LayoutInv /\ Sent /\ board \in Boards
    BY Types DEF IInv
  <2>2. Lay
    BY <2>1, LayOf
  <2>3. index = after
    BY <2>1 DEF LayoutInv
  <2> QED BY <2>2, <2>3 DEF Lay
<1> QED BY <1>1, Inductive, PTL

\* An access delivers its word to the target and brings back the target's register;
\* read_idcode brings back the target's IDCODE.
LEMMA TargetsField == IInv => FieldIsTargets
<1> SUFFICES ASSUME IInv, Known, wire = <<>>, session \in {"dmi", "idcode"}
             PROVE  /\ session = "dmi" => dmi[Target] = value /\ captured = response
                    /\ session = "idcode" =>
                         SubSeq(captured, index * IdLen + 1, (index + 1) * IdLen) = IdCode(Target)
  BY DEF FieldIsTargets
<1>1. /\ TypeOK /\ WireInv /\ TapInv /\ IdInv /\ DmiInv /\ LayoutInv /\ Sent /\ board \in Boards /\ Busy
      /\ captured \in Seq({0, 1}) /\ response \in Bits(DmiLen)
  BY Types DEF IInv, Busy, Registers
<1>2. Lay /\ index = Target /\ index \in 0..2 /\ Target \in TapNo
  <2>1. detected
    BY <1>1 DEF WireInv
  <2>2. Lay
    BY <1>1, <2>1, LayOf
  <2>3. index = after
    BY <1>1, <2>1 DEF LayoutInv
  <2> QED BY <1>1, <2>2, <2>3 DEF Lay, Sent
<1>3. ASSUME session = "dmi" PROVE dmi[Target] = value /\ captured = response
  <2> DEFINE a == At
             m == IrBits
             n == DrBits
  <2>1. a = m + n + 18 /\ m \in Nat /\ n \in Nat
    BY <1>1, <1>3, Delivered
  <2>2. /\ a >= m + 15 => /\ Len(captured) = Caught(Least(a - (m + 15), n))
                          /\ \A i \in 1..Len(captured) : captured[i] = response[i]
        /\ a >= m + n + 16 => dmi[Target] = value
    BY <1>1, <1>3, Zenon DEF DmiInv
  <2>3. after \in Nat /\ before \in Nat /\ DmiLen \in Nat /\ n = after + DmiLen + before
    BY <1>1, ChainAssumption DEF Sent, DrBits
  <2> HIDE DEF a, m, n
  <2>4. a >= m + 15 /\ a >= m + n + 16 /\ a - (m + 15) \in Nat /\ n <= a - (m + 15) /\ after + DmiLen <= n
    BY <2>1, <2>3
  <2>5. Least(a - (m + 15), n) = n
    BY <2>1, <2>4, Leasts
  <2>6. Caught(n) = DmiLen
    BY <1>1, <2>1, <2>4, CaughtStep
  <2>7. Len(captured) = DmiLen /\ \A i \in 1..DmiLen : captured[i] = response[i]
    BY <2>2, <2>4, <2>5, <2>6, Zenon
  <2>8. captured \in [1..DmiLen -> {0, 1}] /\ response \in [1..DmiLen -> {0, 1}]
    BY <1>1, <2>7, LenProperties DEF Bits
  <2>9. captured = response
    BY <2>3, <2>7, <2>8, Same
  <2> QED BY <2>2, <2>4, <2>9, Zenon
<1>4. ASSUME session = "idcode"
      PROVE  SubSeq(captured, index * IdLen + 1, (index + 1) * IdLen) = IdCode(Target)
  <2> DEFINE a == At
             n == IdBits
  <2>1. a = n + 11 /\ n \in Nat
    BY <1>1, <1>4, Delivered
  <2>2. n = (index + 1) * IdLen
    BY <1>4 DEF IdBits
  <2>3. /\ a >= 9 => /\ Len(captured) = Least(a - 9, n)
                     /\ \A i \in 1..Len(captured) : captured[i] = (IdChain \o Zeros(n))[i]
    BY <1>1, <1>4, Zenon DEF IdInv
  <2> HIDE DEF a, n
  <2>4. a >= 9 /\ a - 9 \in Nat /\ n <= a - 9
    BY <2>1
  <2>5. Least(a - 9, n) = n
    BY <2>1, <2>4, Leasts
  <2>6. Len(captured) = n /\ \A i \in 1..n : captured[i] = (IdChain \o Zeros(n))[i]
    BY <2>3, <2>4, <2>5, Zenon
  <2>7. (index + 1) * IdLen <= n
    <3>1. n <= n
      BY <2>1
    <3> QED BY <2>2, <3>1, Zenon
  <2>8. SubSeq(captured, index * IdLen + 1, (index + 1) * IdLen)
          = IF index < NTaps THEN IdCode(index) ELSE Zeros(IdLen)
    <3>1. /\ board \in Boards /\ captured \in Seq({0, 1}) /\ n \in Nat /\ index \in 0..2
          /\ (index + 1) * IdLen <= n /\ Len(captured) = n
          /\ \A i \in 1..n : captured[i] = (IdChain \o Zeros(n))[i]
      BY <1>1, <1>2, <2>1, <2>6, <2>7, Zenon
    <3> QED BY <3>1, IdAt
  <2>9. index < NTaps
    <3>1. index \in 0..NTaps - 1 /\ NTaps \in 1..3
      BY <1>1, <1>2, BoardOf DEF TapNo
    <3> QED BY <3>1
  <2> QED BY <1>2, <2>8, <2>9, Zenon
<1> QED BY <1>3, <1>4

\* On every board, for every position of the target and every word.
THEOREM FieldDelivered == Spec => []FieldIsTargets
BY TargetsField, Inductive, PTL

\* Until a stream breaks, Update-DR reaches the DMI register of the target only, and with
\* the word of the access in progress: the reset walk of a session does not pass through it.
LEMMA WholeWordStep ==
  ASSUME IInv, [Next]_vars, Known, breaks = 0, detected, NEW t \in TapNo, dmi'[t] # dmi[t]
  PROVE  t = Target /\ dmi'[t] = value
<1>1. Tick
  <2>1. ASSUME UNCHANGED dmi PROVE FALSE
    BY <2>1
  <2>2. CASE Detect
    BY <2>1, <2>2 DEF Detect, Begin, deviceVars
  <2>3. CASE Detected
    BY <2>1, <2>3 DEF Detected, deviceVars
  <2>4. CASE ReadIdcode
    BY <2>1, <2>4 DEF ReadIdcode, Begin, deviceVars
  <2>5. CASE \E w \in Bits(DmiLen) : Access(w)
    BY <2>1, <2>5 DEF Access, Begin, deviceVars
  <2>6. CASE Collect
    BY <2>1, <2>6 DEF Collect, deviceVars
  <2>7. CASE Break
    BY <2>1, <2>7 DEF Break, deviceVars
  <2>8. CASE UNCHANGED vars
    BY <2>1, <2>8 DEF vars, deviceVars
  <2> QED BY <2>2, <2>3, <2>4, <2>5, <2>6, <2>7, <2>8 DEF Next, Host
<1>2. /\ TypeOK /\ WireInv /\ TapInv /\ IrInv /\ IInv'
  BY NextHolds DEF IInv
<1>3. TapInv' /\ DmiInv'
  BY <1>2 DEF IInv
<1>4. /\ UNCHANGED <<session, breaks, detected, value>> /\ IdBits' = IdBits /\ IrBits' = IrBits
      /\ DrBits' = DrBits /\ Known' = Known /\ Target' = Target
  BY <1>1, Kept DEF Tick, hostVars
<1>5. Busy /\ At \in Nat /\ At' = At + 1
  BY <1>1, <1>2, StepFacts
<1>6. tap' = "updr" /\ ir[t] = DMI
  <2>1. dmi' = [u \in TapNo |-> IF tap' = "updr" /\ ir[u] = DMI THEN DmiPart(u, chain') ELSE dmi[u]]
    BY <1>1, <1>2, Clock, Zenon
  <2> QED BY <2>1
<1> DEFINE a == At
           b == At'
           m == IrBits
           n == IF session = "dmi" THEN DrBits ELSE IdBits
<1>7. b > 5
  <2>1. b <= 5 => tap' = Clean(b)
    <3>1. Busy' /\ breaks' = 0 /\ detected'
      BY <1>4, <1>5 DEF Busy
    <3> QED BY <1>3, <3>1 DEF TapInv, Clean
  <2>2. b \in Nat
    BY <1>5
  <2> HIDE DEF b
  <2>3. Clean(b) # "updr"
    BY DEF Clean
  <2> QED BY <1>6, <2>1, <2>2, <2>3
<1>8. CASE session \in {"detect", "idcode"}
  <2>1. a \in Nat /\ b = a + 1
    BY <1>5
  <2>2. a >= 5
    <3> HIDE DEF a, b
    <3> QED BY <1>7, <2>1
  <2>3. ir = AllIdcode
    BY <1>2, <1>8, <2>2, Zenon DEF IrInv
  <2> QED BY <1>6, <2>3, Codes DEF AllIdcode
<1>9. CASE session = "dmi"
  <2> DEFINE d == DrBits
  <2>1. m \in Nat /\ m > 0 /\ d \in Nat /\ d > 0
    BY <1>1, <1>2, <1>9, DmiClock, Zenon
  <2>2. tap' = DmiTap(b, m, d)
    <3>1. b > 5 /\ session' = "dmi"
      BY <1>4, <1>7, <1>9
    <3>2. tap' = DmiTap(b, IrBits', DrBits')
      BY <1>3, <3>1 DEF TapInv, DmiTap
    <3> QED BY <1>4, <3>2, Zenon
  <2>3. a \in Nat /\ b = a + 1
    BY <1>5
  <2>4. /\ b >= IrBits' + DrBits' + 16 => dmi'[Target] = value
    BY <1>3, <1>4, <1>9 DEF DmiInv
  <2>5. a >= m + 11 => ir = Selected
    BY <1>2, <1>9, Zenon DEF IrInv
  <2> HIDE DEF a, b, m, d
  <2>6. b = m + d + 16
    BY <1>6, <2>1, <2>2, <2>3 DEF DmiTap
  <2>7. a >= m + 11 /\ b >= m + d + 16
    BY <2>1, <2>3, <2>6
  <2>8. dmi'[Target] = value
    BY <1>4, <2>4, <2>7, Zenon DEF m, d
  <2>9. t = Target
    <3>1. Selected[t] = DMI
      BY <1>6, <2>5, <2>7, Zenon
    <3>2. BYPASS # DMI
      BY Codes
    <3> QED BY <3>1, <3>2 DEF Selected
  <2> QED BY <2>8, <2>9, Zenon
<1> QED BY <1>5, <1>8, <1>9 DEF Busy

\* Of every step of the program: no DMI register but the target's is ever written, and the
\* target's only with a whole word, as long as no stream broke off.
THEOREM WholeWords == Spec => OnlyWholeWords
<1> DEFINE A == Known /\ breaks = 0 /\ sessions > 0 /\ detected =>
                  \A t \in TapNo : dmi'[t] # dmi[t] => t = Target /\ dmi'[t] = value
<1>1. IInv /\ [Next]_vars => [A]_vars
  <2> SUFFICES ASSUME IInv, [Next]_vars, Known, breaks = 0, detected
               PROVE  \A t \in TapNo : dmi'[t] # dmi[t] => t = Target /\ dmi'[t] = value
    BY Zenon
  <2> QED BY WholeWordStep
<1>2. Spec => [][A]_vars
  <2> HIDE DEF A
  <2> QED BY <1>1, Inductive, PTL DEF Spec
<1> QED BY <1>2 DEF OnlyWholeWords
=============================================================================
