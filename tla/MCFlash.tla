------------------------------- MODULE MCFlash -------------------------------
EXTENDS Flash

o == {1}
z == {}
Write(at, data, verify) ==
  [kind |-> "write", at |-> at, data |-> data, verify |-> verify, auto |-> FALSE,
   stub |-> FALSE]
XtensaWrite(at, data, verify) == [Write(at, data, verify) EXCEPT !.kind = "xtensa"]
Incremental(at, data, verify, auto, resident) ==
  [kind |-> "incremental", at |-> at, data |-> data, verify |-> verify, auto |-> auto,
   stub |-> resident]

\* Five sectors of two words, blocks of two sectors: ranges that start and end within a
\* sector, that cover one block or two, or a block and a half.
WriteOps ==
  {Write(1, <<z, o, z, z, o>>, TRUE), Write(0, <<o, z, z, o, z, z, o, z>>, TRUE),
   Write(2, <<z, z, o, z, z, o>>, TRUE), Write(4, <<z, o, z, z, z>>, FALSE)}
IncrementalOps ==
  {Incremental(2, data, verify, auto, resident) :
     data \in {<<z, o, o, z, z, z>>, <<o, z, z, z, o>>},
     <<verify, auto, resident>> \in {<<TRUE, FALSE, TRUE>>, <<FALSE, FALSE, TRUE>>,
                                 <<TRUE, TRUE, TRUE>>, <<TRUE, FALSE, FALSE>>,
                                 <<FALSE, TRUE, FALSE>>}}
XtensaOps == {XtensaWrite(1, <<z, o, z, z, o>>, TRUE), XtensaWrite(4, <<z, o, z>>, FALSE)}
AllOps == WriteOps \cup XtensaOps \cup IncrementalOps

\* All ones, all zeros, and two that agree with an image in one sector.
Contents ==
  {[a \in Addr |-> o], [a \in Addr |-> z], [a \in Addr |-> IF a % 2 = 1 THEN o ELSE z],
   [a \in Addr |-> IF a \in 4..5 \/ a = 9 THEN z ELSE o]}
===============================================================================
