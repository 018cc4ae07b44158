--------------------------------- MODULE Tap ---------------------------------
(***************************************************************************)
(* The JTAG TAP state graph as transport.py tracks it, and the walks the   *)
(* transport takes through it.                                             *)
(***************************************************************************)
EXTENDS Naturals, Sequences

TapState == {"reset", "idle",
             "seldr", "capdr", "shiftdr", "e1dr", "pausedr", "e2dr", "updr",
             "selir", "capir", "shiftir", "e1ir", "pauseir", "e2ir", "upir"}

\* state -> <<next on TMS=0, next on TMS=1>>
NEXT == [s \in TapState |->
  CASE s = "reset"   -> <<"idle", "reset">>
    [] s = "idle"    -> <<"idle", "seldr">>
    [] s = "seldr"   -> <<"capdr", "selir">>
    [] s = "capdr"   -> <<"shiftdr", "e1dr">>
    [] s = "shiftdr" -> <<"shiftdr", "e1dr">>
    [] s = "e1dr"    -> <<"pausedr", "updr">>
    [] s = "pausedr" -> <<"pausedr", "e2dr">>
    [] s = "e2dr"    -> <<"shiftdr", "updr">>
    [] s = "updr"    -> <<"idle", "seldr">>
    [] s = "selir"   -> <<"capir", "reset">>
    [] s = "capir"   -> <<"shiftir", "e1ir">>
    [] s = "shiftir" -> <<"shiftir", "e1ir">>
    [] s = "e1ir"    -> <<"pauseir", "upir">>
    [] s = "pauseir" -> <<"pauseir", "e2ir">>
    [] s = "e2ir"    -> <<"shiftir", "upir">>
    [] s = "upir"    -> <<"idle", "seldr">>]

Clocked(s, tms) == NEXT[s][tms + 1]

\* One entry of the breadth-first queue expanded, TMS=0 before TMS=1.
Expand(search) ==
  LET st   == Head(search.queue)[1]
      path == Head(search.queue)[2]
      new0 == IF Clocked(st, 0) \in search.seen THEN <<>>
              ELSE <<<<Clocked(st, 0), Append(path, 0)>>>>
      new1 == IF Clocked(st, 1) \in search.seen \cup {Clocked(st, 0)} THEN <<>>
              ELSE <<<<Clocked(st, 1), Append(path, 1)>>>>
  IN  [queue |-> Tail(search.queue) \o new0 \o new1,
       seen  |-> search.seen \cup {Clocked(st, 0), Clocked(st, 1)}]

\* The TMS bits _goto emits: the search stops at the first entry for the target.
Search(from, target) ==
  LET search[n \in 0..16] ==
        IF n = 0 THEN [queue |-> <<<<from, <<>>>>>>, seen |-> {from}]
        ELSE LET prev == search[n - 1]
             IN  IF prev.queue = <<>> \/ Head(prev.queue)[1] = target
                 THEN prev ELSE Expand(prev)
  IN  Head(search[16].queue)[2]

PathTable == [from \in TapState |-> [target \in TapState |-> Search(from, target)]]
Path(from, target) == PathTable[from][target]

ResetWalk == <<1, 1, 1, 1, 1>>
=============================================================================
