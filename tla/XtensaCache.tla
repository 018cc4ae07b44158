------------------------------ MODULE XtensaCache ------------------------------
(* The host's copy of the registers of an Xtensa core and the two ways it meets *)
(* the core: fetching everything and writing back what is dirty.  A program     *)
(* sees Window registers a0, a1, .. of a file of ARegs; WINDOWBASE says where   *)
(* its window starts.  Every special register is reached through the register   *)
(* Scratch (a3) of the live window, so each access costs the program that one.  *)
(*                                                                              *)
(* A session s is [hw, cache, ctx, app]: the core, the copy, and two histories: *)
(* what the program is to be resumed with, and where that can be found.         *)
EXTENDS Integers, FiniteSets

CONSTANTS
    ARegs,        \* physical registers (64)
    Window,       \* registers a program sees (16)
    Inc,          \* registers per step of WINDOWBASE (4)
    Scratch       \* the register special registers are reached through (3)

ASSUME WindowAssumption ==
    /\ ARegs \in Nat /\ Window \in 1..ARegs /\ Inc \in 1..Window
    /\ ARegs % Inc = 0 /\ Scratch \in 0 .. Window - 1

Phys == 0 .. ARegs - 1
Seen == 0 .. Window - 1
Slots == {1, 2}                         \* IBREAK and DBREAK registers
Ibreaka == <<"ibreaka0", "ibreaka1">>
Dbreakc == <<"dbreakc0", "dbreakc1">>
SR == {"pc", "eps", "windowbase", "cpenable", "ibreakenable", "ibreaka0", "ibreaka1",
       "dbreakc0", "dbreakc1", "debugcause", "icount", "icountlevel"}
None == -1
Junk == 99                              \* what using the scratch register leaves in it
AllOn == 2                              \* CPENABLE with every coprocessor on

-------------------------------------------------------------------------------
(* The cache: values and dirty flags.                                           *)

NewCache ==
    [sr |-> [r \in SR |-> IF r = "ibreakenable" THEN {} ELSE
                          IF r = "debugcause" THEN "none" ELSE 0],
     ar |-> [k \in Phys |-> 0], a |-> [n \in Seen |-> 0],
     dsr |-> {}, dar |-> {}, da |-> {}]

SetValue(c, r, v) == [c EXCEPT !.sr[r] = v, !.dsr = @ \cup {r}]
RegSet(c, r, v) == IF c.sr[r] = v THEN c ELSE SetValue(c, r, v)

(* Index n of the window at wb, in the register file; and the way back.         *)
Canonical(n, wb) == (n + wb * Inc) % ARegs
ToWindow(k, wb) == Canonical(k, -wb)

CauseGet(c) == c.sr["debugcause"]
CauseClear(c) == [RegSet(c, "debugcause", "none") EXCEPT !.dsr = @ \ {"debugcause"}]

-------------------------------------------------------------------------------
(* The halted core, as injected instructions reach it.                          *)

LiveA(h, n) == h.ar[Canonical(n, h.sr["windowbase"])]
SetAr(h, n, v) == [h EXCEPT !.ar[Canonical(n, h.sr["windowbase"])] = v]
SetSr(h, r, v) == [SetAr(h, Scratch, Junk) EXCEPT !.sr[r] = v]
SetVecbase(h, v) == [SetAr(h, Scratch, Junk) EXCEPT !.vecbase = v]

SaveA3(h) == LiveA(h, Scratch)
RestoreA3NotDone(h, saved) == h
RestoreA3(h, saved) == SetAr(h, Scratch, saved)
(* read_mem, write_mem, a read of a special register: a3 is handed back.        *)
Injected(h) == RestoreA3(SetAr(h, Scratch, Junk), SaveA3(h))

-------------------------------------------------------------------------------
(* Write back, in the order of the code: special registers through a3, which is *)
(* then dirty itself, A registers of the window that is live by now, the file   *)
(* register by register as the window rotates, and a3 again at the end.         *)
Specials(h, c) ==
    LET used == IF c.dsr = {} THEN h ELSE SetAr(h, Scratch, Junk)
    IN [used EXCEPT !.sr = [r \in SR |-> IF r \in c.dsr THEN c.sr[r] ELSE @[r]]]

ScratchCounts(c) == IF c.dsr # {} THEN c.da \cup {Scratch} ELSE c.da

WriteDirty(s) ==
    LET c == s.cache
        h == Specials(s.hw, c)
        live == h.sr["windowbase"]
        base == c.sr["windowbase"]
        written == [k \in Phys |->
            LET n == ToWindow(k, live)
                general == Canonical(n, base)       \* rotated by the cached base
            IN IF general \in c.dar THEN c.ar[general]
               ELSE IF n \in ScratchCounts(c) THEN c.a[n]
               ELSE h.ar[k]]
    IN [s EXCEPT
        !.hw = [h EXCEPT !.ar = written],
        !.cache = [c EXCEPT !.dsr = {}, !.dar = {}, !.da = {}],
        !.ctx = CASE s.ctx \in {"cached", "both"} -> "both"
                  [] s.ctx = "live" /\ c.dsr = {} /\ c.dar \cup c.da = {} -> "live"
                  [] OTHER -> "lost"]

(* Read everything, with all coprocessors switched on and a3 as scratch; both   *)
(* are only put right by the next write back.  A second fetch before that reads *)
(* what the first one left.                                                     *)
FetchedDirty == {"cpenable"}
FetchAllRegs(s) ==
    LET h == s.hw
        wb == h.sr["windowbase"]
        regvals == [k \in Phys |-> h.ar[Canonical(k, wb)]]
    IN [s EXCEPT
        !.hw = SetSr(h, "cpenable", AllOn),
        !.cache = [sr |-> h.sr, dsr |-> FetchedDirty,
                   ar |-> [k \in Phys |-> regvals[ToWindow(k, wb)]], dar |-> s.cache.dar,
                   a |-> [n \in Seen |-> regvals[n]], da |-> s.cache.da \cup {Scratch}],
        !.ctx = IF s.ctx \in {"live", "both"} THEN "cached" ELSE "lost"]
=============================================================================
