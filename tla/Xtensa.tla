-------------------------------- MODULE Xtensa --------------------------------
(* Run control of an Xtensa core (xtensa.py): halt and resume, the single step   *)
(* that hides watchpoints and runs out of window handlers, breakpoint and        *)
(* watchpoint slots, algorithms started on the register cache, functions called  *)
(* past it, and the stub loader (xtensa_flasher.py).                             *)
(*                                                                               *)
(* The host works on a halted core in one go; what takes time is the core        *)
(* running between two RFDOs.  The program is a set of addresses it wanders      *)
(* through: Break holds a BREAK, an instruction of Touch accesses watched        *)
(* memory, one of Handlers belongs to a window handler.                          *)
EXTENDS XtensaCache, XtensaImage, Sequences

CONSTANTS
    Addresses, Break, Touch, Handlers,  \* the program
    Entry, Exit,                        \* of the algorithm, outside the program
    MaxRun, MaxOps                      \* bounds: instructions, calls of the host

ASSUME ProgramAssumption ==
    /\ IsFiniteSet(Addresses) /\ Addresses # {} /\ Addresses \subseteq Nat
    /\ Break \in Addresses /\ Touch \subseteq Addresses /\ Handlers \subseteq Addresses
    /\ {Entry, Exit} \subseteq Nat \ Addresses
    /\ MaxRun \in Nat /\ MaxOps \in Nat

VARIABLES
    s,         \* core, cache and histories (XtensaCache)
    host,      \* what the host is doing
    bps, wps,  \* hw_brps, hw_wps: address in each slot, or None
    fetched,   \* regs_fetched
    image,     \* memory as the loader left it
    blind,     \* history: a step or a fetch left watchpoints unarmed
    ran, ops   \* instructions executed, calls made

vars == <<s, host, bps, wps, fetched, image, blind, ran, ops>>

Params == {0, 2}                        \* a2 (arguments, result) and a8; a3 optional
Idle == [at |-> "idle"]
Next3(pc) == (pc + 1) % Cardinality(Addresses)

ProgramState(h) == [ar |-> h.ar, pc |-> h.sr["pc"], eps |-> h.sr["eps"],
                    wb |-> h.sr["windowbase"], cp |-> h.sr["cpenable"]]

Init ==
    /\ s = LET h == [ar |-> [k \in Phys |-> k + 1],
                     sr |-> [NewCache.sr EXCEPT !["cpenable"] = 1, !["eps"] = 1],
                     vecbase |-> 0, run |-> "app", irq |-> FALSE]
           IN [hw |-> h, cache |-> NewCache, ctx |-> "lost", app |-> ProgramState(h)]
    /\ host = Idle
    /\ bps = [i \in Slots |-> None] /\ wps = [i \in Slots |-> None]
    /\ fetched = FALSE /\ image = NotLoaded /\ blind = FALSE
    /\ ran = 0 /\ ops = 0

Call == host = Idle /\ ops < MaxOps /\ ops' = ops + 1
Halted == s.hw.run = "halted"
Rfdo(t, what) == [t EXCEPT !.hw.run = what]

-------------------------------------------------------------------------------
(* prepare_resume and do_step.                                                   *)

Put(t, r, v) == [t EXCEPT !.cache = RegSet(@, r, v)]

Occupied == {i \in Slots : bps[i] # None}
Armed(t) ==
    LET c1 == IF bps[1] = None THEN t.cache ELSE RegSet(t.cache, Ibreaka[1], bps[1])
        c2 == IF bps[2] = None THEN c1 ELSE RegSet(c1, Ibreaka[2], bps[2])
    IN WriteDirty([t EXCEPT !.cache = RegSet(c2, "ibreakenable", Occupied)])

(* A step in progress: its arguments, the cause it started from, the DBREAKC     *)
(* values it keeps; how many instructions it is for, and when it began.          *)
Frame(cur, addr, cause, kept, due, first) ==
    [current |-> cur, address |-> addr, cause |-> cause, dbreakc |-> kept,
     due |-> due, first |-> first]

(* prepare_resume when the cached cause calls for no step.                       *)
Straight(t, cur, addr) ==
    Armed(IF addr # None /\ ~cur THEN Put(t, "pc", addr) ELSE t)

Loaded(t) == Put(Put(t, "icountlevel", 1), "icount", 1)

(* A BREAK the caller asks to be handled is passed by moving the PC, in the cache *)
(* alone.                                                                        *)
Passes(t, hb) == hb /\ CauseGet(t.cache) = "BI"
Passed(t) ==
    LET pc == Next3(t.cache.sr["pc"])
    IN [t EXCEPT !.cache = RegSet(CauseClear(@), "pc", pc), !.app.pc = pc,
                 !.ctx = IF @ \in {"cached", "both"} THEN "cached" ELSE "lost"]

KeepsWatching(t) == t
HidesWatchpoints(t) ==
    IF CauseGet(t.cache) # "DB" THEN t
    ELSE [t EXCEPT !.cache = RegSet(RegSet(@, Dbreakc[1], 0), Dbreakc[2], 0)]

(* do_step up to its RFDO.                                                       *)
Entered(t, cur, addr, hb) ==
    LET cause == CauseGet(t.cache)
        hidden == HidesWatchpoints(t)
        cleared == IF cause = "DB" \/ (cause = "BI" /\ ~hb)
                   THEN [hidden EXCEPT !.cache = CauseClear(@)] ELSE hidden
    IN [t |-> Straight(Loaded(cleared), cur, addr),
        frame |-> Frame(cur, addr, cause, [i \in Slots |-> t.cache.sr[Dbreakc[i]]], 1, ran)]

(* prepare_resume: t, or t with the frame of the step it starts.                 *)
Prepare(t, cur, addr, hb) ==
    IF (addr # None /\ ~cur) \/ CauseGet(t.cache) \notin {"DB", "BI"}
      THEN [t |-> Straight(t, cur, addr), frames |-> <<>>]
    ELSE IF Passes(t, hb) THEN [t |-> Armed(Passed(t)), frames |-> <<>>]
    ELSE LET e == Entered(t, cur, addr, hb)
         IN [t |-> e.t, frames |-> <<e.frame>>]

(* The RFDO that follows: of the step on top, or of the resume itself.           *)
Go(t, frames, resumes) ==
    /\ s' = Rfdo(t, "app")
    /\ host' = IF frames = <<>> THEN Idle
               ELSE [at |-> "stepping", frames |-> frames, resumes |-> resumes]

(* The program is to go on at addr if the caller gives one.  A cache that was    *)
(* not fetched may hold that address already, and then the core never gets it.   *)
Redirected(t, cur, addr) ==
    IF addr = None \/ cur THEN t
    ELSE [t EXCEPT !.app.pc = addr, !.ctx = IF @ = "live" THEN "lost" ELSE @]

(* Where a caller may ask to go on: where it is, in two ways, or at an address.  *)
Targets == {<<TRUE, None>>, <<FALSE, None>>, <<FALSE, 0>>}

XtensaResume ==
    /\ Call /\ Halted
    /\ \E target \in Targets, hb \in BOOLEAN :
         LET p == Prepare(Redirected(s, target[1], target[2]), target[1], target[2], hb)
         IN Go(p.t, p.frames, TRUE)
    /\ UNCHANGED <<bps, wps, fetched, image, blind, ran>>

XtensaDoStep ==
    /\ Call /\ Halted
    /\ \E target \in Targets, hb \in BOOLEAN :
         IF Passes(s, hb) THEN s' = Passed(s) /\ UNCHANGED host
         ELSE LET e == Entered(Redirected(s, target[1], target[2]), target[1], target[2], hb)
              IN Go(e.t, <<e.frame>>, FALSE)
    /\ UNCHANGED <<bps, wps, fetched, image, blind, ran>>

WatchesForgotten(t, f) == Put(t, "icountlevel", 0)
WatchesBack(t, f) ==
    LET c == IF f.cause # "DB" THEN t.cache
             ELSE RegSet(RegSet(t.cache, Dbreakc[1], f.dbreakc[1]), Dbreakc[2], f.dbreakc[2])
    IN Put([t EXCEPT !.cache = c], "icountlevel", 0)

(* The step has stopped: in a window handler it goes on from there, with an      *)
(* address of its own, which makes a caller of current = FALSE skip an           *)
(* instruction; otherwise it cleans up and returns, to its caller or to the      *)
(* resume or step that needed it.                                                *)
StepStopped ==
    /\ host.at = "stepping" /\ Halted
    /\ LET f == Head(host.frames)
           below == Tail(host.frames)
           t == FetchAllRegs(s)
           pc == t.cache.sr["pc"]
           nests == f.current /\ CauseGet(t.cache) \in {"DB", "BI"}
       IN IF pc \in Handlers
          THEN LET g == [f EXCEPT !.address = Next3(pc),
                                  !.due = IF @ = None \/ nests THEN None
                                          ELSE IF CauseGet(t.cache) = "IC" THEN @ + 1
                                          ELSE @]
                   u == IF f.current THEN t ELSE [t EXCEPT !.ctx = "lost"]
                   p == Prepare(Loaded(u), g.current, g.address, FALSE)
               IN Go(p.t, p.frames \o <<g>> \o below, host.resumes)
          ELSE LET done == FetchAllRegs(WriteDirty(WatchesBack(t, f)))
               IN IF below = <<>> /\ ~host.resumes
                  THEN s' = done /\ host' = Idle
                  ELSE Go(Armed(done), below, host.resumes)
    /\ fetched' = TRUE
    /\ UNCHANGED <<bps, wps, image, blind, ran, ops>>

(* step_tries polls without a stop: the caller gets an exception, and the core   *)
(* runs on with the step's settings.                                             *)
StepTimesOut ==
    /\ host.at = "stepping" /\ s.hw.run = "app"
    /\ host' = Idle /\ blind' = TRUE
    /\ UNCHANGED <<s, bps, wps, fetched, image, ran, ops>>

-------------------------------------------------------------------------------
(* Halt, the plain resume, and what a caller does with the cache.                *)

AskToStop(t) == IF t.hw.run = "halted" THEN t ELSE [t EXCEPT !.hw.irq = TRUE]

HaltRequest ==
    /\ Call /\ s' = AskToStop(s) /\ host' = [at |-> "halting"]
    /\ UNCHANGED <<bps, wps, fetched, image, blind, ran>>

(* The watchdogs are switched off by injected accesses.                          *)
HaltSeen ==
    /\ host.at = "halting" /\ Halted
    /\ s' = [s EXCEPT !.hw = Injected(@)] /\ host' = Idle
    /\ UNCHANGED <<bps, wps, fetched, image, blind, ran, ops>>

HaltGivesUp ==
    /\ host.at = "halting" /\ ~Halted
    /\ host' = Idle
    /\ UNCHANGED <<s, bps, wps, fetched, image, blind, ran, ops>>

(* The request alone is dropped; a core that took it stays halted.               *)
ClearDebugInterrupt ==
    /\ Call /\ s.hw.irq /\ s' = [s EXCEPT !.hw.irq = FALSE]
    /\ UNCHANGED <<host, bps, wps, fetched, image, blind, ran>>

(* RFDO and nothing else: what a fetch left in a3 and CPENABLE stays there.      *)
Resume ==
    /\ Call /\ Halted
    /\ s' = Rfdo([s EXCEPT !.ctx = IF @ = "cached" THEN "lost" ELSE @], "app")
    /\ UNCHANGED <<host, bps, wps, fetched, image, blind, ran>>

Fetch ==
    /\ Call /\ Halted
    /\ s' = FetchAllRegs(s) /\ fetched' = TRUE
    /\ blind' = (blind \/ \E i \in Slots : Dbreakc[i] \in s.cache.dsr)
    /\ UNCHANGED <<host, bps, wps, image, ran>>

(* read_mem, write_mem, a special register read.                                 *)
Access ==
    /\ Call /\ Halted
    /\ s' = [s EXCEPT !.hw = Injected(@)]
    /\ UNCHANGED <<host, bps, wps, fetched, image, blind, ran>>

-------------------------------------------------------------------------------
(* Slots.                                                                        *)

FirstSlot(slots, a) ==
    LET fit == {i \in Slots : slots[i] \in {None, a}}
    IN IF fit = {} THEN None ELSE CHOOSE i \in fit : \A k \in fit : i <= k

AddBreakpoint ==
    /\ Call
    /\ \E a \in Addresses : LET i == FirstSlot(bps, a)
         IN /\ i # None
            /\ bps' = [bps EXCEPT ![i] = a]
    /\ UNCHANGED <<s, host, wps, fetched, image, blind, ran>>

RemoveBreakpoint ==
    /\ Call
    /\ \E i \in Occupied : bps' = [bps EXCEPT ![i] = None]
    /\ UNCHANGED <<s, host, wps, fetched, image, blind, ran>>

(* Registers have been fetched once: that stands for a halted core.  If it is    *)
(* not, or what is set is not flushed before the next fetch, the cache loses it. *)
AddWatchpoint ==
    /\ Call /\ fetched
    /\ \E a \in {1, 2} : LET i == FirstSlot(wps, a)
         IN /\ i # None
            /\ wps' = [wps EXCEPT ![i] = a]
            /\ s' = Put(s, Dbreakc[i], a)
    /\ UNCHANGED <<host, bps, fetched, image, blind, ran>>

RemoveWatchpoint ==
    /\ Call
    /\ \E i \in Slots :
         /\ wps[i] # None
         /\ wps' = [wps EXCEPT ![i] = None]
         /\ s' = Put(s, Dbreakc[i], 0)
    /\ UNCHANGED <<host, bps, fetched, image, blind, ran>>

-------------------------------------------------------------------------------
(* start_algorithm and wait_algorithm: everything goes over the cache, which is  *)
(* backed up as it is.  windowbase is always among the registers set.            *)

(* The registers of same get the value the cache has of them; bound: none, or a8 *)
(* and PS with it.                                                               *)
SetParams(c, regs, same, ps) ==
    LET c1 == SetValue(SetValue(c, "windowbase", 0), "eps", ps)
    IN [c1 EXCEPT !.a = [n \in Seen |-> IF n \in regs \ same THEN 70 + n ELSE @[n]],
                  !.da = @ \cup regs]

StartAlgorithm ==
    /\ Call /\ Halted /\ image # NotLoaded
    /\ \E regs \in {Params, Params \cup {Scratch}}, same \in {{}, {2}} :
         /\ s' = LET ps == IF same = {} THEN 2 ELSE s.cache.sr["eps"]
                     lowered == Put(s, "eps", 3)
                     param == [lowered EXCEPT !.cache = SetParams(@, regs, same, ps)]
                     based == [param EXCEPT !.hw = SetVecbase(@, 1)]
                     t == Prepare(based, FALSE, Entry, TRUE).t
                 IN Rfdo([t EXCEPT !.ctx = "lost"], "stub")
         /\ host' = [at |-> "waiting", backup |-> s.cache, regs |-> regs,
                     known |-> s.ctx \in {"cached", "both"}, forced |-> FALSE]
    /\ UNCHANGED <<bps, wps, fetched, image, blind, ran>>

(* What the cache holds afterwards is what it held before; only what changed in  *)
(* the cache meanwhile is dirty, whatever the core has in the register by now.   *)
(* DEBUGCAUSE is never written back.                                             *)
RestoredAsIs(now, was) == [was EXCEPT !.dsr = now.dsr, !.dar = now.dar, !.da = now.da]
Restored(now, was) ==
    [was EXCEPT
        !.dsr = (now.dsr \cup {r \in SR : now.sr[r] # was.sr[r]}) \ {"debugcause"},
        !.dar = now.dar \cup {k \in Phys : now.ar[k] # was.ar[k]},
        !.da = now.da \cup {n \in Seen : now.a[n] # was.a[n]}]

(* The algorithm has stopped, or has been stopped: its PC and its result are     *)
(* read into the cache, the rest of what it did to the registers is not.         *)
Collected(t, regs) ==
    LET h == Injected(t.hw)
        c == t.cache
    IN [t EXCEPT !.hw = h,
                 !.cache = [sr |-> [c.sr EXCEPT !["pc"] = h.sr["pc"]], dsr |-> c.dsr \ {"pc"},
                            ar |-> c.ar, dar |-> c.dar,
                            a |-> [c.a EXCEPT ![0] = LiveA(h, 0)], da |-> c.da \ {0}]]

AlgorithmStopped ==
    /\ host.at = "waiting" /\ Halted
    /\ s' = WriteDirty(Put([Collected(s, host.regs) EXCEPT
                                !.cache = Restored(@, host.backup)],
                           "eps", host.backup.sr["eps"]))
    /\ host' = Idle
    /\ UNCHANGED <<bps, wps, fetched, image, blind, ran, ops>>

AlgorithmTimesOut ==
    /\ host.at = "waiting" /\ ~Halted /\ ~host.forced
    /\ s' = AskToStop(s) /\ host' = [host EXCEPT !.forced = TRUE]
    /\ UNCHANGED <<bps, wps, fetched, image, blind, ran, ops>>

AlgorithmLost ==
    /\ host.at = "waiting" /\ ~Halted /\ host.forced
    /\ host' = Idle
    /\ UNCHANGED <<s, bps, wps, fetched, image, blind, ran, ops>>

-------------------------------------------------------------------------------
(* call_function: past the cache, with what it saves of the core itself.         *)

LowSaved == {0, Scratch}                \* a0..a7 of the window, scaled
SavedArs(h, windowed) ==
    [k \in {Canonical(n, h.sr["windowbase"]) : n \in IF windowed THEN Phys ELSE LowSaved}
        |-> h.ar[k]]

CallFunction ==
    /\ Call /\ Halted
    /\ \E windowed \in BOOLEAN :
         LET h0 == s.hw
             staged == Injected(h0)                     \* trap, bridge, stack link
             special == SetSr(SetSr(staged, "eps", 3), "pc", Entry)
             vectors == IF windowed THEN SetVecbase(special, 2) ELSE special
             low == SetAr(SetAr(vectors, 0, 80), Scratch, 81)
             args == IF windowed THEN SetAr(low, 2, 82) ELSE low
         IN /\ s' = Rfdo([s EXCEPT !.hw = args], "stub")
            /\ host' = [at |-> "calling", windowed |-> windowed, before |-> h0,
                        saved |-> SavedArs(h0, windowed)]
    /\ UNCHANGED <<bps, wps, fetched, image, blind, ran>>

(* Mutant of PutBack: the A registers first.                                     *)
PutBackFirst(h, was, saved, windowed) ==
    LET files == [h EXCEPT !.ar = [k \in Phys |-> IF k \in DOMAIN saved THEN saved[k] ELSE @[k]]]
        base == IF windowed THEN SetSr(files, "windowbase", was.sr["windowbase"]) ELSE files
        vectors == IF windowed THEN SetVecbase(base, was.vecbase) ELSE base
    IN SetSr(SetSr(vectors, "pc", was.sr["pc"]), "eps", was.sr["eps"])

(* Special registers first: they use a3, which is among those put back last.     *)
PutBack(h, was, saved, windowed) ==
    LET base == IF windowed THEN SetSr(h, "windowbase", was.sr["windowbase"]) ELSE h
        vectors == IF windowed THEN SetVecbase(base, was.vecbase) ELSE base
        special == SetSr(SetSr(vectors, "pc", was.sr["pc"]), "eps", was.sr["eps"])
    IN [special EXCEPT !.ar = [k \in Phys |-> IF k \in DOMAIN saved THEN saved[k] ELSE @[k]]]
CallReturned ==
    /\ host.at = "calling" /\ Halted
    /\ s' = LET h == PutBack(s.hw, host.before, host.saved, host.windowed)
            IN [s EXCEPT !.hw = h, !.ctx = IF h.ar = host.before.ar THEN @ ELSE "lost"]
    /\ host' = Idle
    /\ UNCHANGED <<bps, wps, fetched, image, blind, ran, ops>>

(* The restoring writes meet a running core, which takes none of them.           *)
CallTimesOut ==
    /\ host.at = "calling" /\ ~Halted
    /\ host' = Idle /\ s' = [s EXCEPT !.ctx = "lost"]
    /\ UNCHANGED <<bps, wps, fetched, image, blind, ran, ops>>

-------------------------------------------------------------------------------
(* load: the plan is written through injected stores.                            *)
Load ==
    /\ Call /\ Halted /\ image = NotLoaded
    /\ \E code \in CodeSizes, data \in DataSizes : image' = Written(PlanLoad(code, data))
    /\ s' = [s EXCEPT !.hw = Injected(@)]
    /\ UNCHANGED <<host, bps, wps, fetched, blind, ran>>

-------------------------------------------------------------------------------
(* The core while it runs.                                                       *)

Stop(h, cause) == [h EXCEPT !.run = "halted", !.irq = FALSE, !.sr["debugcause"] = cause,
                            !.sr["icount"] = IF cause = "IC" THEN 0 ELSE @]
Stops(t, h, cause) ==
    [t EXCEPT !.hw = Stop(h, cause), !.ctx = "live", !.app = ProgramState(Stop(h, cause))]

Breaks(h) == \E i \in h.sr["ibreakenable"] : h.sr[Ibreaka[i]] = h.sr["pc"]
Watched(h) == h.sr["pc"] \in Touch /\ \E i \in Slots : h.sr[Dbreakc[i]] # 0
Causes(h) ==
    {c \in {"IB", "DB", "BI", "DI"} :
        CASE c = "IB" -> Breaks(h)
          [] c = "DB" -> ~Breaks(h) /\ Watched(h)
          [] c = "BI" -> ~Breaks(h) /\ h.sr["pc"] = Break
          [] c = "DI" -> h.irq}

ProgramStops ==
    /\ s.hw.run = "app"
    /\ \E cause \in Causes(s.hw) : s' = Stops(s, s.hw, cause)
    /\ UNCHANGED <<host, bps, wps, fetched, image, blind, ran, ops>>

(* One instruction: it may write a register, rotate the window, or be part of an *)
(* operating system that puts its own value into IBREAKENABLE; the next one, or  *)
(* the first of the program, follows.  A loaded count stops the core behind it.  *)
Executed(h) ==
    { [h EXCEPT !.sr["pc"] = pc, !.ar = x.ar, !.sr["windowbase"] = x.wb,
                !.sr["ibreakenable"] = x.en] :
        pc \in {Next3(h.sr["pc"]), 0},
        x \in { [ar |-> SetAr(h, 1, 50).ar, wb |-> h.sr["windowbase"], en |-> h.sr["ibreakenable"]],
                [ar |-> h.ar, wb |-> (h.sr["windowbase"] + 1) % (ARegs \div Inc),
                 en |-> h.sr["ibreakenable"]],
                [ar |-> h.ar, wb |-> h.sr["windowbase"], en |-> {}] } }

ProgramRuns ==
    /\ s.hw.run = "app" /\ ran < MaxRun /\ Causes(s.hw) \subseteq {"DI"}
    /\ \E h \in Executed(s.hw) :
         s' = IF h.sr["icountlevel"] = 1 /\ h.sr["icount"] = 1 THEN Stops(s, h, "IC")
              ELSE [s EXCEPT !.hw = h]
    /\ ran' = ran + 1
    /\ UNCHANGED <<host, bps, wps, fetched, image, blind, ops>>

(* The algorithm or function may use any register, what it leaves there is new,  *)
(* and it may leave another PS; it ends on its BREAK in the window it began in,  *)
(* CPENABLE untouched, or is stopped somewhere.                                  *)
LeftByCode == 60 .. 60 + ARegs
StubStops ==
    /\ s.hw.run = "stub"
    /\ \E used \in {{5}, Phys}, wb \in {s.hw.sr["windowbase"], 1},
          eps \in {s.hw.sr["eps"], 4}, cause \in {"BI", "DI"} :
         /\ cause = "BI" => wb = s.hw.sr["windowbase"]
         /\ cause = "DI" => s.hw.irq
         /\ s' = LET v == CHOOSE v \in LeftByCode : \A k \in Phys : s.hw.ar[k] # v
                     h == [s.hw EXCEPT !.ar = [k \in Phys |-> IF k \in used THEN v ELSE @[k]],
                                       !.sr["windowbase"] = wb, !.sr["pc"] = Exit, !.sr["eps"] = eps]
                 IN [s EXCEPT !.hw = Stop(h, cause)]
    /\ UNCHANGED <<host, bps, wps, fetched, image, blind, ran, ops>>

Next ==
    \/ XtensaResume \/ XtensaDoStep \/ StepStopped \/ StepTimesOut
    \/ HaltRequest \/ HaltSeen \/ HaltGivesUp \/ ClearDebugInterrupt \/ Resume \/ Fetch \/ Access
    \/ AddBreakpoint \/ RemoveBreakpoint \/ AddWatchpoint \/ RemoveWatchpoint
    \/ StartAlgorithm \/ AlgorithmStopped \/ AlgorithmTimesOut \/ AlgorithmLost
    \/ CallFunction \/ CallReturned \/ CallTimesOut \/ Load
    \/ ProgramStops \/ ProgramRuns \/ StubStops

Spec == Init /\ [][Next]_vars

-------------------------------------------------------------------------------

(* Types, and that a step is in progress only with a frame to return to.         *)
TypeOK ==
    /\ DOMAIN s.hw.ar = Phys /\ DOMAIN s.hw.sr = SR /\ DOMAIN s.cache.sr = SR
    /\ s.hw.sr["windowbase"] \in 0 .. ARegs \div Inc - 1
    /\ s.hw.run \in {"halted", "app", "stub"} /\ s.hw.irq \in BOOLEAN
    /\ s.hw.run = "halted" => ~s.hw.irq
    /\ s.ctx \in {"live", "cached", "both", "lost"}
    /\ s.cache.dsr \subseteq SR \ {"debugcause"}
    /\ s.cache.dar \subseteq Phys /\ s.cache.da \subseteq Seen
    /\ host.at \in {"idle", "halting", "stepping", "waiting", "calling"}
    /\ host.at = "stepping" => Len(host.frames) \in 1 .. 3
    /\ bps \in [Slots -> Addresses \cup {None}] /\ wps \in [Slots -> {None, 1, 2}]
    /\ {fetched, blind} \subseteq BOOLEAN
    /\ ran \in 0 .. MaxRun /\ ops \in 0 .. MaxOps

Released == s.hw.run = "halted" /\ s'.hw.run = "app"

(* When the program goes on, by whatever way, it has the registers it stopped    *)
(* with, its window, its coprocessors, and the PC it stopped at or was sent to:  *)
(* through fetches that use a3 and switch coprocessors on, steps, and accesses.  *)
(* Nothing is said of a caller that bypassed the cache after a fetch, or used it *)
(* without one (ctx = "lost").                                                   *)
ProgramIntact == [][Released /\ s'.ctx # "lost" => ProgramState(s'.hw) = s'.app]_vars

(* A resume that ends leaves exactly the slots armed, breakpoints an operating   *)
(* system overwrote included, watchpoints a step had hidden as well, and no      *)
(* count that would stop the core.                                               *)
ArmedAtResume ==
    [][Released /\ host' = Idle /\ s'.ctx = "both" /\ ~blind' =>
         LET h == s'.hw
         IN /\ h.sr["ibreakenable"] = Occupied
            /\ \A i \in Occupied : h.sr[Ibreaka[i]] = bps[i]
            /\ \A i \in Slots : h.sr[Dbreakc[i]] = IF wps[i] = None THEN 0 ELSE wps[i]
            /\ h.sr["icountlevel"] = 0]_vars

(* A step that ends on its count or on a watchpoint executed the instruction it   *)
(* was for, and one more for each count it ended in a window handler before: a    *)
(* watchpoint it starts on does not stop it again, and the count it ends by was   *)
(* its own.  (A watchpoint or BREAK met in a handler nests a step that takes the  *)
(* count from the outer one; nothing is said of that one, due = None.  Nor is     *)
(* anything said once a step has timed out, blind: its count may still be running.) *)
StepMovesOn ==
    [][host.at = "stepping" /\ Halted /\ ~blind /\ s.hw.sr["debugcause"] \in {"IC", "DB"} =>
         LET f == Head(host.frames)
         IN (host' = Idle \/ Len(host'.frames) < Len(host.frames))
              /\ (s.hw.sr["debugcause"] = "IC" \/ f.cause = "DB") /\ f.due # None
              => ran - f.first = f.due]_vars

(* An algorithm that ended on its BREAK gives the program back its PC, window and *)
(* coprocessors; PS if it was sent another one, else PS is what the algorithm     *)
(* made of it; in the program's window the registers that were sent another value *)
(* than they had, the result, and a3.  Every other register stays as it is: the   *)
(* program's, if the algorithm neither used nor was sent anything in it, what the *)
(* algorithm left or was sent otherwise; and a3 of its window is lost.  (A program *)
(* that stood at the very exit is left out: its PC is then not written, and a3    *)
(* is not used nor put back if nothing else is written either.)                   *)
Unused(k) == s.hw.ar[k] \notin LeftByCode
WindowOf(wb, regs) == {Canonical(n, wb) : n \in regs}
AlgorithmRestored ==
    [][host.at = "waiting" /\ Halted /\ host.known /\ s.hw.sr["debugcause"] = "BI"
         /\ host.backup.sr["pc"] # s.hw.sr["pc"] =>
         LET was == host.backup
             now == [s.cache.a EXCEPT ![0] = LiveA(s.hw, 0)]
             back == WindowOf(s.app.wb, {n \in Seen : now[n] # was.a[n]} \cup {Scratch})
             lost == Canonical(Scratch, 0)
             eps == IF s.cache.sr["eps"] = was.sr["eps"] THEN s.hw.sr["eps"] ELSE s.app.eps
         IN /\ ProgramState(s'.hw) =
                  [s.app EXCEPT !.eps = eps,
                                !.ar = [k \in Phys |->
                                          CASE k \in back -> @[k]
                                            [] k = lost /\ k \notin back -> Junk
                                            [] OTHER -> s.hw.ar[k]]]
            /\ \A k \in Phys :
                 Unused(k) /\ k \notin WindowOf(0, host.regs \cup {Scratch})
                   => s'.hw.ar[k] = s.app.ar[k]]_vars

(* wait_algorithm "then restores the whole core_cache from the backup and         *)
(* flushes": the program has its registers back.                                  *)
AlgorithmUndone ==
    [][host.at = "waiting" /\ Halted /\ host.known /\ s.hw.sr["debugcause"] = "BI" =>
         ProgramState(s'.hw) = s.app]_vars

(* A function that ended on its BREAK has given back PC, PS, window, coprocessors, *)
(* the vectors and, if windowed, every register, if a CALL0, a0 to a7, by way of   *)
(* which the special registers are put back; registers it did not use are the same. *)
FunctionRestored ==
    [][host.at = "calling" /\ Halted /\ s.hw.sr["debugcause"] = "BI" =>
         LET was == host.before
         IN /\ [ProgramState(s'.hw) EXCEPT !.ar = was.ar] = ProgramState(was)
            /\ s'.hw.vecbase = was.vecbase
            /\ \A k \in Phys :
                 (host.windowed \/ k \in WindowOf(was.sr["windowbase"], LowSaved) \/ Unused(k))
                   => s'.hw.ar[k] = was.ar[k]]_vars

(* What the core fetches and reads after a load is the stub.                     *)
LoadedImage == [][image' # image => SeesStub(image')]_vars
=============================================================================
