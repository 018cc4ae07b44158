----------------------------- MODULE XtensaProofs -----------------------------
(***************************************************************************)
(* Proofs about Xtensa, for every register file, window, scratch register  *)
(* and program: what a program is resumed with, and what is armed then.    *)
(***************************************************************************)
EXTENDS Xtensa, SequenceTheorems, FiniteSetTheorems, TLAPS

-------------------------------------------------------------------------------
(* Windows, registers and sessions.                                         *)

\* The constants of the window.
LEMMA Windows ==
  /\ ARegs \in Nat \ {0} /\ Inc \in Nat \ {0} /\ Window \in Nat /\ Window <= ARegs
  /\ Scratch \in Seen /\ Scratch \in Phys /\ Scratch \in Nat /\ Seen \subseteq Phys /\ Phys \subseteq Int
<1>1. ARegs \in Nat /\ Window \in 1..ARegs /\ Inc \in 1..Window /\ Scratch \in 0 .. Window - 1
  BY WindowAssumption
<1> QED BY <1>1 DEF Phys, Seen

\* A shift round a circle of m places, and back.
LEMMA Shift ==
  ASSUME NEW m \in Nat \ {0}, NEW x \in Int, NEW k \in 0 .. m - 1
  PROVE  (k + x) % m \in 0 .. m - 1 /\ (((k + x) % m) + (-x)) % m = k
<1> DEFINE y == k + x
<1>1. PICK d \in Int : d = y \div m
  OBVIOUS
<1>2. PICK r \in 0 .. m - 1 : r = y % m
  OBVIOUS
<1>3. y = m * d + r
  BY <1>1, <1>2
<1>4. r + (-x) = k - m * d
  BY <1>3
<1>5. (k - m * d) % m = k
  <2> DEFINE z == k - m * d
  <2>0. z \in Int
    BY <1>1
  <2>1. PICK e \in Int : e = z \div m
    BY <2>0
  <2>2. PICK q \in 0 .. m - 1 : q = z % m
    BY <2>0
  <2>3. z = m * e + q
    BY <2>0, <2>1, <2>2
  <2>4. m * (d + e) = k - q
    BY <2>3
  <2>5. d + e = 0
    <3>1. m * (d + e) < m /\ m * (d + e) > -m
      BY <2>4
    <3> QED BY <3>1
  <2> QED BY <2>2, <2>4, <2>5
<1> QED BY <1>2, <1>4, <1>5

\* Index and place of a register determine each other.
LEMMA Places ==
  ASSUME NEW wb \in Int
  PROVE  /\ \A n \in Phys : Canonical(n, wb) \in Phys /\ ToWindow(Canonical(n, wb), wb) = n
         /\ \A k \in Phys : ToWindow(k, wb) \in Phys /\ Canonical(ToWindow(k, wb), wb) = k
<1> DEFINE x == wb * Inc
<1>1. x \in Int /\ (-wb) * Inc = -x /\ ARegs \in Nat \ {0} /\ -x \in Int /\ -(-x) = x
  BY Windows
<1>2. \A n : Canonical(n, wb) = (n + x) % ARegs /\ ToWindow(n, wb) = (n + (-x)) % ARegs
  BY <1>1 DEF Canonical, ToWindow
<1> HIDE DEF x
<1>3. ASSUME NEW n \in Phys PROVE (n + x) % ARegs \in Phys /\ (((n + x) % ARegs) + (-x)) % ARegs = n
  BY <1>1, Shift DEF Phys
<1>4. ASSUME NEW n \in Phys PROVE (n + (-x)) % ARegs \in Phys /\ (((n + (-x)) % ARegs) + x) % ARegs = n
  <2>1. (((n + (-x)) % ARegs) + (-(-x))) % ARegs = n /\ (n + (-x)) % ARegs \in Phys
    BY <1>1, Shift DEF Phys
  <2> QED BY <1>1, <2>1
<1> QED BY <1>2, <1>3, <1>4

\* What the special registers may hold, as far as it matters.
AllCauses == {"none", "IB", "DB", "BI", "DI", "IC"}

\* Registers whose value is a number the model computes with.
Numbers == {"pc", "windowbase", "dbreakc0", "dbreakc1"}

\* The special registers, of a core or as cached.
IsRegs(f) ==
  /\ f = [r \in SR |-> f[r]]
  /\ \A r \in Numbers : f[r] \in Int
  /\ f["debugcause"] \in AllCauses

\* The types of the core, of the cache and of a session.
IsCore(h) ==
  /\ h = [ar |-> h.ar, sr |-> h.sr, vecbase |-> h.vecbase, run |-> h.run, irq |-> h.irq]
  /\ h.ar = [k \in Phys |-> h.ar[k]] /\ IsRegs(h.sr)
  /\ h.run \in {"halted", "app", "stub"} /\ h.irq \in BOOLEAN

\* The register cache.
IsCache(c) ==
  /\ c = [sr |-> c.sr, ar |-> c.ar, a |-> c.a, dsr |-> c.dsr, dar |-> c.dar, da |-> c.da]
  /\ c.ar = [k \in Phys |-> c.ar[k]] /\ c.a = [n \in Seen |-> c.a[n]] /\ IsRegs(c.sr)
  /\ c.dsr \subseteq SR \ {"debugcause"}

\* What a program is resumed with.
IsProgram(p) ==
  p = [ar |-> p.ar, pc |-> p.pc, eps |-> p.eps, wb |-> p.wb, cp |-> p.cp]

\* A session of XtensaCache: core, cache, where the program is kept, and the program.
IsSession(t) ==
  /\ t = [hw |-> t.hw, cache |-> t.cache, ctx |-> t.ctx, app |-> t.app]
  /\ IsCore(t.hw) /\ IsCache(t.cache) /\ IsProgram(t.app)
  /\ t.ctx \in {"live", "cached", "both", "lost"}

\* Of the A registers a cache marks the scratch alone.
Tidy(c) == c.dar = {} /\ c.da \subseteq {Scratch}

\* Writing a cache back into a core leaves the program's registers, wherever the program
\* is to go on.
Covers(h, c, p) ==
  /\ Tidy(c)
  /\ c.sr["windowbase"] = p.wb /\ h.sr["windowbase"] = p.wb
  /\ c.sr["eps"] = p.eps /\ ("eps" \notin c.dsr => h.sr["eps"] = p.eps)
  /\ c.sr["cpenable"] = p.cp /\ ("cpenable" \notin c.dsr => h.sr["cpenable"] = p.cp)
  /\ "pc" \notin c.dsr => h.sr["pc"] = c.sr["pc"]
  /\ c.a[Scratch] = p.ar[Canonical(Scratch, p.wb)]
  /\ p.ar = [k \in Phys |-> p.ar[k]]
  /\ \A k \in Phys : h.ar[k] = p.ar[k] \/ (k = Canonical(Scratch, p.wb) /\ c.dsr \cup c.da # {})

\* Nothing of the program is lost: it is in the core, or in the cache, or in both.
Stored(t) ==
  /\ t.ctx = "live" => ProgramState(t.hw) = t.app
  /\ t.ctx \in {"cached", "both"} => Covers(t.hw, t.cache, t.app)

\* The cached PC is the one the program goes on at.
GoesOn(t) == t.ctx \in {"cached", "both"} => t.cache.sr["pc"] = t.app.pc

\* The program is where the history says, and a core written back holds all of it.
Sound(t) == Stored(t) /\ GoesOn(t) /\ (t.ctx = "both" => ProgramState(t.hw) = t.app)

\* The names of the registers.
LEMMA Names ==
  /\ {"pc", "eps", "windowbase", "cpenable", "ibreakenable", "ibreaka0", "ibreaka1",
       "dbreakc0", "dbreakc1", "debugcause", "icount", "icountlevel"} \subseteq SR
  /\ Ibreaka[1] = "ibreaka0" /\ Ibreaka[2] = "ibreaka1" /\ Dbreakc[1] = "dbreakc0" /\ Dbreakc[2] = "dbreakc1"
BY DEF SR, Ibreaka, Dbreakc

\* A value for a special register.
Fits(r, v) ==
  /\ r \in SR /\ (r \in Numbers => v \in Int)
  /\ r = "debugcause" => v \in AllCauses

\* One register set, the others as they were.
With(f, r, v) == [f EXCEPT ![r] = v]

\* Special registers with one of them set.
LEMMA SpecialSet ==
  ASSUME NEW f, IsRegs(f), NEW r, NEW v, Fits(r, v)
  PROVE  IsRegs(With(f, r, v)) /\ \A x \in SR : With(f, r, v)[x] = IF x = r THEN v ELSE f[x]
<1> DEFINE g == With(f, r, v)
<1>0. f = [x \in SR |-> f[x]]
  BY DEF IsRegs
<1>1. DOMAIN f = SR
  BY <1>0
<1>2. g = [x \in SR |-> IF x = r THEN v ELSE f[x]]
  BY <1>1 DEF With
<1> HIDE DEF g
<1>3. g = [x \in SR |-> g[x]] /\ \A x \in SR : g[x] = IF x = r THEN v ELSE f[x]
  BY <1>2
<1>4. Numbers \subseteq SR /\ "debugcause" \in SR
  BY DEF Numbers, SR
<1>5. IsRegs(g)
  BY <1>3, <1>4 DEF IsRegs, Fits
<1> QED BY <1>3, <1>5 DEF g

\* Registers of the core set.
LEMMA CoreSet ==
  ASSUME NEW h, IsCore(h)
  PROVE  \A n \in Phys : \A v :
           /\ IsCore(SetAr(h, n, v))
           /\ SetAr(h, n, v).sr = h.sr /\ SetAr(h, n, v).vecbase = h.vecbase
           /\ SetAr(h, n, v).run = h.run /\ SetAr(h, n, v).irq = h.irq
           /\ \A k \in Phys : SetAr(h, n, v).ar[k] =
                IF k = Canonical(n, h.sr["windowbase"]) THEN v ELSE h.ar[k]
<1> SUFFICES ASSUME NEW n \in Phys, NEW v
             PROVE  /\ IsCore(SetAr(h, n, v))
                    /\ SetAr(h, n, v).sr = h.sr /\ SetAr(h, n, v).vecbase = h.vecbase
                    /\ SetAr(h, n, v).run = h.run /\ SetAr(h, n, v).irq = h.irq
                    /\ \A k \in Phys : SetAr(h, n, v).ar[k] =
                         IF k = Canonical(n, h.sr["windowbase"]) THEN v ELSE h.ar[k]
  OBVIOUS
<1>1. h.sr["windowbase"] \in Int
  BY DEF IsCore, IsRegs, Numbers
<1>2. Canonical(n, h.sr["windowbase"]) \in Phys
  BY <1>1, Places
<1> DEFINE at == Canonical(n, h.sr["windowbase"])
           g == SetAr(h, n, v)
<1>3. g = [ar |-> [h.ar EXCEPT ![at] = v], sr |-> h.sr, vecbase |-> h.vecbase, run |-> h.run, irq |-> h.irq]
  BY DEF SetAr, IsCore
<1>4. [h.ar EXCEPT ![at] = v] = [k \in Phys |-> IF k = at THEN v ELSE h.ar[k]]
  BY <1>2 DEF IsCore
<1> HIDE DEF at, g
<1>5. g.ar = [k \in Phys |-> IF k = at THEN v ELSE h.ar[k]] /\ g.sr = h.sr /\ g.vecbase = h.vecbase
      /\ g.run = h.run /\ g.irq = h.irq
  BY <1>3, <1>4
<1>6. g = [ar |-> g.ar, sr |-> g.sr, vecbase |-> g.vecbase, run |-> g.run, irq |-> g.irq]
  BY <1>3
<1>7. IsCore(g) /\ \A k \in Phys : g.ar[k] = IF k = at THEN v ELSE h.ar[k]
  BY <1>5, <1>6 DEF IsCore
<1> QED BY <1>5, <1>7 DEF g, at

-------------------------------------------------------------------------------
(* Setting registers, in the core and in the cache.                         *)

\* An injected access hands a3 back: the core is as before.
LEMMA InjectedSame == ASSUME NEW h, IsCore(h) PROVE Injected(h) = h
<1> DEFINE g == SetAr(h, Scratch, Junk)
           at == Canonical(Scratch, h.sr["windowbase"])
<1>1. Scratch \in Phys /\ h.sr["windowbase"] \in Int
  BY Windows DEF IsCore, IsRegs, Numbers
<1>2. at \in Phys
  BY <1>1, Places
<1>3. IsCore(g) /\ g.sr = h.sr /\ g.vecbase = h.vecbase /\ g.run = h.run /\ g.irq = h.irq
      /\ \A k \in Phys : g.ar[k] = IF k = at THEN Junk ELSE h.ar[k]
  BY <1>1, CoreSet
<1>4. Injected(h) = SetAr(g, Scratch, h.ar[at])
  BY DEF Injected, RestoreA3, SaveA3, LiveA
<1> DEFINE f == SetAr(g, Scratch, h.ar[at])
<1> HIDE DEF g
<1>5. IsCore(f) /\ f.sr = h.sr /\ f.vecbase = h.vecbase /\ f.run = h.run /\ f.irq = h.irq
      /\ \A k \in Phys : f.ar[k] = IF k = at THEN h.ar[at] ELSE g.ar[k]
  BY <1>1, <1>3, CoreSet
<1> HIDE DEF f
<1>6. \A k \in Phys : f.ar[k] = h.ar[k]
  BY <1>3, <1>5
<1>7. f.ar = h.ar
  BY <1>5, <1>6 DEF IsCore
<1> QED BY <1>4, <1>5, <1>7 DEF IsCore, f

\* A special register of the core set, through a3.
LEMMA CoreSpecial ==
  ASSUME NEW h, IsCore(h), NEW r, NEW v, Fits(r, v)
  PROVE  LET g == SetSr(h, r, v)
         IN /\ IsCore(g) /\ \A x \in SR : g.sr[x] = IF x = r THEN v ELSE h.sr[x]
            /\ g.vecbase = h.vecbase /\ g.run = h.run /\ g.irq = h.irq
            /\ \A k \in Phys : k # Canonical(Scratch, h.sr["windowbase"]) => g.ar[k] = h.ar[k]
<1> DEFINE f == SetAr(h, Scratch, Junk)
           g == SetSr(h, r, v)
<1>1. IsCore(f) /\ f.sr = h.sr /\ f.vecbase = h.vecbase /\ f.run = h.run /\ f.irq = h.irq
      /\ \A k \in Phys : f.ar[k] = IF k = Canonical(Scratch, h.sr["windowbase"]) THEN Junk ELSE h.ar[k]
  BY Windows, CoreSet
<1>2. g = [f EXCEPT !.sr[r] = v]
  BY DEF SetSr
<1> HIDE DEF f, g
<1>3. g = [ar |-> f.ar, sr |-> [f.sr EXCEPT ![r] = v], vecbase |-> f.vecbase, run |-> f.run, irq |-> f.irq]
  BY <1>1, <1>2 DEF IsCore
<1> DEFINE sr == With(f.sr, r, v)
<1>4. IsRegs(sr) /\ \A x \in SR : sr[x] = IF x = r THEN v ELSE f.sr[x]
  BY <1>1, SpecialSet DEF IsCore
<1> HIDE DEF sr
<1>5. IsCore(g) /\ g.sr = sr
  BY <1>1, <1>3, <1>4 DEF IsCore, sr, With
<1>6. g.vecbase = h.vecbase /\ g.run = h.run /\ g.irq = h.irq /\ g.ar = f.ar
  BY <1>1, <1>3
<1> QED BY <1>1, <1>4, <1>5, <1>6 DEF g

\* The register the vectors are at, likewise.
LEMMA CoreVectors ==
  ASSUME NEW h, IsCore(h), NEW v
  PROVE  LET g == SetVecbase(h, v)
         IN /\ IsCore(g) /\ g.sr = h.sr /\ g.vecbase = v /\ g.run = h.run /\ g.irq = h.irq
            /\ \A k \in Phys : k # Canonical(Scratch, h.sr["windowbase"]) => g.ar[k] = h.ar[k]
<1> DEFINE f == SetAr(h, Scratch, Junk)
           g == SetVecbase(h, v)
<1>1. IsCore(f) /\ f.sr = h.sr /\ f.vecbase = h.vecbase /\ f.run = h.run /\ f.irq = h.irq
      /\ \A k \in Phys : f.ar[k] = IF k = Canonical(Scratch, h.sr["windowbase"]) THEN Junk ELSE h.ar[k]
  BY Windows, CoreSet
<1>2. g = [f EXCEPT !.vecbase = v]
  BY DEF SetVecbase
<1> HIDE DEF f, g
<1>3. g = [ar |-> f.ar, sr |-> f.sr, vecbase |-> v, run |-> f.run, irq |-> f.irq]
  BY <1>1, <1>2 DEF IsCore
<1>5. IsCore(g)
  BY <1>1, <1>3 DEF IsCore
<1> QED BY <1>1, <1>3, <1>5 DEF g

\* A cached register set, and marked; or set unless it is so already.
LEMMA ValueSet ==
  ASSUME NEW c, IsCache(c), NEW r, NEW v, Fits(r, v), r # "debugcause"
  PROVE  LET d == SetValue(c, r, v)
         IN /\ IsCache(d) /\ d.ar = c.ar /\ d.a = c.a /\ d.da = c.da /\ d.dar = c.dar
            /\ \A x \in SR : d.sr[x] = IF x = r THEN v ELSE c.sr[x]
            /\ d.dsr = c.dsr \cup {r}
<1> DEFINE d == SetValue(c, r, v)
<1>1. d = [sr |-> [c.sr EXCEPT ![r] = v], ar |-> c.ar, a |-> c.a, dsr |-> c.dsr \cup {r}, dar |-> c.dar, da |-> c.da]
  <2>1. c = [sr |-> c.sr, ar |-> c.ar, a |-> c.a, dsr |-> c.dsr, dar |-> c.dar, da |-> c.da]
    BY DEF IsCache
  <2>2. PICK b : b = [c EXCEPT !.sr[r] = v]
    OBVIOUS
  <2>3. b = [sr |-> [c.sr EXCEPT ![r] = v], ar |-> c.ar, a |-> c.a, dsr |-> c.dsr, dar |-> c.dar, da |-> c.da]
    BY <2>1, <2>2
  <2>4. d = [b EXCEPT !.dsr = b.dsr \cup {r}]
    BY <2>1, <2>2 DEF SetValue
  <2> QED BY <2>3, <2>4
<1> HIDE DEF d
<1> DEFINE sr == With(c.sr, r, v)
<1>2. IsRegs(sr) /\ \A x \in SR : sr[x] = IF x = r THEN v ELSE c.sr[x]
  BY SpecialSet DEF IsCache
<1> HIDE DEF sr
<1>3. IsCache(d)
  BY <1>1, <1>2 DEF IsCache, Fits, sr, With
<1>4. d.sr = sr /\ d.ar = c.ar /\ d.a = c.a /\ d.da = c.da /\ d.dar = c.dar /\ d.dsr = c.dsr \cup {r}
  BY <1>1 DEF sr, With
<1> QED BY <1>2, <1>3, <1>4 DEF d

\* Setting a register through the cache: dirty only if its value changes.
LEMMA CacheSet ==
  ASSUME NEW c, IsCache(c), NEW r, NEW v, Fits(r, v), r # "debugcause"
  PROVE  LET d == RegSet(c, r, v)
         IN /\ IsCache(d) /\ d.ar = c.ar /\ d.a = c.a /\ d.da = c.da /\ d.dar = c.dar
            /\ \A x \in SR : d.sr[x] = IF x = r THEN v ELSE c.sr[x]
            /\ d.dsr = IF c.sr[r] = v THEN c.dsr ELSE c.dsr \cup {r}
<1>1. CASE c.sr[r] = v
  BY <1>1 DEF RegSet
<1>2. CASE c.sr[r] # v
  <2>1. RegSet(c, r, v) = SetValue(c, r, v)
    BY <1>2 DEF RegSet
  <2> QED BY <1>2, <2>1, ValueSet
<1> QED BY <1>1, <1>2

\* The cached cause cleared.
LEMMA CauseCleared ==
  ASSUME NEW c, IsCache(c)
  PROVE  LET d == CauseClear(c)
         IN /\ IsCache(d) /\ d.ar = c.ar /\ d.a = c.a /\ d.da = c.da /\ d.dar = c.dar /\ d.dsr = c.dsr
            /\ \A x \in SR : d.sr[x] = IF x = "debugcause" THEN "none" ELSE c.sr[x]
<1> DEFINE e == RegSet(c, "debugcause", "none")
           d == CauseClear(c)
<1>0. Fits("debugcause", "none")
  BY DEF Fits, SR, AllCauses, Numbers
<1>1. /\ e = [sr |-> e.sr, ar |-> e.ar, a |-> e.a, dsr |-> e.dsr, dar |-> e.dar, da |-> e.da]
      /\ e.sr = [c.sr EXCEPT !["debugcause"] = "none"] /\ e.ar = c.ar /\ e.a = c.a /\ e.da = c.da
      /\ e.dar = c.dar /\ e.dsr \in {c.dsr, c.dsr \cup {"debugcause"}}
  <2>1. CASE c.sr["debugcause"] = "none"
    <3>1. [c.sr EXCEPT !["debugcause"] = "none"] = c.sr
      BY <2>1 DEF IsCache, IsRegs
    <3> QED BY <2>1, <3>1 DEF RegSet, IsCache
  <2>2. CASE c.sr["debugcause"] # "none"
    BY <2>2 DEF RegSet, SetValue, IsCache
  <2> QED BY <2>1, <2>2
<1>2. d = [e EXCEPT !.dsr = @ \ {"debugcause"}]
  BY DEF CauseClear
<1> HIDE DEF e, d
<1>3. d = [sr |-> e.sr, ar |-> e.ar, a |-> e.a, dsr |-> e.dsr \ {"debugcause"}, dar |-> e.dar, da |-> e.da]
  BY <1>1, <1>2
<1>4. e.dsr \ {"debugcause"} = c.dsr
  BY <1>1 DEF IsCache
<1> DEFINE sr == With(c.sr, "debugcause", "none")
<1>5. IsRegs(sr) /\ \A x \in SR : sr[x] = IF x = "debugcause" THEN "none" ELSE c.sr[x]
  BY <1>0, SpecialSet DEF IsCache
<1> HIDE DEF sr
<1>6. IsCache(d) /\ d.sr = sr
  BY <1>1, <1>3, <1>4, <1>5 DEF IsCache, sr, With
<1>7. d.ar = c.ar /\ d.a = c.a /\ d.da = c.da /\ d.dar = c.dar /\ d.dsr = c.dsr
  BY <1>1, <1>3, <1>4
<1> QED BY <1>5, <1>6, <1>7 DEF d

-------------------------------------------------------------------------------
(* Writing back.                                                            *)

\* The special registers written back.
LEMMA SpecialsWritten ==
  ASSUME NEW h, IsCore(h), NEW c, IsCache(c)
  PROVE  LET g == Specials(h, c)
         IN /\ IsCore(g) /\ g.vecbase = h.vecbase /\ g.run = h.run /\ g.irq = h.irq
            /\ \A r \in SR : g.sr[r] = IF r \in c.dsr THEN c.sr[r] ELSE h.sr[r]
            /\ \A k \in Phys : g.ar[k] = h.ar[k] \/ (c.dsr # {} /\ k = Canonical(Scratch, h.sr["windowbase"]))
<1> DEFINE used == IF c.dsr = {} THEN h ELSE SetAr(h, Scratch, Junk)
           regs == [r \in SR |-> IF r \in c.dsr THEN c.sr[r] ELSE h.sr[r]]
           g == Specials(h, c)
<1>1. /\ IsCore(used) /\ used.sr = h.sr /\ used.vecbase = h.vecbase /\ used.run = h.run /\ used.irq = h.irq
      /\ \A k \in Phys : used.ar[k] = h.ar[k] \/ (c.dsr # {} /\ k = Canonical(Scratch, h.sr["windowbase"]))
  BY Windows, CoreSet
<1>2. g = [used EXCEPT !.sr = [r \in SR |-> IF r \in c.dsr THEN c.sr[r] ELSE used.sr[r]]]
  BY DEF Specials
<1> HIDE DEF used, g
<1>3. g = [used EXCEPT !.sr = regs]
  BY <1>1, <1>2
<1>4. IsRegs(regs)
  BY DEF IsCore, IsCache, IsRegs, Numbers, SR
<1>5. \A r \in SR : regs[r] = IF r \in c.dsr THEN c.sr[r] ELSE h.sr[r]
  OBVIOUS
<1> HIDE DEF regs
<1>6. g = [ar |-> used.ar, sr |-> regs, vecbase |-> used.vecbase, run |-> used.run, irq |-> used.irq]
  BY <1>1, <1>3 DEF IsCore
<1>7. IsCore(g)
  BY <1>1, <1>4, <1>6 DEF IsCore
<1> QED BY <1>1, <1>5, <1>6, <1>7 DEF g

\* What the session is after a write back.
AfterWrite(t) ==
  CASE t.ctx \in {"cached", "both"} -> "both"
    [] t.ctx = "live" /\ t.cache.dsr = {} /\ t.cache.dar = {} /\ t.cache.da = {} -> "live"
    [] OTHER -> "lost"

\* Everything written back.
LEMMA Written0 ==
  ASSUME NEW t, IsSession(t)
  PROVE  LET u == WriteDirty(t)
             g == Specials(t.hw, t.cache)
             live == g.sr["windowbase"]
         IN /\ IsSession(u) /\ u.app = t.app /\ u.ctx = AfterWrite(t)
            /\ u.hw.sr = g.sr /\ u.hw.vecbase = t.hw.vecbase /\ u.hw.run = t.hw.run /\ u.hw.irq = t.hw.irq
            /\ u.cache.sr = t.cache.sr /\ u.cache.ar = t.cache.ar /\ u.cache.a = t.cache.a
            /\ u.cache.dsr = {} /\ u.cache.da = {} /\ u.cache.dar = {}
            /\ t.cache.dar = {} => \A k \in Phys : u.hw.ar[k] =
                 IF ToWindow(k, live) \in ScratchCounts(t.cache) THEN t.cache.a[ToWindow(k, live)] ELSE g.ar[k]
<1> DEFINE c == t.cache
           g == Specials(t.hw, c)
           live == g.sr["windowbase"]
           base == c.sr["windowbase"]
           written == [k \in Phys |->
              IF Canonical(ToWindow(k, live), base) \in c.dar THEN c.ar[Canonical(ToWindow(k, live), base)]
              ELSE IF ToWindow(k, live) \in ScratchCounts(c) THEN c.a[ToWindow(k, live)] ELSE g.ar[k]]
           hw == [g EXCEPT !.ar = written]
           d == [c EXCEPT !.dsr = {}, !.dar = {}, !.da = {}]
           ctx == CASE t.ctx \in {"cached", "both"} -> "both"
                    [] t.ctx = "live" /\ c.dsr = {} /\ c.dar \cup c.da = {} -> "live"
                    [] OTHER -> "lost"
           u == WriteDirty(t)
<1>1. IsCore(t.hw) /\ IsCache(c) /\ IsProgram(t.app)
  BY DEF IsSession, IsCache
<1>2. IsCore(g) /\ g.vecbase = t.hw.vecbase /\ g.run = t.hw.run /\ g.irq = t.hw.irq
  BY <1>1, SpecialsWritten
<1>3. u = [t EXCEPT !.hw = hw, !.cache = d, !.ctx = ctx]
  BY DEF WriteDirty
<1>4. written = [k \in Phys |-> written[k]]
  OBVIOUS
<1>5. ctx = AfterWrite(t)
  BY DEF AfterWrite
<1>6. t = [hw |-> t.hw, cache |-> t.cache, ctx |-> t.ctx, app |-> t.app]
  BY DEF IsSession
<1>7. d = [sr |-> c.sr, ar |-> c.ar, a |-> c.a, dsr |-> {}, dar |-> {}, da |-> {}]
  <2>1. PICK d1 : d1 = [c EXCEPT !.dsr = {}]
    OBVIOUS
  <2>2. PICK d2 : d2 = [d1 EXCEPT !.dar = {}]
    OBVIOUS
  <2>3. d1 = [sr |-> c.sr, ar |-> c.ar, a |-> c.a, dsr |-> {}, dar |-> c.dar, da |-> c.da]
    BY <1>1, <2>1 DEF IsCache
  <2>4. d2 = [sr |-> c.sr, ar |-> c.ar, a |-> c.a, dsr |-> {}, dar |-> {}, da |-> c.da]
    BY <2>2, <2>3
  <2>5. d = [d2 EXCEPT !.da = {}]
    BY <2>1, <2>2
  <2> QED BY <2>4, <2>5
<1>8. hw = [ar |-> written, sr |-> g.sr, vecbase |-> g.vecbase, run |-> g.run, irq |-> g.irq]
  <2> HIDE DEF g, written
  <2>1. g = [ar |-> g.ar, sr |-> g.sr, vecbase |-> g.vecbase, run |-> g.run, irq |-> g.irq]
    BY <1>2 DEF IsCore
  <2> QED BY <2>1
<1>9. c.dar = {} => \A k \in Phys : written[k] = IF ToWindow(k, live) \in ScratchCounts(c) THEN c.a[ToWindow(k, live)] ELSE g.ar[k]
  OBVIOUS
<1> HIDE DEF hw, d, ctx, written, g, live
<1>11. u = [hw |-> hw, cache |-> d, ctx |-> ctx, app |-> t.app]
  <2> HIDE DEF u
  <2>1. PICK u1 : u1 = [t EXCEPT !.hw = hw]
    OBVIOUS
  <2>2. PICK u2 : u2 = [u1 EXCEPT !.cache = d]
    OBVIOUS
  <2>3. u1 = [hw |-> hw, cache |-> t.cache, ctx |-> t.ctx, app |-> t.app]
    BY <1>6, <2>1
  <2>4. u2 = [hw |-> hw, cache |-> d, ctx |-> t.ctx, app |-> t.app]
    BY <2>2, <2>3
  <2>5. u = [u2 EXCEPT !.ctx = ctx]
    BY <1>3, <2>1, <2>2
  <2> QED BY <2>4, <2>5
<1>12. IsCore(hw)
  BY <1>2, <1>4, <1>8 DEF IsCore
<1>13. IsCache(d)
  BY <1>1, <1>7 DEF IsCache
<1>14. ctx \in {"live", "both", "lost"}
  BY <1>5 DEF AfterWrite
<1> HIDE DEF u
<1>15. IsSession(u)
  BY <1>1, <1>11, <1>12, <1>13, <1>14 DEF IsSession
<1>16. /\ u.hw.sr = g.sr /\ u.hw.vecbase = t.hw.vecbase /\ u.hw.run = t.hw.run /\ u.hw.irq = t.hw.irq
       /\ u.hw.ar = written /\ u.app = t.app /\ u.ctx = AfterWrite(t)
  BY <1>2, <1>5, <1>8, <1>11
<1>17. /\ u.cache.sr = t.cache.sr /\ u.cache.ar = t.cache.ar /\ u.cache.a = t.cache.a
       /\ u.cache.dsr = {} /\ u.cache.da = {} /\ u.cache.dar = {}
  BY <1>7, <1>11
<1> QED BY <1>9, <1>15, <1>16, <1>17 DEF u, g, live

\* A write back loses nothing: the program is in the core then.
LEMMA WrittenSound ==
  ASSUME NEW t, IsSession(t), Stored(t), GoesOn(t)
  PROVE  Sound(WriteDirty(t))
<1> DEFINE u == WriteDirty(t)
           h == t.hw
           c == t.cache
           p == t.app
           g == Specials(h, c)
<1>1. IsCore(h) /\ IsCache(c) /\ IsProgram(p)
  BY DEF IsSession
<1>2. /\ IsSession(u) /\ u.app = p /\ u.ctx = AfterWrite(t) /\ u.hw.sr = g.sr
      /\ u.cache.sr = c.sr /\ u.cache.ar = c.ar /\ u.cache.a = c.a
      /\ u.cache.dsr = {} /\ u.cache.da = {} /\ u.cache.dar = {}
      /\ c.dar = {} => \A k \in Phys : u.hw.ar[k] = IF ToWindow(k, g.sr["windowbase"]) \in ScratchCounts(c)
                                      THEN c.a[ToWindow(k, g.sr["windowbase"])] ELSE g.ar[k]
  BY Written0
<1>3. /\ \A r \in SR : g.sr[r] = IF r \in c.dsr THEN c.sr[r] ELSE h.sr[r]
      /\ \A k \in Phys : g.ar[k] = h.ar[k] \/ (c.dsr # {} /\ k = Canonical(Scratch, h.sr["windowbase"]))
  BY <1>1, SpecialsWritten
<1>4. {"pc", "eps", "windowbase", "cpenable"} \subseteq SR
  BY DEF SR
<1> SUFFICES Sound(u)
  OBVIOUS
<1> HIDE DEF u, g
<1>5. CASE t.ctx = "live" /\ c.dsr = {} /\ c.dar = {} /\ c.da = {}
  <2>1. u.ctx = "live" /\ ScratchCounts(c) = {}
    BY <1>2, <1>5 DEF AfterWrite, ScratchCounts
  <2>2. \A k \in Phys : u.hw.ar[k] = h.ar[k]
    BY <1>2, <1>3, <1>5, <2>1
  <2>3. u.hw.ar = h.ar
    BY <1>1, <1>2, <2>2 DEF IsSession, IsCore
  <2>4. \A r \in SR : u.hw.sr[r] = h.sr[r]
    BY <1>2, <1>3, <1>5
  <2>5. ProgramState(u.hw) = ProgramState(h)
    BY <1>4, <2>3, <2>4 DEF ProgramState
  <2> QED BY <1>2, <1>5, <2>1, <2>5 DEF Sound, Stored, GoesOn
<1>6. CASE t.ctx \in {"cached", "both"}
  <2>0. Covers(h, c, p) /\ c.sr["pc"] = p.pc /\ u.ctx = "both"
    BY <1>2, <1>6 DEF Stored, GoesOn, AfterWrite
  <2>1. p.wb \in Int /\ g.sr["windowbase"] = p.wb
    BY <1>1, <1>3, <1>4, <2>0 DEF Covers, IsCore, IsRegs, Numbers
  <2>2. u.hw.sr["pc"] = p.pc /\ u.hw.sr["eps"] = p.eps /\ u.hw.sr["windowbase"] = p.wb /\ u.hw.sr["cpenable"] = p.cp
    BY <1>2, <1>3, <1>4, <2>0, <2>1 DEF Covers
  <2>3. ASSUME NEW k \in Phys PROVE u.hw.ar[k] = p.ar[k]
    <3>1. (ToWindow(k, p.wb) = Scratch) <=> (k = Canonical(Scratch, p.wb))
      BY <2>1, Places, Windows
    <3>2. c.a[Scratch] = p.ar[Canonical(Scratch, p.wb)]
      BY <2>0 DEF Covers
    <3>3. h.ar[k] = p.ar[k] \/ (k = Canonical(Scratch, p.wb) /\ c.dsr \cup c.da # {})
      BY <2>0 DEF Covers
    <3>4. g.ar[k] = h.ar[k] \/ (c.dsr # {} /\ k = Canonical(Scratch, p.wb))
      BY <1>3, <2>0 DEF Covers
    <3>5. u.hw.ar[k] = IF ToWindow(k, p.wb) \in ScratchCounts(c) THEN c.a[ToWindow(k, p.wb)] ELSE g.ar[k]
      BY <1>2, <2>0, <2>1 DEF Covers, Tidy
    <3>6. c.da \subseteq {Scratch}
      BY <2>0 DEF Covers, Tidy
    <3>7. CASE k = Canonical(Scratch, p.wb) /\ c.dsr \cup c.da # {}
      BY <3>1, <3>2, <3>5, <3>6, <3>7 DEF ScratchCounts
    <3>8. CASE k = Canonical(Scratch, p.wb) /\ c.dsr \cup c.da = {}
      BY <3>3, <3>4, <3>5, <3>8 DEF ScratchCounts
    <3>9. CASE k # Canonical(Scratch, p.wb)
      BY <3>1, <3>3, <3>4, <3>5, <3>6, <3>9 DEF ScratchCounts
    <3> QED BY <3>7, <3>8, <3>9
  <2>4. p.ar = [k \in Phys |-> p.ar[k]]
    BY <2>0 DEF Covers
  <2>5. u.hw.ar = p.ar
    BY <1>2, <2>3, <2>4 DEF IsSession, IsCore
  <2>6. ProgramState(u.hw) = p
    BY <1>1, <2>2, <2>5 DEF ProgramState, IsProgram
  <2>7. Covers(u.hw, u.cache, p)
    BY <1>2, <2>0, <2>2, <2>4, <2>5 DEF Covers, Tidy
  <2> QED BY <1>2, <2>0, <2>6, <2>7 DEF Sound, Stored, GoesOn
<1>7. CASE t.ctx \notin {"cached", "both"} /\ ~(t.ctx = "live" /\ c.dsr = {} /\ c.dar = {} /\ c.da = {})
  <2>1. u.ctx = "lost"
    BY <1>2, <1>7 DEF AfterWrite
  <2> QED BY <2>1 DEF Sound, Stored, GoesOn
<1> QED BY <1>5, <1>6, <1>7

-------------------------------------------------------------------------------
(* Fetching.                                                                *)

\* Everything fetched.
LEMMA Fetched0 ==
  ASSUME NEW t, IsSession(t)
  PROVE  LET u == FetchAllRegs(t)
         IN /\ IsSession(u) /\ u.app = t.app /\ u.ctx = (IF t.ctx \in {"live", "both"} THEN "cached" ELSE "lost")
            /\ \A r \in SR : u.hw.sr[r] = IF r = "cpenable" THEN AllOn ELSE t.hw.sr[r]
            /\ u.hw.vecbase = t.hw.vecbase /\ u.hw.run = t.hw.run /\ u.hw.irq = t.hw.irq
            /\ u.cache.sr = t.hw.sr /\ u.cache.dsr = {"cpenable"}
            /\ u.cache.dar = t.cache.dar /\ u.cache.da = t.cache.da \cup {Scratch}
            /\ \A n \in Seen : u.cache.a[n] = t.hw.ar[Canonical(n, t.hw.sr["windowbase"])]
            /\ \A k \in Phys : k # Canonical(Scratch, t.hw.sr["windowbase"]) => u.hw.ar[k] = t.hw.ar[k]
<1> DEFINE h == t.hw
           wb == h.sr["windowbase"]
           regvals == [k \in Phys |-> h.ar[Canonical(k, wb)]]
           ar == [k \in Phys |-> regvals[ToWindow(k, wb)]]
           a == [n \in Seen |-> regvals[n]]
           g == SetSr(h, "cpenable", AllOn)
           c == t.cache
           da == c.da \cup {Scratch}
           d == [sr |-> h.sr, dsr |-> FetchedDirty, ar |-> ar, dar |-> c.dar, a |-> a, da |-> da]
           ctx == IF t.ctx \in {"live", "both"} THEN "cached" ELSE "lost"
           u == FetchAllRegs(t)
<1>1. IsCore(h) /\ IsCache(c) /\ IsProgram(t.app)
  BY DEF IsSession
<1>2. "cpenable" \in SR /\ Fits("cpenable", AllOn)
  BY DEF SR, Fits, Numbers
<1>3. /\ IsCore(g) /\ \A r \in SR : g.sr[r] = IF r = "cpenable" THEN AllOn ELSE h.sr[r]
      /\ g.vecbase = h.vecbase /\ g.run = h.run /\ g.irq = h.irq
      /\ \A k \in Phys : k # Canonical(Scratch, wb) => g.ar[k] = h.ar[k]
  <2>1. IsCore(h)
    BY <1>1
  <2> HIDE DEF h
  <2> QED BY <1>2, <2>1, CoreSpecial
<1>4. u = [t EXCEPT !.hw = g, !.cache = d, !.ctx = ctx]
  BY DEF FetchAllRegs
<1>5. t = [hw |-> t.hw, cache |-> t.cache, ctx |-> t.ctx, app |-> t.app]
  BY DEF IsSession
<1>7. d = [sr |-> h.sr, ar |-> ar, a |-> a, dsr |-> {"cpenable"}, dar |-> c.dar, da |-> da]
  BY DEF FetchedDirty
<1>8. \A n \in Seen : a[n] = h.ar[Canonical(n, wb)]
  BY Windows
<1>9. ar = [k \in Phys |-> ar[k]] /\ a = [n \in Seen |-> a[n]]
  OBVIOUS
<1> HIDE DEF g, d, ctx, ar, a, da, u
<1>10. u = [hw |-> g, cache |-> d, ctx |-> ctx, app |-> t.app]
  <2>1. PICK u1 : u1 = [t EXCEPT !.hw = g]
    OBVIOUS
  <2>2. PICK u2 : u2 = [u1 EXCEPT !.cache = d]
    OBVIOUS
  <2>3. u1 = [hw |-> g, cache |-> t.cache, ctx |-> t.ctx, app |-> t.app]
    BY <1>5, <2>1
  <2>4. u2 = [hw |-> g, cache |-> d, ctx |-> t.ctx, app |-> t.app]
    BY <2>2, <2>3
  <2>5. u = [u2 EXCEPT !.ctx = ctx]
    BY <1>4, <2>1, <2>2
  <2> QED BY <2>4, <2>5
<1>11. IsCache(d)
  <2>1. {"cpenable"} \subseteq SR \ {"debugcause"}
    BY DEF SR
  <2> QED BY <1>1, <1>7, <1>9, <2>1 DEF IsCache, IsCore
<1>12. ctx \in {"cached", "lost"}
  BY DEF ctx
<1>13. IsSession(u)
  BY <1>1, <1>3, <1>10, <1>11, <1>12 DEF IsSession
<1>14. u.hw = g /\ u.cache.sr = h.sr /\ u.cache.dsr = {"cpenable"} /\ u.cache.dar = c.dar /\ u.cache.da = da /\ u.cache.a = a
       /\ u.app = t.app /\ u.ctx = ctx
  BY <1>7, <1>10
<1> QED BY <1>3, <1>8, <1>13, <1>14 DEF u, ctx, da

\* What is fetched of a core that holds the program covers it.
LEMMA FetchedSound ==
  ASSUME NEW t, IsSession(t), Tidy(t.cache), t.ctx \in {"live", "both"} => ProgramState(t.hw) = t.app
  PROVE  Sound(FetchAllRegs(t))
<1> DEFINE u == FetchAllRegs(t)
           h == t.hw
           p == t.app
<1>1. IsCore(h) /\ IsProgram(p)
  BY DEF IsSession
<1>2. /\ u.app = p /\ u.ctx = (IF t.ctx \in {"live", "both"} THEN "cached" ELSE "lost")
      /\ \A r \in SR : u.hw.sr[r] = IF r = "cpenable" THEN AllOn ELSE h.sr[r]
      /\ u.cache.sr = h.sr /\ u.cache.dsr = {"cpenable"}
      /\ u.cache.dar = t.cache.dar /\ u.cache.da = t.cache.da \cup {Scratch}
      /\ \A n \in Seen : u.cache.a[n] = h.ar[Canonical(n, h.sr["windowbase"])]
      /\ \A k \in Phys : k # Canonical(Scratch, h.sr["windowbase"]) => u.hw.ar[k] = h.ar[k]
  BY Fetched0
<1> SUFFICES Sound(u)
  OBVIOUS
<1> HIDE DEF u
<1>3. CASE t.ctx \in {"live", "both"}
  <2>1. ProgramState(h) = p /\ u.ctx = "cached"
    BY <1>2, <1>3
  <2>2. p.ar = h.ar /\ p.pc = h.sr["pc"] /\ p.eps = h.sr["eps"] /\ p.wb = h.sr["windowbase"] /\ p.cp = h.sr["cpenable"]
    BY <2>1 DEF ProgramState
  <2>3. u.hw.sr["pc"] = h.sr["pc"] /\ u.hw.sr["eps"] = h.sr["eps"] /\ u.hw.sr["windowbase"] = h.sr["windowbase"]
    BY <1>2 DEF SR
  <2>4. u.cache.a[Scratch] = p.ar[Canonical(Scratch, p.wb)]
    BY <1>2, <2>2, Windows
  <2>5. p.ar = [k \in Phys |-> p.ar[k]]
    BY <1>1, <2>2 DEF IsCore
  <2>6. Covers(u.hw, u.cache, p)
    BY <1>2, <2>2, <2>3, <2>4, <2>5 DEF Covers, Tidy
  <2> QED BY <1>2, <2>1, <2>2, <2>6 DEF Sound, Stored, GoesOn
<1>4. CASE t.ctx \notin {"live", "both"}
  BY <1>2, <1>4 DEF Sound, Stored, GoesOn
<1> QED BY <1>3, <1>4

-------------------------------------------------------------------------------
(* Changes of the cache a program does not see, and arming breakpoints.     *)

\* The next address is one of the program's.
LEMMA NextIs == \A pc \in Int : Next3(pc) \in Nat
<1>1. Cardinality(Addresses) \in Nat /\ Cardinality(Addresses) # 0
  BY ProgramAssumption, FS_CardinalityType, FS_EmptySet
<1> QED BY <1>1 DEF Next3

\* A change of the cache that marks what it changes and keeps what covers the program, but
\* perhaps for the PC.
Gentle(c, d) ==
  /\ d.a = c.a /\ d.dar = c.dar /\ d.da = c.da /\ c.dsr \subseteq d.dsr
  /\ \A r \in {"eps", "windowbase", "cpenable"} : d.sr[r] = c.sr[r]
  /\ \A r \in SR \ {"debugcause"} : r \notin d.dsr => d.sr[r] = c.sr[r]

\* A cache changed gently still covers the program.
LEMMA GentleCovers ==
  ASSUME NEW h, NEW c, NEW d, NEW p, Covers(h, c, p), Gentle(c, d)
  PROVE  Covers(h, d, p)
<1>1. {"pc", "eps", "windowbase", "cpenable"} \subseteq SR \ {"debugcause"}
  BY DEF SR
<1>3. Tidy(d) /\ (c.dsr \cup c.da # {} => d.dsr \cup d.da # {})
  BY DEF Covers, Gentle, Tidy
<1>4. d.sr["windowbase"] = p.wb /\ d.sr["eps"] = p.eps /\ d.sr["cpenable"] = p.cp
  BY DEF Covers, Gentle
<1>5. /\ "eps" \notin d.dsr => h.sr["eps"] = p.eps
      /\ "cpenable" \notin d.dsr => h.sr["cpenable"] = p.cp
      /\ "pc" \notin d.dsr => h.sr["pc"] = d.sr["pc"]
  BY <1>1 DEF Covers, Gentle
<1>6. d.a[Scratch] = p.ar[Canonical(Scratch, p.wb)]
  BY DEF Covers, Gentle
<1>7. \A k \in Phys : h.ar[k] = p.ar[k] \/ (k = Canonical(Scratch, p.wb) /\ d.dsr \cup d.da # {})
  BY <1>3 DEF Covers
<1> QED BY <1>3, <1>4, <1>5, <1>6, <1>7 DEF Covers

\* No change is gentle.
LEMMA GentleOnce == ASSUME NEW c PROVE Gentle(c, c)
BY DEF Gentle

\* Two gentle changes are one.
LEMMA GentleTwice ==
  ASSUME NEW c, NEW d, NEW e, Gentle(c, d), Gentle(d, e) PROVE Gentle(c, e)
BY DEF Gentle

\* Setting a register of no concern to the program is gentle, and so is the PC.
LEMMA GentleSet ==
  ASSUME NEW c, IsCache(c), NEW r, NEW v, Fits(r, v), r \notin {"debugcause", "eps", "windowbase", "cpenable"}
  PROVE  LET d == RegSet(c, r, v)
         IN /\ IsCache(d) /\ Gentle(c, d)
            /\ \A x \in SR : d.sr[x] = IF x = r THEN v ELSE c.sr[x]
<1> DEFINE d == RegSet(c, r, v)
<1>1. /\ IsCache(d) /\ d.ar = c.ar /\ d.a = c.a /\ d.da = c.da /\ d.dar = c.dar
      /\ \A x \in SR : d.sr[x] = IF x = r THEN v ELSE c.sr[x]
      /\ d.dsr = IF c.sr[r] = v THEN c.dsr ELSE c.dsr \cup {r}
  BY CacheSet
<1> HIDE DEF d
<1>2. {"pc", "eps", "windowbase", "cpenable"} \subseteq SR /\ r \in SR
  BY DEF SR, Fits
<1>3. Gentle(c, d)
  BY <1>1, <1>2 DEF Gentle
<1> QED BY <1>1, <1>2, <1>3 DEF d

\* Forgetting the cause of a stop is gentle.
LEMMA GentleClear ==
  ASSUME NEW c, IsCache(c)
  PROVE  LET d == CauseClear(c)
         IN /\ IsCache(d) /\ Gentle(c, d) /\ d.dsr = c.dsr
            /\ \A x \in SR : d.sr[x] = IF x = "debugcause" THEN "none" ELSE c.sr[x]
<1> DEFINE d == CauseClear(c)
<1>1. /\ IsCache(d) /\ d.ar = c.ar /\ d.a = c.a /\ d.da = c.da /\ d.dar = c.dar /\ d.dsr = c.dsr
      /\ \A x \in SR : d.sr[x] = IF x = "debugcause" THEN "none" ELSE c.sr[x]
  BY CauseCleared
<1> HIDE DEF d
<1>2. {"pc", "eps", "windowbase", "cpenable"} \subseteq SR
  BY DEF SR
<1>3. Gentle(c, d)
  BY <1>1, <1>2 DEF Gentle
<1> QED BY <1>1, <1>3 DEF d

\* A session with another cache.
WithCache(t, d) == [t EXCEPT !.cache = d]

\* A session with another cache.
LEMMA CacheChanged ==
  ASSUME NEW t, IsSession(t), NEW d, IsCache(d)
  PROVE  LET u == WithCache(t, d)
         IN IsSession(u) /\ u.hw = t.hw /\ u.cache = d /\ u.ctx = t.ctx /\ u.app = t.app
<1> DEFINE u == WithCache(t, d)
<1>1. t = [hw |-> t.hw, cache |-> t.cache, ctx |-> t.ctx, app |-> t.app]
  BY DEF IsSession
<1>2. u = [hw |-> t.hw, cache |-> d, ctx |-> t.ctx, app |-> t.app]
  BY <1>1 DEF WithCache
<1> HIDE DEF u
<1>3. IsSession(u)
  BY <1>2 DEF IsSession
<1> QED BY <1>2, <1>3 DEF u

\* The program is to go on where it stopped, or where the caller sends it.
Sent(cur, addr) == addr # None /\ ~cur

\* Resumed with these arguments, the session sends its program where it is to go.
AimsAt(t, cur, addr) ==
  /\ Stored(t)
  /\ ~Sent(cur, addr) => GoesOn(t)
  /\ Sent(cur, addr) /\ t.ctx \in {"cached", "both"} => t.app.pc = addr

\* A gentle change leaves the aim.
LEMMA GentleAims ==
  ASSUME NEW t, IsSession(t), NEW cur, NEW addr, AimsAt(t, cur, addr),
         NEW d, IsCache(d), Gentle(t.cache, d), d.sr["pc"] = t.cache.sr["pc"]
  PROVE  AimsAt(WithCache(t, d), cur, addr)
<1> DEFINE u == WithCache(t, d)
<1>1. u.hw = t.hw /\ u.cache = d /\ u.ctx = t.ctx /\ u.app = t.app
  BY CacheChanged
<1> SUFFICES AimsAt(u, cur, addr)
  OBVIOUS
<1> HIDE DEF u
<1>2. Stored(u)
  BY <1>1, GentleCovers DEF AimsAt, Stored
<1> QED BY <1>1, <1>2 DEF AimsAt, GoesOn

\* The breakpoints are in the cache.
BreaksIn(c) == c.sr["ibreakenable"] = Occupied /\ \A i \in Occupied : c.sr[Ibreaka[i]] = bps[i]

\* The registers arming breakpoints uses.
IbreakRegs == {"ibreakenable", "ibreaka0", "ibreaka1"}

\* The cache prepare_resume arms breakpoints in.
ArmedCache(c) ==
  LET c1 == IF bps[1] = None THEN c ELSE RegSet(c, Ibreaka[1], bps[1])
      c2 == IF bps[2] = None THEN c1 ELSE RegSet(c1, Ibreaka[2], bps[2])
  IN RegSet(c2, "ibreakenable", Occupied)

\* Arming changes breakpoint registers only, and puts every occupied slot in.
LEMMA CacheArmed ==
  ASSUME NEW c, IsCache(c)
  PROVE  LET d == ArmedCache(c)
         IN IsCache(d) /\ Gentle(c, d) /\ BreaksIn(d) /\ \A x \in SR \ IbreakRegs : d.sr[x] = c.sr[x]
<1> DEFINE c1 == IF bps[1] = None THEN c ELSE RegSet(c, Ibreaka[1], bps[1])
           c2 == IF bps[2] = None THEN c1 ELSE RegSet(c1, Ibreaka[2], bps[2])
           d == RegSet(c2, "ibreakenable", Occupied)
<1>1. /\ Ibreaka[1] = "ibreaka0" /\ Ibreaka[2] = "ibreaka1"
      /\ \A v : Fits("ibreaka0", v) /\ Fits("ibreaka1", v) /\ Fits("ibreakenable", v)
      /\ {"ibreaka0", "ibreaka1", "ibreakenable"} \subseteq SR
  BY DEF Ibreaka, Fits, SR, Numbers
<1>2. /\ IsCache(c1) /\ Gentle(c, c1)
      /\ \A x \in SR : c1.sr[x] = IF bps[1] # None /\ x = "ibreaka0" THEN bps[1] ELSE c.sr[x]
  BY <1>1, GentleSet, GentleOnce
<1> HIDE DEF c1
<1>3. /\ IsCache(c2) /\ Gentle(c1, c2)
      /\ \A x \in SR : c2.sr[x] = IF bps[2] # None /\ x = "ibreaka1" THEN bps[2] ELSE c1.sr[x]
  BY <1>1, <1>2, GentleSet, GentleOnce
<1> HIDE DEF c2
<1>4. /\ IsCache(d) /\ Gentle(c2, d)
      /\ \A x \in SR : d.sr[x] = IF x = "ibreakenable" THEN Occupied ELSE c2.sr[x]
  BY <1>1, <1>3, GentleSet
<1>5. ArmedCache(c) = d
  BY DEF ArmedCache, c1, c2
<1> HIDE DEF d
<1>6. Gentle(c, d)
  <2>1. Gentle(c, c2)
    BY <1>2, <1>3, GentleTwice
  <2> QED BY <1>4, <2>1, GentleTwice
<1>7. BreaksIn(d)
  <2>1. d.sr["ibreakenable"] = Occupied
    BY <1>1, <1>4
  <2>2. (bps[1] # None => d.sr["ibreaka0"] = bps[1]) /\ (bps[2] # None => d.sr["ibreaka1"] = bps[2])
    BY <1>1, <1>2, <1>3, <1>4
  <2>3. \A i \in Occupied : i \in {1, 2} /\ bps[i] # None
    BY DEF Occupied, Slots
  <2> QED BY <1>1, <2>1, <2>2, <2>3 DEF BreaksIn
<1> QED BY <1>1, <1>2, <1>3, <1>4, <1>5, <1>6, <1>7 DEF IbreakRegs

\* After a write back what is cached is in the core, if it was or was marked before.
Flushed(t, u) ==
  /\ u.cache.dsr = {} /\ u.cache.dar = {} /\ u.cache.da = {}
  /\ \A r \in SR \ {"debugcause"} :
       (r \notin t.cache.dsr => t.hw.sr[r] = t.cache.sr[r]) => u.hw.sr[r] = u.cache.sr[r]

\* t is written back with breakpoints armed, and u is what that makes of it.
Flushes(t, u) ==
  /\ IsSession(u) /\ u.hw.run = t.hw.run /\ u.hw.irq = t.hw.irq
  /\ u.hw.sr["debugcause"] = t.hw.sr["debugcause"]
  /\ u.ctx # "cached" /\ (u.ctx = "both" => t.ctx \in {"cached", "both"})
  /\ BreaksIn(u.cache) /\ Flushed(t, u)

\* A session flushed on its way to a resume, its program intact.
Goes(t, u) == Flushes(t, u) /\ Sound(u)

\* Breakpoints are armed on the way back; of a program that is stored nothing is lost.
LEMMA ArmedSound ==
  ASSUME NEW t, IsSession(t)
  PROVE  /\ Flushes(t, Armed(t)) /\ \A x \in SR \ IbreakRegs : Armed(t).cache.sr[x] = t.cache.sr[x]
         /\ Stored(t) /\ GoesOn(t) => Goes(t, Armed(t))
<1> DEFINE d == ArmedCache(t.cache)
           v == WithCache(t, d)
<1>1. IsCache(t.cache)
  BY DEF IsSession
<1>2. IsCache(d) /\ Gentle(t.cache, d) /\ BreaksIn(d) /\ \A x \in SR \ IbreakRegs : d.sr[x] = t.cache.sr[x]
  BY <1>1, CacheArmed
<1>3. d.sr["pc"] = t.cache.sr["pc"]
  BY <1>2 DEF SR, IbreakRegs
<1>4. Armed(t) = WriteDirty(v)
  BY DEF Armed, ArmedCache, WithCache
<1> HIDE DEF d
<1>5. IsSession(v) /\ v.hw = t.hw /\ v.cache = d /\ v.ctx = t.ctx /\ v.app = t.app
  BY <1>2, CacheChanged
<1> HIDE DEF v
<1>6. Stored(t) /\ GoesOn(t) => Stored(v) /\ GoesOn(v)
  BY <1>2, <1>3, <1>5, GentleCovers DEF Stored, GoesOn
<1> DEFINE u == WriteDirty(v)
           g == Specials(t.hw, d)
<1>7. /\ IsSession(u) /\ u.app = v.app /\ u.ctx = AfterWrite(v) /\ u.hw.run = v.hw.run /\ u.hw.irq = v.hw.irq
      /\ u.hw.sr = g.sr /\ u.cache.sr = d.sr /\ u.cache.dsr = {} /\ u.cache.dar = {} /\ u.cache.da = {}
  BY <1>5, Written0
<1>8. Stored(t) /\ GoesOn(t) => Sound(u)
  BY <1>5, <1>6, WrittenSound
<1> HIDE DEF u
<1>9. u.ctx # "cached" /\ (u.ctx = "both" => t.ctx \in {"cached", "both"})
  BY <1>5, <1>7 DEF AfterWrite
<1>10. Armed(t) = u
  BY <1>4 DEF u
<1>11. \A r \in SR : g.sr[r] = IF r \in d.dsr THEN d.sr[r] ELSE t.hw.sr[r]
  BY <1>2, SpecialsWritten DEF IsSession
<1> HIDE DEF g
<1>12. u.hw.sr["debugcause"] = t.hw.sr["debugcause"]
  <2>1. "debugcause" \in SR /\ "debugcause" \notin d.dsr
    BY <1>2 DEF SR, IsCache
  <2> QED BY <1>7, <1>11, <2>1
<1>13. Flushed(t, u)
  BY <1>2, <1>7, <1>11 DEF Flushed, Gentle
<1>14. BreaksIn(u.cache)
  BY <1>2, <1>7 DEF BreaksIn
<1>15. Flushes(t, u)
  BY <1>5, <1>7, <1>9, <1>12, <1>13, <1>14 DEF Flushes
<1> QED BY <1>2, <1>7, <1>8, <1>10, <1>15 DEF Goes

\* What has been marked on the way there is written as well.
LEMMA FlushedGentle ==
  ASSUME NEW t, NEW v, NEW u, v.hw = t.hw, Gentle(t.cache, v.cache), Flushed(v, u)
  PROVE  Flushed(t, u)
BY DEF Flushed, Gentle

-------------------------------------------------------------------------------
(* Going straight.                                                          *)

\* Where the program is sent is in the cache before the write back.
LEMMA StraightSound ==
  ASSUME NEW t, IsSession(t), NEW cur \in BOOLEAN, NEW addr \in Int, AimsAt(t, cur, addr)
  PROVE  LET u == Straight(t, cur, addr)
         IN Goes(t, u) /\ \A x \in SR \ (IbreakRegs \cup {"pc"}) : u.cache.sr[x] = t.cache.sr[x]
<1>1. CASE ~Sent(cur, addr)
  <2>1. Straight(t, cur, addr) = Armed(t)
    BY <1>1 DEF Straight, Sent
  <2> QED BY <1>1, <2>1, ArmedSound DEF AimsAt
<1>2. CASE Sent(cur, addr)
  <2> DEFINE d == RegSet(t.cache, "pc", addr)
             v == WithCache(t, d)
             u == Armed(v)
  <2>1. Straight(t, cur, addr) = u
    BY <1>2 DEF Straight, Sent, Put, WithCache
  <2>2. IsCache(t.cache) /\ Fits("pc", addr) /\ "pc" \in SR
    BY DEF IsSession, Fits, SR, Numbers
  <2>3. IsCache(d) /\ Gentle(t.cache, d) /\ \A x \in SR : d.sr[x] = IF x = "pc" THEN addr ELSE t.cache.sr[x]
    BY <2>2, GentleSet
  <2> HIDE DEF d
  <2>4. IsSession(v) /\ v.hw = t.hw /\ v.cache = d /\ v.ctx = t.ctx /\ v.app = t.app
    BY <2>3, CacheChanged
  <2> HIDE DEF v
  <2>5. Stored(v) /\ GoesOn(v)
    BY <1>2, <2>2, <2>3, <2>4, GentleCovers DEF Stored, GoesOn, AimsAt
  <2>6. Goes(v, u) /\ \A x \in SR \ IbreakRegs : u.cache.sr[x] = v.cache.sr[x]
    BY <2>4, <2>5, ArmedSound
  <2> HIDE DEF u
  <2>7. Flushed(t, u)
    BY <2>3, <2>4, <2>6, FlushedGentle DEF Goes, Flushes
  <2>8. Goes(t, u)
    BY <2>4, <2>6, <2>7 DEF Goes, Flushes
  <2> QED BY <2>1, <2>3, <2>4, <2>6, <2>8
<1> QED BY <1>1, <1>2

\* The caller says where to.
LEMMA RedirectedAims ==
  ASSUME NEW t, IsSession(t), Sound(t), NEW cur \in BOOLEAN, NEW addr \in Int
  PROVE  LET u == Redirected(t, cur, addr)
         IN /\ IsSession(u) /\ AimsAt(u, cur, addr) /\ u.hw = t.hw /\ u.cache = t.cache
            /\ u.ctx = t.ctx \/ (t.ctx = "live" /\ u.ctx = "lost")
<1>1. CASE ~Sent(cur, addr)
  <2>1. Redirected(t, cur, addr) = t
    BY <1>1 DEF Redirected, Sent
  <2> QED BY <1>1, <2>1 DEF AimsAt, Sound
<1>2. CASE Sent(cur, addr)
  <2> DEFINE app == [t.app EXCEPT !.pc = addr]
             ctx == IF t.ctx = "live" THEN "lost" ELSE t.ctx
             u == Redirected(t, cur, addr)
  <2>1. u = [t EXCEPT !.app.pc = addr, !.ctx = ctx]
    BY <1>2 DEF Redirected, Sent
  <2>2. t = [hw |-> t.hw, cache |-> t.cache, ctx |-> t.ctx, app |-> t.app] /\ IsProgram(t.app)
    BY DEF IsSession
  <2>3. app = [ar |-> t.app.ar, pc |-> addr, eps |-> t.app.eps, wb |-> t.app.wb, cp |-> t.app.cp]
    BY <2>2 DEF IsProgram
  <2> HIDE DEF ctx, u
  <2>4. u = [hw |-> t.hw, cache |-> t.cache, ctx |-> ctx, app |-> app]
    <3>1. PICK u1 : u1 = [t EXCEPT !.app = app]
      OBVIOUS
    <3>2. u1 = [hw |-> t.hw, cache |-> t.cache, ctx |-> t.ctx, app |-> app]
      BY <2>2, <3>1
    <3>3. u = [u1 EXCEPT !.ctx = ctx]
      BY <2>1, <2>2, <3>1
    <3> QED BY <3>2, <3>3
  <2> HIDE DEF app
  <2>5. /\ u.hw = t.hw /\ u.cache = t.cache /\ u.ctx = ctx /\ u.app = app /\ app.pc = addr
        /\ app.ar = t.app.ar /\ app.eps = t.app.eps /\ app.wb = t.app.wb /\ app.cp = t.app.cp
    BY <2>3, <2>4
  <2>6. ctx = (IF t.ctx = "live" THEN "lost" ELSE t.ctx)
    BY DEF ctx
  <2>7. IsProgram(app)
    BY <2>3, <2>5 DEF IsProgram
  <2>8. IsSession(u)
    BY <2>4, <2>5, <2>6, <2>7 DEF IsSession
  <2>9. \A h, c : Covers(h, c, t.app) => Covers(h, c, app)
    BY <2>5 DEF Covers
  <2>10. Stored(u)
    BY <2>5, <2>6, <2>9 DEF Stored, Sound
  <2>11. AimsAt(u, cur, addr)
    BY <1>2, <2>5, <2>10 DEF AimsAt
  <2> QED BY <2>5, <2>6, <2>8, <2>11 DEF u
<1> QED BY <1>1, <1>2

\* A count is loaded, watchpoints are hidden, the cause is cleared.
Quiet(t, u) == IsSession(u) /\ u.hw = t.hw /\ u.ctx = t.ctx /\ u.app = t.app

\* Loading a count of one leaves the program its aim.
LEMMA LoadedAims ==
  ASSUME NEW t, IsSession(t), NEW cur, NEW addr, AimsAt(t, cur, addr)
  PROVE  /\ Quiet(t, Loaded(t)) /\ AimsAt(Loaded(t), cur, addr)
         /\ \A x \in SR \ {"icountlevel", "icount"} : Loaded(t).cache.sr[x] = t.cache.sr[x]
         /\ Loaded(t).cache.sr["icountlevel"] = 1 /\ Loaded(t).cache.sr["icount"] = 1
         /\ Gentle(t.cache, Loaded(t).cache)
<1> DEFINE c == RegSet(t.cache, "icountlevel", 1)
           d == RegSet(c, "icount", 1)
           u == WithCache(t, d)
<1>1. IsCache(t.cache) /\ Fits("icountlevel", 1) /\ Fits("icount", 1) /\ {"icountlevel", "icount", "pc"} \subseteq SR
  BY DEF IsSession, Fits, SR, Numbers
<1>2. IsCache(c) /\ Gentle(t.cache, c) /\ \A x \in SR : c.sr[x] = IF x = "icountlevel" THEN 1 ELSE t.cache.sr[x]
  BY <1>1, GentleSet
<1>3. Loaded(t) = WithCache(WithCache(t, c), d)
  <2>1. WithCache(t, c).cache = c
    BY <1>2, CacheChanged
  <2> HIDE DEF c
  <2> QED BY <2>1 DEF Loaded, Put, WithCache, c
<1> HIDE DEF c
<1>4. IsCache(d) /\ Gentle(c, d) /\ \A x \in SR : d.sr[x] = IF x = "icount" THEN 1 ELSE c.sr[x]
  BY <1>1, <1>2, GentleSet
<1> HIDE DEF d
<1>5. Gentle(t.cache, d)
  BY <1>2, <1>4, GentleTwice
<1>6. WithCache(WithCache(t, c), d) = u
  <2>1. t = [hw |-> t.hw, cache |-> t.cache, ctx |-> t.ctx, app |-> t.app]
    BY DEF IsSession
  <2> QED BY <2>1 DEF WithCache
<1>7. IsSession(u) /\ u.hw = t.hw /\ u.cache = d /\ u.ctx = t.ctx /\ u.app = t.app
  BY <1>4, CacheChanged
<1>8. AimsAt(u, cur, addr)
  BY <1>1, <1>2, <1>4, <1>5, GentleAims
<1> QED BY <1>1, <1>2, <1>3, <1>4, <1>5, <1>6, <1>7, <1>8 DEF Quiet

-------------------------------------------------------------------------------
(* do_step and prepare_resume.                                              *)

\* So does hiding watchpoints, which zeroes both DBREAKC and nothing else.
LEMMA HidesAims ==
  ASSUME NEW t, IsSession(t), NEW cur, NEW addr, AimsAt(t, cur, addr)
  PROVE  LET u == HidesWatchpoints(t)
         IN /\ Quiet(t, u) /\ AimsAt(u, cur, addr) /\ Gentle(t.cache, u.cache)
            /\ \A x \in SR : u.cache.sr[x] =
                 IF t.cache.sr["debugcause"] = "DB" /\ x \in {"dbreakc0", "dbreakc1"} THEN 0 ELSE t.cache.sr[x]
<1> DEFINE u == HidesWatchpoints(t)
<1>1. CASE t.cache.sr["debugcause"] # "DB"
  <2>1. HidesWatchpoints(t) = t
    BY <1>1 DEF HidesWatchpoints, CauseGet
  <2> QED BY <1>1, <2>1, GentleOnce DEF Quiet
<1>2. CASE t.cache.sr["debugcause"] = "DB"
  <2> DEFINE c == RegSet(t.cache, Dbreakc[1], 0)
             d == RegSet(c, Dbreakc[2], 0)
  <2>1. /\ Dbreakc[1] = "dbreakc0" /\ Dbreakc[2] = "dbreakc1" /\ {"dbreakc0", "dbreakc1", "pc"} \subseteq SR
        /\ Fits("dbreakc0", 0) /\ Fits("dbreakc1", 0) /\ IsCache(t.cache)
    BY DEF Dbreakc, SR, Fits, Numbers, IsSession
  <2>2. HidesWatchpoints(t) = WithCache(t, d)
    BY <1>2 DEF HidesWatchpoints, CauseGet, WithCache
  <2>3. IsCache(c) /\ Gentle(t.cache, c) /\ \A x \in SR : c.sr[x] = IF x = "dbreakc0" THEN 0 ELSE t.cache.sr[x]
    BY <2>1, GentleSet
  <2> HIDE DEF c
  <2>4. IsCache(d) /\ Gentle(c, d) /\ \A x \in SR : d.sr[x] = IF x = "dbreakc1" THEN 0 ELSE c.sr[x]
    BY <2>1, <2>3, GentleSet
  <2> HIDE DEF d
  <2>5. Gentle(t.cache, d) /\ d.sr["pc"] = t.cache.sr["pc"]
    BY <2>1, <2>3, <2>4, GentleTwice
  <2>6. Quiet(t, WithCache(t, d)) /\ AimsAt(WithCache(t, d), cur, addr) /\ WithCache(t, d).cache = d
    BY <2>4, <2>5, GentleAims, CacheChanged DEF Quiet
  <2> QED BY <1>2, <2>2, <2>3, <2>4, <2>5, <2>6
<1> QED BY <1>1, <1>2

\* So does forgetting the cause.
LEMMA ClearAims ==
  ASSUME NEW t, IsSession(t), NEW cur, NEW addr, AimsAt(t, cur, addr)
  PROVE  LET u == WithCache(t, CauseClear(t.cache))
         IN /\ Quiet(t, u) /\ AimsAt(u, cur, addr) /\ Gentle(t.cache, u.cache)
            /\ \A x \in SR \ {"debugcause"} : u.cache.sr[x] = t.cache.sr[x]
<1> DEFINE d == CauseClear(t.cache)
<1>1. IsCache(d) /\ Gentle(t.cache, d) /\ \A x \in SR : d.sr[x] = IF x = "debugcause" THEN "none" ELSE t.cache.sr[x]
  BY GentleClear DEF IsSession
<1>2. "pc" \in SR
  BY DEF SR
<1> HIDE DEF d
<1>3. d.sr["pc"] = t.cache.sr["pc"]
  BY <1>1, <1>2
<1>4. Quiet(t, WithCache(t, d)) /\ AimsAt(WithCache(t, d), cur, addr) /\ WithCache(t, d).cache = d
  BY <1>1, <1>3, GentleAims, CacheChanged DEF Quiet
<1> QED BY <1>1, <1>4 DEF d

\* The frames of steps in progress.
FrameSet == [current : BOOLEAN, address : Int, cause : AllCauses, dbreakc : [Slots -> Int],
             due : Int, first : Int]

\* A step on its way: its frame, and what has been written back.
Enters(t, u, f, cur, addr) ==
  /\ Goes(t, u)
  /\ f \in FrameSet /\ f.current = cur /\ f.address = addr /\ f.cause = t.cache.sr["debugcause"]
  /\ f.due = 1 /\ f.first = ran
  /\ \A i \in Slots : f.dbreakc[i] = t.cache.sr[Dbreakc[i]]
  /\ \A i \in Slots : u.cache.sr[Dbreakc[i]] = IF f.cause = "DB" THEN 0 ELSE f.dbreakc[i]
  /\ u.cache.sr["icountlevel"] = 1 /\ u.cache.sr["icount"] = 1

\* do_step goes, from any cause, and its frame remembers what it hid.
LEMMA EnteredSound ==
  ASSUME NEW t, IsSession(t), NEW cur \in BOOLEAN, NEW addr \in Int, AimsAt(t, cur, addr), ran \in Int, NEW hb
  PROVE  LET e == Entered(t, cur, addr, hb) IN Enters(t, e.t, e.frame, cur, addr)
<1> DEFINE hidden == HidesWatchpoints(t)
           cause == CauseGet(t.cache)
           clear == cause = "DB" \/ (cause = "BI" /\ ~hb)
           cleared == IF clear THEN WithCache(hidden, CauseClear(hidden.cache)) ELSE hidden
           v == Loaded(cleared)
           u == Straight(v, cur, addr)
           e == Entered(t, cur, addr, hb)
           f == [current |-> cur, address |-> addr, cause |-> cause,
                 dbreakc |-> [i \in Slots |-> t.cache.sr[Dbreakc[i]]], due |-> 1, first |-> ran]
<1>1. e = [t |-> u, frame |-> f]
  BY DEF Entered, Frame, WithCache
<1>2. /\ Quiet(t, hidden) /\ AimsAt(hidden, cur, addr) /\ Gentle(t.cache, hidden.cache)
      /\ \A x \in SR : hidden.cache.sr[x] =
           IF cause = "DB" /\ x \in {"dbreakc0", "dbreakc1"} THEN 0 ELSE t.cache.sr[x]
  BY HidesAims DEF CauseGet
<1> HIDE DEF hidden
<1>3. /\ Quiet(t, cleared) /\ AimsAt(cleared, cur, addr) /\ Gentle(t.cache, cleared.cache)
      /\ \A x \in SR \ {"debugcause"} : cleared.cache.sr[x] = hidden.cache.sr[x]
  <2>1. CASE clear
    <3> DEFINE d == WithCache(hidden, CauseClear(hidden.cache))
    <3>1. /\ Quiet(hidden, d) /\ AimsAt(d, cur, addr) /\ Gentle(hidden.cache, d.cache)
          /\ \A x \in SR \ {"debugcause"} : d.cache.sr[x] = hidden.cache.sr[x]
      BY <1>2, ClearAims DEF Quiet
    <3>2. cleared = d
      BY <2>1
    <3> HIDE DEF d, cleared
    <3> QED BY <1>2, <3>1, <3>2, GentleTwice DEF Quiet
  <2>2. CASE ~clear
    <3>1. cleared = hidden
      BY <2>2
    <3> QED BY <1>2, <3>1
  <2> QED BY <2>1, <2>2
<1> HIDE DEF cleared
<1>4. /\ Quiet(cleared, v) /\ AimsAt(v, cur, addr) /\ Gentle(cleared.cache, v.cache)
      /\ \A x \in SR \ {"icountlevel", "icount"} : v.cache.sr[x] = cleared.cache.sr[x]
      /\ v.cache.sr["icountlevel"] = 1 /\ v.cache.sr["icount"] = 1
  BY <1>3, LoadedAims DEF Quiet
<1> HIDE DEF v
<1>5. Goes(v, u) /\ \A x \in SR \ (IbreakRegs \cup {"pc"}) : u.cache.sr[x] = v.cache.sr[x]
  BY <1>3, <1>4, StraightSound DEF Quiet
<1> HIDE DEF u
<1>6. v.hw = t.hw /\ v.ctx = t.ctx /\ Gentle(t.cache, v.cache)
  BY <1>3, <1>4, GentleTwice DEF Quiet
<1>7. Flushed(t, u)
  BY <1>5, <1>6, FlushedGentle DEF Goes, Flushes
<1>8. Goes(t, u)
  BY <1>5, <1>6, <1>7 DEF Goes, Flushes
<1>9. /\ Dbreakc[1] = "dbreakc0" /\ Dbreakc[2] = "dbreakc1" /\ Slots = {1, 2}
      /\ {"dbreakc0", "dbreakc1"} \subseteq SR \ (IbreakRegs \cup {"pc", "icountlevel", "icount", "debugcause"})
      /\ {"icountlevel", "icount"} \subseteq SR \ (IbreakRegs \cup {"pc"})
  BY DEF Dbreakc, Slots, SR, IbreakRegs
<1>10. \A i \in Slots : u.cache.sr[Dbreakc[i]] = IF cause = "DB" THEN 0 ELSE t.cache.sr[Dbreakc[i]]
  BY <1>2, <1>3, <1>4, <1>5, <1>9
<1>11. u.cache.sr["icountlevel"] = 1 /\ u.cache.sr["icount"] = 1
  BY <1>4, <1>5, <1>9
<1>12. t.cache.sr["dbreakc0"] \in Int /\ t.cache.sr["dbreakc1"] \in Int /\ cause \in AllCauses
       /\ cause = t.cache.sr["debugcause"]
  BY DEF IsSession, IsCache, IsRegs, Numbers, CauseGet
<1> HIDE DEF cause
<1>13. f \in FrameSet
  BY <1>9, <1>12 DEF FrameSet
<1>14. f.current = cur /\ f.address = addr /\ f.cause = cause /\ f.due = 1 /\ f.first = ran
       /\ \A i \in Slots : f.dbreakc[i] = t.cache.sr[Dbreakc[i]]
  OBVIOUS
<1> HIDE DEF f
<1>15. Enters(t, u, f, cur, addr)
  BY <1>8, <1>10, <1>11, <1>12, <1>13, <1>14 DEF Enters
<1>16. e.t = u /\ e.frame = f
  BY <1>1
<1> QED BY <1>15, <1>16

\* A BREAK is passed.
LEMMA PassedSound ==
  ASSUME NEW t, IsSession(t), Stored(t)
  PROVE  LET u == Passed(t)
         IN /\ IsSession(u) /\ Sound(u) /\ u.hw = t.hw /\ Gentle(t.cache, u.cache)
            /\ u.ctx = (IF t.ctx \in {"cached", "both"} THEN "cached" ELSE "lost")
            /\ \A x \in SR \ {"pc", "debugcause"} : u.cache.sr[x] = t.cache.sr[x]
<1> DEFINE pc == Next3(t.cache.sr["pc"])
           c == CauseClear(t.cache)
           d == RegSet(c, "pc", pc)
           app == [t.app EXCEPT !.pc = pc]
           ctx == IF t.ctx \in {"cached", "both"} THEN "cached" ELSE "lost"
           u == Passed(t)
<1>1. u = [t EXCEPT !.cache = d, !.app.pc = pc, !.ctx = ctx]
  BY DEF Passed
<1>2. IsCache(t.cache) /\ t.cache.sr["pc"] \in Int
  BY DEF IsSession, IsCache, IsRegs, Numbers
<1>3. pc \in Int
  BY <1>2, NextIs
<1> HIDE DEF pc
<1>4. Fits("pc", pc) /\ "pc" \in SR
  BY <1>3 DEF Fits, SR, Numbers
<1>5. IsCache(c) /\ Gentle(t.cache, c) /\ \A x \in SR : c.sr[x] = IF x = "debugcause" THEN "none" ELSE t.cache.sr[x]
  BY <1>2, GentleClear
<1> HIDE DEF c
<1>6. IsCache(d) /\ Gentle(c, d) /\ \A x \in SR : d.sr[x] = IF x = "pc" THEN pc ELSE c.sr[x]
  BY <1>4, <1>5, GentleSet
<1>7. t = [hw |-> t.hw, cache |-> t.cache, ctx |-> t.ctx, app |-> t.app] /\ IsProgram(t.app)
  BY DEF IsSession
<1>8. app = [ar |-> t.app.ar, pc |-> pc, eps |-> t.app.eps, wb |-> t.app.wb, cp |-> t.app.cp]
  BY <1>7 DEF IsProgram
<1> HIDE DEF d, ctx, u
<1>9. u = [hw |-> t.hw, cache |-> d, ctx |-> ctx, app |-> app]
  <2>1. PICK u1 : u1 = [t EXCEPT !.cache = d]
    OBVIOUS
  <2>2. u1 = [hw |-> t.hw, cache |-> d, ctx |-> t.ctx, app |-> t.app]
    BY <1>7, <2>1
  <2>3. PICK u2 : u2 = [u1 EXCEPT !.app = app]
    OBVIOUS
  <2>4. u2 = [hw |-> t.hw, cache |-> d, ctx |-> t.ctx, app |-> app]
    BY <2>2, <2>3
  <2>5. u = [u2 EXCEPT !.ctx = ctx]
    BY <1>1, <1>7, <2>1, <2>3
  <2> QED BY <2>4, <2>5
<1> HIDE DEF app
<1>10. u.hw = t.hw /\ u.cache = d /\ u.ctx = ctx /\ u.app = app /\ app.pc = pc
       /\ app.ar = t.app.ar /\ app.eps = t.app.eps /\ app.wb = t.app.wb /\ app.cp = t.app.cp
  BY <1>8, <1>9
<1>11. IsSession(u)
  BY <1>6, <1>8, <1>9, <1>10 DEF IsSession, IsProgram, ctx
<1>12. Gentle(t.cache, d)
  BY <1>5, <1>6, GentleTwice
<1>13. \A h, b : Covers(h, b, t.app) => Covers(h, b, app)
  BY <1>10 DEF Covers
<1>14. Stored(u)
  BY <1>10, <1>12, <1>13, GentleCovers DEF Stored, ctx
<1>15. Sound(u)
  BY <1>4, <1>6, <1>10, <1>14 DEF Sound, GoesOn, ctx
<1> QED BY <1>5, <1>6, <1>10, <1>11, <1>12, <1>15 DEF u, ctx

\* What prepare_resume does: it writes back and starts a step, or it writes back.
Prepares(t, p, cur, addr) ==
  \/ /\ p.frames = <<>> /\ Goes(t, p.t)
     /\ \A x \in {"dbreakc0", "dbreakc1", "icountlevel", "icount"} : p.t.cache.sr[x] = t.cache.sr[x]
  \/ /\ Len(p.frames) = 1 /\ p.frames = <<p.frames[1]>> /\ Enters(t, p.t, p.frames[1], cur, addr)
     /\ ~Sent(cur, addr) /\ t.cache.sr["debugcause"] \in {"DB", "BI"}

\* prepare_resume goes, straight or through a step.
LEMMA PrepareSound ==
  ASSUME NEW t, IsSession(t), NEW cur \in BOOLEAN, NEW addr \in Int, AimsAt(t, cur, addr), ran \in Int, NEW hb
  PROVE  Prepares(t, Prepare(t, cur, addr, hb), cur, addr)
<1> DEFINE p == Prepare(t, cur, addr, hb)
<1>0. {"dbreakc0", "dbreakc1", "icountlevel", "icount"} \subseteq SR \ (IbreakRegs \cup {"pc", "debugcause"})
  BY DEF SR, IbreakRegs
<1> SUFFICES Prepares(t, p, cur, addr)
  OBVIOUS
<1>1. CASE Sent(cur, addr) \/ CauseGet(t.cache) \notin {"DB", "BI"}
  <2> DEFINE u == Straight(t, cur, addr)
  <2>1. p = [t |-> u, frames |-> <<>>]
    BY <1>1 DEF Prepare, Sent
  <2>2. Goes(t, u) /\ \A x \in SR \ (IbreakRegs \cup {"pc"}) : u.cache.sr[x] = t.cache.sr[x]
    BY StraightSound
  <2> HIDE DEF u, p
  <2>3. p.t = u /\ p.frames = <<>>
    BY <2>1
  <2> QED BY <1>0, <2>2, <2>3 DEF Prepares
<1>2. CASE ~Sent(cur, addr) /\ CauseGet(t.cache) \in {"DB", "BI"} /\ Passes(t, hb)
  <2> DEFINE v == Passed(t)
             u == Armed(v)
  <2>1. p = [t |-> u, frames |-> <<>>]
    BY <1>2 DEF Prepare, Sent
  <2>2. Stored(t) /\ GoesOn(t)
    BY <1>2 DEF AimsAt
  <2>3. /\ IsSession(v) /\ Sound(v) /\ v.hw = t.hw /\ Gentle(t.cache, v.cache)
        /\ v.ctx = (IF t.ctx \in {"cached", "both"} THEN "cached" ELSE "lost")
        /\ \A x \in SR \ {"pc", "debugcause"} : v.cache.sr[x] = t.cache.sr[x]
    BY <2>2, PassedSound
  <2> HIDE DEF v
  <2>4. Goes(v, u) /\ \A x \in SR \ IbreakRegs : u.cache.sr[x] = v.cache.sr[x]
    BY <2>3, ArmedSound DEF Sound
  <2> HIDE DEF u, p
  <2>5. Flushed(t, u)
    BY <2>3, <2>4, FlushedGentle DEF Goes, Flushes
  <2>6. Goes(t, u)
    BY <2>3, <2>4, <2>5 DEF Goes, Flushes
  <2>7. p.t = u /\ p.frames = <<>>
    BY <2>1
  <2> QED BY <1>0, <2>3, <2>4, <2>6, <2>7 DEF Prepares
<1>3. CASE ~Sent(cur, addr) /\ CauseGet(t.cache) \in {"DB", "BI"} /\ ~Passes(t, hb)
  <2> DEFINE e == Entered(t, cur, addr, hb)
  <2>1. p = [t |-> e.t, frames |-> <<e.frame>>]
    BY <1>3 DEF Prepare, Sent
  <2>2. Enters(t, e.t, e.frame, cur, addr)
    BY EnteredSound
  <2> HIDE DEF e, p
  <2>3. p.t = e.t /\ p.frames = <<e.frame>>
    BY <2>1
  <2> QED BY <1>3, <2>2, <2>3 DEF Prepares, CauseGet
<1> QED BY <1>1, <1>2, <1>3

-------------------------------------------------------------------------------
(* The invariant.                                                           *)

\* The registers watchpoints are in.
DbRegs == {"dbreakc0", "dbreakc1"}

\* What DBREAKC of a slot should hold.
Watch(i) == IF wps[i] = None THEN 0 ELSE wps[i]
\* What is not dirty is the same in core and cache.
Agree(h, c, regs) == \A r \in regs : r \notin c.dsr => h.sr[r] = c.sr[r]
\* A halted core, outside a call.
Rests(t) ==
  /\ Sound(t) /\ t.ctx # "both"
  /\ t.ctx = "cached" => Agree(t.hw, t.cache, SR \ {"debugcause", "cpenable"})
\* No step is on its way: watchpoints are in the cache, no count is loaded.
Watching(c) == \A i \in Slots : c.sr[Dbreakc[i]] = Watch(i)

\* Nothing of a step is left in the cache.
Steady(c) == c.sr["icountlevel"] = 0 /\ Watching(c)

\* Types, a cache that never holds a dirty register file outside an action, DBREAKC
\* equal in core and cache unless dirty, and no request pending at a halted core.
DataInv ==
  /\ IsSession(s) /\ Tidy(s.cache) /\ ran \in Int /\ blind \in BOOLEAN
  /\ bps \in [Slots -> Addresses \cup {None}] /\ wps \in [Slots -> {None, 1, 2}]
  /\ Agree(s.hw, s.cache, DbRegs)
  /\ Halted => ~s.hw.irq

\* A core that rests outside a call is sound; code of the host runs on a lost program.
RestInv ==
  /\ Halted /\ host.at # "calling" => Rests(s)
  /\ s.hw.run = "stub" /\ host.at # "calling" => s.ctx = "lost"

\* Unless a step or a fetch went blind, watchpoints are armed whenever no step is on.
SteadyInv ==
  ~blind /\ host.at # "stepping" => Steady(s.cache) /\ s.hw.sr["icountlevel"] = 0

\* A step in progress hides watchpoints.
Hidden(fs) == \E j \in DOMAIN fs : fs[j].cause = "DB"

\* At most one does, and then both DBREAKC are zero.
Hides(c, fs) ==
  /\ \A j, k \in DOMAIN fs : fs[j].cause = "DB" /\ fs[k].cause = "DB" => j = k
  /\ Hidden(fs) => \A i \in Slots : c.sr[Dbreakc[i]] = 0

\* What is hidden is what the slots say; if nothing is, the slots are armed.
Returns(c, fs) ==
  /\ \A j \in DOMAIN fs : fs[j].cause = "DB" => \A i \in Slots : fs[j].dbreakc[i] = Watch(i)
  /\ ~Hidden(fs) => Watching(c)

\* A step in progress: frames to return to, all written back, a core that stops on a
\* watchpoint has one armed.
StepInv ==
  host.at = "stepping" =>
    /\ host.frames \in Seq(FrameSet) /\ host.frames # <<>> /\ host.resumes \in BOOLEAN
    /\ s.hw.run # "stub" /\ s.cache.dsr = {}
    /\ Halted /\ s.hw.sr["debugcause"] = "DB" => \E i \in Slots : s.hw.sr[Dbreakc[i]] # 0
    /\ Hides(s.cache, host.frames)
    /\ ~blind => Returns(s.cache, host.frames)

\* An algorithm in progress: the backup of the cache has the watchpoints.
WaitInv ==
  host.at = "waiting" =>
    /\ host = [at |-> "waiting", backup |-> host.backup, regs |-> host.regs,
               known |-> host.known, forced |-> host.forced]
    /\ IsCache(host.backup) /\ s.ctx = "lost" /\ s.hw.run # "app"
    /\ ~blind => Steady(host.backup)

\* A function in progress: what was saved of the core is sound, and its special
\* registers are as saved but for those the call sets.
CallInv ==
  host.at = "calling" =>
    /\ IsCore(host.before) /\ Rests([s EXCEPT !.hw = host.before])
    /\ s.hw.run # "app" /\ ~s.hw.irq
    /\ \A r \in SR \ {"pc", "eps", "debugcause"} : s.hw.sr[r] = host.before.sr[r]

\* A step with a count of its own: the core has it, or has stopped on it.
Counted(f) ==
  f.due # None =>
    IF Halted /\ s.hw.sr["debugcause"] = "IC" THEN ran - f.first = f.due
    ELSE s.hw.sr["icountlevel"] = 1 /\ s.hw.sr["icount"] = 1 /\ ran - f.first = f.due - 1

\* The count is the same in core and cache unless dirty; of the steps in progress the one
\* on top alone may have it.
CountInv ==
  ~blind =>
    /\ host.at # "stepping" => Agree(s.hw, s.cache, {"icount"})
    /\ host.at = "stepping" =>
         /\ Counted(Head(host.frames))
         /\ \A j \in DOMAIN host.frames : j # 1 => host.frames[j].due = None

\* The inductive invariant of Xtensa.
SessionInv ==
  /\ DataInv /\ RestInv /\ SteadyInv /\ StepInv /\ WaitInv /\ CallInv /\ CountInv

\* What ProgramIntact says of a step.
Intact == Released /\ s'.ctx # "lost" => ProgramState(s'.hw) = s'.app

\* What ArmedAtResume says of a step.
Rearmed ==
  Released /\ host' = Idle /\ s'.ctx = "both" /\ ~blind' =>
         LET h == s'.hw
         IN /\ h.sr["ibreakenable"] = Occupied
            /\ \A i \in Occupied : h.sr[Ibreaka[i]] = bps[i]
            /\ \A i \in Slots : h.sr[Dbreakc[i]] = IF wps[i] = None THEN 0 ELSE wps[i]
            /\ h.sr["icountlevel"] = 0

\* What an RFDO can start, or a stop end.
Runs == {"halted", "app", "stub"}
\* Whether a program is kept does not depend on the core running.
SameProgram(t, u) ==
  /\ u.cache = t.cache /\ u.ctx = t.ctx /\ u.app = t.app
  /\ u.hw.sr = t.hw.sr /\ u.hw.ar = t.hw.ar

\* Nor on why it stopped.
SameButCause(t, u) ==
  /\ u.cache = t.cache /\ u.ctx = t.ctx /\ u.app = t.app /\ u.hw.ar = t.hw.ar
  /\ \A r \in SR \ {"debugcause"} : u.hw.sr[r] = t.hw.sr[r]

\* A session that differs in the cause of the stop alone is as sound.
LEMMA SameSoundBut ==
  ASSUME NEW t, NEW u, SameButCause(t, u)
  PROVE  (Sound(t) => Sound(u)) /\ (Rests(t) => Rests(u))
<1>0. {"pc", "eps", "windowbase", "cpenable"} \subseteq SR \ {"debugcause"}
  BY DEF SR
<1>1. ProgramState(u.hw) = ProgramState(t.hw)
  BY <1>0 DEF SameButCause, ProgramState
<1>2. Covers(t.hw, t.cache, t.app) <=> Covers(u.hw, u.cache, u.app)
  BY <1>0 DEF SameButCause, Covers
<1>3. Sound(t) => Sound(u)
  BY <1>1, <1>2 DEF Sound, Stored, GoesOn, SameButCause
<1> QED BY <1>3 DEF Rests, Agree, SameButCause

\* A session that differs in running alone is as sound.
LEMMA SameSound ==
  ASSUME NEW t, NEW u, SameProgram(t, u)
  PROVE  (Sound(t) => Sound(u)) /\ (Rests(t) => Rests(u))
<1>1. SameButCause(t, u)
  BY DEF SameProgram, SameButCause
<1> QED BY <1>1, SameSoundBut

\* A session with another core.
LEMMA HwSet ==
  ASSUME NEW t, IsSession(t), NEW h, IsCore(h)
  PROVE  LET u == [t EXCEPT !.hw = h]
         IN IsSession(u) /\ u.hw = h /\ u.cache = t.cache /\ u.ctx = t.ctx /\ u.app = t.app
<1> DEFINE u == [t EXCEPT !.hw = h]
<1>1. u = [hw |-> h, cache |-> t.cache, ctx |-> t.ctx, app |-> t.app]
  BY DEF IsSession
<1> HIDE DEF u
<1>2. IsSession(u)
  BY <1>1 DEF IsSession
<1> QED BY <1>1, <1>2 DEF u

\* A session whose program is kept elsewhere.
LEMMA CtxSet ==
  ASSUME NEW t, IsSession(t), NEW x \in {"live", "cached", "both", "lost"}
  PROVE  LET u == [t EXCEPT !.ctx = x]
         IN IsSession(u) /\ u.hw = t.hw /\ u.cache = t.cache /\ u.ctx = x /\ u.app = t.app
<1> DEFINE u == [t EXCEPT !.ctx = x]
<1>1. u = [hw |-> t.hw, cache |-> t.cache, ctx |-> x, app |-> t.app]
  BY DEF IsSession
<1> HIDE DEF u
<1>2. IsSession(u)
  BY <1>1 DEF IsSession
<1> QED BY <1>1, <1>2 DEF u

\* A core set to run, or asked to stop.
LEMMA RunSet ==
  ASSUME NEW h, IsCore(h), NEW what \in Runs
  PROVE  LET g == [h EXCEPT !.run = what]
         IN IsCore(g) /\ g.sr = h.sr /\ g.ar = h.ar /\ g.vecbase = h.vecbase /\ g.run = what /\ g.irq = h.irq
<1> DEFINE g == [h EXCEPT !.run = what]
<1>1. g = [ar |-> h.ar, sr |-> h.sr, vecbase |-> h.vecbase, run |-> what, irq |-> h.irq]
  BY DEF IsCore
<1> HIDE DEF g
<1>2. IsCore(g)
  BY <1>1 DEF IsCore, Runs
<1> QED BY <1>1, <1>2 DEF g

\* A core with a request set or dropped.
LEMMA IrqSet ==
  ASSUME NEW h, IsCore(h), NEW irq \in BOOLEAN
  PROVE  LET g == [h EXCEPT !.irq = irq]
         IN IsCore(g) /\ g.sr = h.sr /\ g.ar = h.ar /\ g.vecbase = h.vecbase /\ g.run = h.run /\ g.irq = irq
<1> DEFINE g == [h EXCEPT !.irq = irq]
<1>1. g = [ar |-> h.ar, sr |-> h.sr, vecbase |-> h.vecbase, run |-> h.run, irq |-> irq]
  BY DEF IsCore
<1> HIDE DEF g
<1>2. IsCore(g)
  BY <1>1 DEF IsCore
<1> QED BY <1>1, <1>2 DEF g

\* RFDO starts the core and changes nothing.
LEMMA Released0 ==
  ASSUME NEW t, IsSession(t), NEW what \in Runs
  PROVE  LET u == Rfdo(t, what)
         IN /\ IsSession(u) /\ SameProgram(t, u) /\ u.hw.vecbase = t.hw.vecbase
            /\ u.hw.run = what /\ u.hw.irq = t.hw.irq
<1> DEFINE g == [t.hw EXCEPT !.run = what]
           v == [t EXCEPT !.hw = g]
<1>1. IsCore(t.hw)
  BY DEF IsSession
<1>2. IsCore(g) /\ g.sr = t.hw.sr /\ g.ar = t.hw.ar /\ g.vecbase = t.hw.vecbase /\ g.run = what /\ g.irq = t.hw.irq
  BY <1>1, RunSet
<1>3. Rfdo(t, what) = v
  BY DEF Rfdo
<1> HIDE DEF g
<1>4. IsSession(v) /\ v.hw = g /\ v.cache = t.cache /\ v.ctx = t.ctx /\ v.app = t.app
  BY <1>2, HwSet
<1> QED BY <1>2, <1>3, <1>4 DEF SameProgram

\* A core that stops.
AtRest(h, g, cause) ==
  /\ IsCore(g) /\ g.ar = h.ar /\ g.vecbase = h.vecbase /\ g.run = "halted" /\ g.irq = FALSE
  /\ \A r \in SR \ {"debugcause", "icount"} : g.sr[r] = h.sr[r]
  /\ g.sr["debugcause"] = cause
  /\ cause # "IC" => g.sr["icount"] = h.sr["icount"]

\* A stop sets the cause, clears the request, and the count if it ran out.
LEMMA Stopped0 ==
  ASSUME NEW h, IsCore(h), NEW cause \in AllCauses
  PROVE  AtRest(h, Stop(h, cause), cause)
<1> DEFINE g == Stop(h, cause)
           n == IF cause = "IC" THEN 0 ELSE h.sr["icount"]
           f1 == With(h.sr, "debugcause", cause)
           f2 == With(f1, "icount", n)
<1>1. Fits("debugcause", cause) /\ Fits("icount", n) /\ {"debugcause", "icount"} \subseteq SR
  BY DEF Fits, SR, Numbers
<1>2. IsRegs(f1) /\ \A x \in SR : f1[x] = IF x = "debugcause" THEN cause ELSE h.sr[x]
  BY <1>1, SpecialSet DEF IsCore
<1>3. IsRegs(f2) /\ \A x \in SR : f2[x] = IF x = "icount" THEN n ELSE f1[x]
  BY <1>1, <1>2, SpecialSet
<1>4. g = [ar |-> h.ar, sr |-> f2, vecbase |-> h.vecbase, run |-> "halted", irq |-> FALSE]
  <2>1. PICK h1 : h1 = [h EXCEPT !.run = "halted"]
    OBVIOUS
  <2>2. PICK h2 : h2 = [h1 EXCEPT !.irq = FALSE]
    OBVIOUS
  <2>3. PICK h3 : h3 = [h2 EXCEPT !.sr = f1]
    OBVIOUS
  <2>4. h1 = [ar |-> h.ar, sr |-> h.sr, vecbase |-> h.vecbase, run |-> "halted", irq |-> h.irq]
    BY <2>1 DEF IsCore
  <2>5. h2 = [ar |-> h.ar, sr |-> h.sr, vecbase |-> h.vecbase, run |-> "halted", irq |-> FALSE]
    BY <2>2, <2>4
  <2>6. h3 = [ar |-> h.ar, sr |-> f1, vecbase |-> h.vecbase, run |-> "halted", irq |-> FALSE]
    BY <2>3, <2>5
  <2>7. g = [h3 EXCEPT !.sr = [h3.sr EXCEPT !["icount"] = IF cause = "IC" THEN 0 ELSE @]]
    BY <2>1, <2>2, <2>3, <2>5 DEF Stop, With
  <2>8. f1["icount"] = h.sr["icount"]
    BY <1>1, <1>2
  <2>9. g = [h3 EXCEPT !.sr = f2]
    BY <2>6, <2>7, <2>8 DEF With
  <2> HIDE DEF g, f1, f2, n
  <2> QED BY <2>6, <2>9
<1> HIDE DEF g, f1, f2
<1>5. IsCore(g)
  BY <1>3, <1>4 DEF IsCore
<1> QED BY <1>1, <1>2, <1>3, <1>4, <1>5 DEF g, AtRest

\* A program that stops is sound: what it stopped with is in the core.
LEMMA Stops0 ==
  ASSUME NEW t, IsSession(t), NEW h, IsCore(h), NEW cause \in AllCauses
  PROVE  LET u == Stops(t, h, cause)
         IN IsSession(u) /\ u.hw = Stop(h, cause) /\ u.cache = t.cache /\ Rests(u) /\ u.ctx = "live"
<1> DEFINE g == Stop(h, cause)
           u == Stops(t, h, cause)
           p == ProgramState(g)
<1>1. IsCore(g)
  BY Stopped0 DEF AtRest
<1>2. u = [hw |-> g, cache |-> t.cache, ctx |-> "live", app |-> p]
  <2>0. u = [t EXCEPT !.hw = g, !.ctx = "live", !.app = p]
    BY DEF Stops
  <2> HIDE DEF g, p, u
  <2>1. PICK t1 : t1 = [t EXCEPT !.hw = g]
    OBVIOUS
  <2>2. PICK t2 : t2 = [t1 EXCEPT !.ctx = "live"]
    OBVIOUS
  <2>3. t1 = [hw |-> g, cache |-> t.cache, ctx |-> t.ctx, app |-> t.app]
    BY <2>1 DEF IsSession
  <2>4. t2 = [hw |-> g, cache |-> t.cache, ctx |-> "live", app |-> t.app]
    BY <2>2, <2>3
  <2>5. u = [t2 EXCEPT !.app = p]
    BY <2>0, <2>1, <2>2
  <2> QED BY <2>4, <2>5
<1>3. IsProgram(p)
  BY DEF IsProgram, ProgramState
<1> HIDE DEF g, u
<1>4. IsSession(u)
  BY <1>1, <1>2, <1>3 DEF IsSession
<1>5. Rests(u)
  BY <1>2 DEF Rests, Sound, Stored, GoesOn
<1> QED BY <1>2, <1>4, <1>5 DEF g, u

-------------------------------------------------------------------------------
(* Steps that leave the registers alone.                                    *)

\* What every step is to show.
Held == SessionInv' /\ Intact /\ Rearmed

\* Outside a step nothing but a write back or a fetch touches the count.
LEMMA CountStays ==
  ASSUME SessionInv, ~blind' => ~blind, host.at # "stepping", host'.at # "stepping",
         Agree(s.hw, s.cache, {"icount"}) => Agree(s'.hw, s'.cache, {"icount"})
  PROVE  CountInv'
BY DEF SessionInv, CountInv, Agree

\* What depends on the session depends on its registers alone.
LEMMA Untouched ==
  ASSUME SessionInv, s' = s, UNCHANGED <<wps, blind, ran>>,
         bps' \in [Slots -> Addresses \cup {None}],
         host' = host \/ (host'.at \in {"idle", "halting"} /\ host.at \in {"idle", "halting", "waiting"})
  PROVE  Held
<1>1. DataInv'
  BY DEF SessionInv, DataInv, Halted, Agree
<1>2. RestInv'
  BY DEF SessionInv, RestInv, Halted
<1>3. (Steady(s.cache))' <=> Steady(s.cache)
  BY DEF Steady, Watching, Watch
<1>4. SteadyInv'
  BY <1>3 DEF SessionInv, SteadyInv
<1>5. StepInv' /\ WaitInv' /\ CallInv'
  <2>1. CASE host' = host
    BY <2>1 DEF SessionInv, StepInv, WaitInv, CallInv, Halted, Hides, Hidden, Returns, Watching, Watch, Steady, Rests, Agree, Sound, Stored, GoesOn
  <2>2. CASE host'.at \in {"idle", "halting"}
    BY <2>2 DEF StepInv, WaitInv, CallInv
  <2> QED BY <2>1, <2>2
<1>6. Intact /\ Rearmed
  BY DEF Intact, Rearmed, Released
<1>7. CountInv'
  <2>1. CASE host' = host
    BY <2>1 DEF SessionInv, CountInv, Counted, Agree, Halted
  <2>2. CASE host'.at \in {"idle", "halting"} /\ host.at \in {"idle", "halting", "waiting"}
    BY <2>2, CountStays
  <2> QED BY <2>1, <2>2
<1> QED BY <1>1, <1>2, <1>4, <1>5, <1>6, <1>7 DEF Held, SessionInv

\* An idle host does nothing.
LEMMA IdleIs == Idle.at = "idle"
BY DEF Idle

\* A step that times out leaves the session alone, and is blind.
LEMMA StepTimesOutKeeps == ASSUME SessionInv, StepTimesOut PROVE Held
<1>1. s' = s /\ host' = Idle /\ blind' = TRUE /\ wps' = wps /\ bps' = bps /\ ran' = ran /\ s.hw.run = "app"
  BY DEF StepTimesOut
<1>2. DataInv'
  BY <1>1 DEF SessionInv, DataInv, Halted, Agree
<1>3. RestInv' /\ SteadyInv' /\ StepInv' /\ WaitInv' /\ CallInv' /\ CountInv'
  BY <1>1, IdleIs DEF RestInv, SteadyInv, StepInv, WaitInv, CallInv, CountInv, Halted
<1>4. Intact /\ Rearmed
  BY <1>1 DEF Intact, Rearmed, Released
<1> QED BY <1>2, <1>3, <1>4 DEF Held, SessionInv

\* A halt request that is given up leaves the core to run.
LEMMA HaltGivesUpKeeps == ASSUME SessionInv, HaltGivesUp PROVE Held
BY Untouched, IdleIs DEF HaltGivesUp, SessionInv, DataInv

\* An algorithm that does not stop at all is left, its program lost.
LEMMA AlgorithmLostKeeps == ASSUME SessionInv, AlgorithmLost PROVE Held
BY Untouched, IdleIs DEF AlgorithmLost, SessionInv, DataInv

\* The slot found is a slot.
LEMMA SlotFound ==
  ASSUME NEW slots, NEW a, FirstSlot(slots, a) # None PROVE FirstSlot(slots, a) \in Slots
<1> DEFINE fit == {i \in Slots : slots[i] \in {None, a}}
<1>1. fit # {} /\ FirstSlot(slots, a) = CHOOSE i \in fit : \A k \in fit : i <= k
  BY DEF FirstSlot
<1>2. \E i \in fit : \A k \in fit : i <= k
  <2>1. CASE 1 \in fit
    BY <2>1 DEF Slots
  <2>2. CASE 1 \notin fit
    BY <1>1, <2>2 DEF Slots
  <2> QED BY <2>1, <2>2
<1> HIDE DEF fit
<1>3. FirstSlot(slots, a) \in fit
  BY <1>1, <1>2
<1> QED BY <1>3 DEF fit

\* Breakpoints are armed at the next resume, not when added ...
LEMMA AddBreakpointKeeps == ASSUME SessionInv, AddBreakpoint PROVE Held
<1>1. bps \in [Slots -> Addresses \cup {None}]
  BY DEF SessionInv, DataInv
<1>2. PICK a \in Addresses : FirstSlot(bps, a) # None /\ bps' = [bps EXCEPT ![FirstSlot(bps, a)] = a]
  BY DEF AddBreakpoint
<1>3. bps' \in [Slots -> Addresses \cup {None}]
  BY <1>1, <1>2, SlotFound
<1> QED BY <1>3, Untouched DEF AddBreakpoint

\* ... nor disarmed when removed.
LEMMA RemoveBreakpointKeeps == ASSUME SessionInv, RemoveBreakpoint PROVE Held
<1>1. bps \in [Slots -> Addresses \cup {None}]
  BY DEF SessionInv, DataInv
<1>2. bps' \in [Slots -> Addresses \cup {None}]
  BY <1>1 DEF RemoveBreakpoint
<1> QED BY <1>2, Untouched DEF RemoveBreakpoint

\* An injected access hands a3 back.
LEMMA InjectedS == ASSUME SessionInv PROVE [s EXCEPT !.hw = Injected(@)] = s
<1>1. IsSession(s) /\ IsCore(s.hw)
  BY DEF SessionInv, DataInv, IsSession
<1>2. Injected(s.hw) = s.hw
  BY <1>1, InjectedSame
<1>3. s = [hw |-> s.hw, cache |-> s.cache, ctx |-> s.ctx, app |-> s.app]
  BY <1>1 DEF IsSession
<1> QED BY <1>2, <1>3

\* So an access of the caller changes nothing,
LEMMA AccessKeeps == ASSUME SessionInv, Access PROVE Held
BY Untouched, InjectedS DEF Access, SessionInv, DataInv

\* nor do those that switch the watchdogs off,
LEMMA HaltSeenKeeps == ASSUME SessionInv, HaltSeen PROVE Held
BY Untouched, InjectedS, IdleIs DEF HaltSeen, SessionInv, DataInv

\* nor do the stores of the loader.
LEMMA LoadKeeps == ASSUME SessionInv, Load PROVE Held
BY Untouched, InjectedS DEF Load, SessionInv, DataInv

\* A running core asked to stop, and one asked no more.
LEMMA Asked ==
  ASSUME NEW t, IsSession(t), NEW irq \in BOOLEAN
  PROVE  LET u == [t EXCEPT !.hw.irq = irq]
         IN IsSession(u) /\ SameProgram(t, u) /\ u.hw.run = t.hw.run /\ u.hw.irq = irq
<1> DEFINE g == [t.hw EXCEPT !.irq = irq]
           v == [t EXCEPT !.hw = g]
<1>1. IsCore(t.hw)
  BY DEF IsSession
<1>2. IsCore(g) /\ g.sr = t.hw.sr /\ g.ar = t.hw.ar /\ g.run = t.hw.run /\ g.irq = irq
  BY <1>1, IrqSet
<1>3. [t EXCEPT !.hw.irq = irq] = v
  OBVIOUS
<1> HIDE DEF g
<1>4. IsSession(v) /\ v.hw = g /\ v.cache = t.cache /\ v.ctx = t.ctx /\ v.app = t.app
  BY <1>2, HwSet
<1> HIDE DEF v
<1>5. SameProgram(t, v)
  BY <1>2, <1>4 DEF SameProgram
<1> QED BY <1>2, <1>3, <1>4, <1>5

\* The registers stay, the core goes on as it was.
LEMMA OnlyAsked ==
  ASSUME SessionInv, IsSession(s'), SameProgram(s, s'), s'.hw.run = s.hw.run, Halted' => ~s'.hw.irq,
         UNCHANGED <<bps, wps, blind, ran>>,
         \/ host'.at \in {"idle", "halting"} /\ host.at \in {"idle", "halting"}
         \/ /\ host.at = "waiting" /\ host' = [at |-> "waiting", backup |-> host.backup, regs |-> host.regs,
                         known |-> host.known, forced |-> host'.forced]
  PROVE  Held
<1>1. DataInv'
  BY DEF SessionInv, DataInv, Halted, Agree, SameProgram
<1>2. RestInv'
  BY SameSound DEF SessionInv, RestInv, Halted, SameProgram
<1>3. /\ (Steady(s.cache))' <=> Steady(s.cache)
      /\ (Steady(host.backup))' <=> Steady(host'.backup)
  BY DEF Steady, Watching, Watch, SameProgram
<1>4. SteadyInv'
  BY <1>3 DEF SessionInv, SteadyInv, SameProgram
<1>5. StepInv' /\ WaitInv' /\ CallInv'
  BY <1>3 DEF SessionInv, StepInv, WaitInv, CallInv, SameProgram
<1>6. Intact /\ Rearmed
  BY DEF Intact, Rearmed, Released
<1>7. CountInv'
  <2>1. Agree(s.hw, s.cache, {"icount"}) => Agree(s'.hw, s'.cache, {"icount"})
    BY DEF Agree, SameProgram
  <2> QED BY <2>1, CountStays
<1> QED BY <1>1, <1>2, <1>4, <1>5, <1>6, <1>7 DEF Held, SessionInv

\* A halt request is a flag of a running core,
LEMMA HaltRequestKeeps == ASSUME SessionInv, HaltRequest PROVE Held
<1>1. IsSession(s) /\ host.at = "idle" /\ host'.at = "halting" /\ s' = AskToStop(s) /\ UNCHANGED <<bps, wps, blind, ran>>
  BY IdleIs DEF HaltRequest, Call, SessionInv, DataInv
<1>2. CASE Halted
  <2>1. s' = s
    BY <1>1, <1>2 DEF AskToStop, Halted
  <2> QED BY <1>1, <2>1, Untouched DEF SessionInv, DataInv
<1>3. CASE ~Halted
  <2>1. s' = [s EXCEPT !.hw.irq = TRUE]
    BY <1>1, <1>3 DEF AskToStop, Halted
  <2>2. IsSession(s') /\ SameProgram(s, s') /\ s'.hw.run = s.hw.run
    BY <1>1, <2>1, Asked
  <2> QED BY <1>1, <1>3, <2>2, OnlyAsked DEF Halted
<1> QED BY <1>2, <1>3

\* and can be dropped;
LEMMA ClearDebugInterruptKeeps == ASSUME SessionInv, ClearDebugInterrupt PROVE Held
<1>1. IsSession(s) /\ host.at = "idle" /\ host' = host /\ s' = [s EXCEPT !.hw.irq = FALSE] /\ UNCHANGED <<bps, wps, blind, ran>>
  BY IdleIs DEF ClearDebugInterrupt, Call, SessionInv, DataInv
<1>2. IsSession(s') /\ SameProgram(s, s') /\ s'.hw.run = s.hw.run /\ s'.hw.irq = FALSE
  BY <1>1, Asked
<1> QED BY <1>1, <1>2, OnlyAsked

\* it is how an algorithm is stopped too.
LEMMA AlgorithmTimesOutKeeps == ASSUME SessionInv, AlgorithmTimesOut PROVE Held
<1>1. /\ IsSession(s) /\ host.at = "waiting" /\ host' = [host EXCEPT !.forced = TRUE] /\ ~Halted
      /\ s' = [s EXCEPT !.hw.irq = TRUE] /\ UNCHANGED <<bps, wps, blind, ran>>
  BY DEF AlgorithmTimesOut, AskToStop, Halted, SessionInv, DataInv
<1>2. IsSession(s') /\ SameProgram(s, s') /\ s'.hw.run = s.hw.run
  BY <1>1, Asked
<1>3. host' = [at |-> "waiting", backup |-> host.backup, regs |-> host.regs, known |-> host.known, forced |-> TRUE]
  BY <1>1 DEF SessionInv, WaitInv
<1> QED BY <1>1, <1>2, <1>3, OnlyAsked DEF Halted

-------------------------------------------------------------------------------
(* The core while it runs.                                                  *)

\* A program that stops is in the core, whatever stopped it.
LEMMA ProgramStopsKeeps == ASSUME SessionInv, ProgramStops PROVE Held
<1>1. /\ IsSession(s) /\ IsCore(s.hw) /\ s.hw.run = "app" /\ UNCHANGED <<host, bps, wps, blind, ran>>
  BY DEF ProgramStops, SessionInv, DataInv, IsSession
<1>2. PICK cause \in Causes(s.hw) : s' = Stops(s, s.hw, cause)
  BY DEF ProgramStops
<1>3. cause \in AllCauses /\ (cause = "DB" => Watched(s.hw)) /\ cause # "IC"
  BY DEF Causes, AllCauses
<1>4. IsSession(s') /\ s'.hw = Stop(s.hw, cause) /\ s'.cache = s.cache /\ Rests(s')
  BY <1>1, <1>2, <1>3, Stops0
<1>5. /\ s'.hw.run = "halted" /\ s'.hw.irq = FALSE /\ s'.hw.sr["debugcause"] = cause
      /\ \A r \in SR \ {"debugcause", "icount"} : s'.hw.sr[r] = s.hw.sr[r]
      /\ s'.hw.sr["icount"] = s.hw.sr["icount"]
  <2>1. AtRest(s.hw, s'.hw, cause)
    BY <1>1, <1>3, <1>4, Stopped0
  <2> QED BY <1>3, <2>1 DEF AtRest
<1>6. \A i \in Slots : s'.hw.sr[Dbreakc[i]] = s.hw.sr[Dbreakc[i]]
  BY <1>5 DEF Dbreakc, SR, Slots
<1>7. "icountlevel" \in SR \ {"debugcause", "icount"} /\ DbRegs \subseteq SR \ {"debugcause", "icount"}
  BY DEF SR, DbRegs
<1>8. DataInv'
  BY <1>1, <1>4, <1>5, <1>7 DEF SessionInv, DataInv, Agree, Halted
<1>9. (Rests(s))'
  BY <1>4 DEF Rests, Sound, Stored, GoesOn, Agree
<1>10. RestInv'
  BY <1>5, <1>9 DEF RestInv
<1>11. (Steady(s.cache))' <=> Steady(s.cache)
  BY <1>1, <1>4 DEF Steady, Watching, Watch
<1>12. SteadyInv'
  BY <1>1, <1>4, <1>5, <1>7, <1>11 DEF SessionInv, SteadyInv
<1>13. StepInv'
  <2> SUFFICES ASSUME host'.at = "stepping"
               PROVE  StepInv'
    BY DEF StepInv
  <2>1. host.at = "stepping"
    BY <1>1
  <2>2. (Returns(s.cache, host.frames))' <=> Returns(s.cache, host.frames)
    BY <1>1, <1>4 DEF Returns, Watching, Watch, Hidden
  <2>3. s'.hw.sr["debugcause"] = "DB" => \E i \in Slots : s'.hw.sr[Dbreakc[i]] # 0
    BY <1>3, <1>5, <1>6 DEF Watched
  <2> QED BY <1>1, <1>4, <1>5, <2>1, <2>2, <2>3 DEF SessionInv, StepInv
<1>14. WaitInv' /\ CallInv'
  BY <1>1 DEF SessionInv, WaitInv, CallInv
<1>15. Intact /\ Rearmed
  BY <1>1 DEF Intact, Rearmed, Released
<1>16. CountInv'
  <2> DEFINE f == Head(host.frames)
  <2> SUFFICES ASSUME ~blind
               PROVE  /\ host.at # "stepping" => Agree(s'.hw, s'.cache, {"icount"})
                      /\ host.at = "stepping" =>
                           /\ Counted(f)'
                           /\ \A j \in DOMAIN host.frames : j # 1 => host.frames[j].due = None
    BY <1>1 DEF CountInv, Agree
  <2>1. host.at # "stepping" => Agree(s'.hw, s'.cache, {"icount"})
    BY <1>4, <1>5 DEF SessionInv, CountInv, Agree
  <2>2. ASSUME host.at = "stepping" PROVE Counted(f)'
    <3>1. Counted(f) /\ ~Halted
      BY <1>1, <2>2 DEF SessionInv, CountInv, Halted
    <3>2. f' = f /\ s'.hw.sr["debugcause"] # "IC"
      BY <1>1, <1>3, <1>5
    <3> HIDE DEF f
    <3> QED BY <1>1, <1>5, <1>7, <3>1, <3>2 DEF Counted
  <2> QED BY <2>1, <2>2 DEF SessionInv, CountInv
<1> QED BY <1>8, <1>10, <1>12, <1>13, <1>14, <1>15, <1>16 DEF Held, SessionInv

\* One instruction leaves the debug registers, ibreakenable apart.
LEMMA Executed0 ==
  ASSUME NEW h, IsCore(h), NEW g \in Executed(h)
  PROVE  /\ IsCore(g) /\ g.run = h.run /\ g.irq = h.irq
         /\ \A r \in SR \ {"pc", "windowbase", "ibreakenable"} : g.sr[r] = h.sr[r]
<1> DEFINE X == { [ar |-> SetAr(h, 1, 50).ar, wb |-> h.sr["windowbase"], en |-> h.sr["ibreakenable"]],
                [ar |-> h.ar, wb |-> (h.sr["windowbase"] + 1) % (ARegs \div Inc),
                 en |-> h.sr["ibreakenable"]],
                [ar |-> h.ar, wb |-> h.sr["windowbase"], en |-> {}] }
<1>1. PICK pc \in {Next3(h.sr["pc"]), 0}, x \in X :
        g = [h EXCEPT !.sr["pc"] = pc, !.ar = x.ar, !.sr["windowbase"] = x.wb, !.sr["ibreakenable"] = x.en]
  <2> DEFINE F(pc, x) == [h EXCEPT !.sr["pc"] = pc, !.ar = x.ar, !.sr["windowbase"] = x.wb,
                                   !.sr["ibreakenable"] = x.en]
             A == {Next3(h.sr["pc"]), 0}
  <2>1. Executed(h) = {F(pc, x) : pc \in A, x \in X}
    BY DEF Executed
  <2> HIDE DEF F, A, X
  <2>2. \E pc \in A, x \in X : g = F(pc, x)
    BY <2>1
  <2> QED BY <2>2 DEF F, A
<1>2. h.sr["pc"] \in Int /\ h.sr["windowbase"] \in Int
  BY DEF IsCore, IsRegs, Numbers
<1>3. pc \in Int
  BY <1>2, NextIs
<1>4. x.wb \in Int
  <2>1. ARegs \in Nat \ {0} /\ Inc \in Nat \ {0} /\ Inc <= ARegs
    BY WindowAssumption
  <2>2. ARegs \div Inc \in Nat \ {0}
    <3>1. PICK q \in Int : q = ARegs \div Inc
      BY <2>1
    <3>2. PICK m \in 0 .. Inc - 1 : ARegs = Inc * q + m
      BY <2>1, <3>1
    <3>3. q > 0
      BY <2>1, <3>2
    <3> QED BY <3>1, <3>3
  <2>3. (h.sr["windowbase"] + 1) % (ARegs \div Inc) \in Int
    BY <1>2, <2>2
  <2> QED BY <1>2, <2>3
<1>5. x.ar = [k \in Phys |-> x.ar[k]]
  <2>1. SetAr(h, 1, 50).ar = [k \in Phys |-> SetAr(h, 1, 50).ar[k]]
    <3>1. SetAr(h, 1, 50).ar = [h.ar EXCEPT ![Canonical(1, h.sr["windowbase"])] = 50]
      BY DEF SetAr, IsCore
    <3>2. h.ar = [k \in Phys |-> h.ar[k]]
      BY DEF IsCore
    <3> QED BY <3>1, <3>2
  <2>2. h.ar = [k \in Phys |-> h.ar[k]]
    BY DEF IsCore
  <2> QED BY <2>1, <2>2
<1> HIDE DEF X
<1> DEFINE f1 == With(h.sr, "pc", pc)
           f2 == With(f1, "windowbase", x.wb)
           f3 == With(f2, "ibreakenable", x.en)
<1>6. /\ Fits("pc", pc) /\ Fits("windowbase", x.wb) /\ Fits("ibreakenable", x.en)
  BY <1>3, <1>4 DEF Fits, SR, Numbers
<1>7. IsRegs(f1) /\ \A r \in SR : f1[r] = IF r = "pc" THEN pc ELSE h.sr[r]
  BY <1>6, SpecialSet DEF IsCore
<1>8. IsRegs(f2) /\ \A r \in SR : f2[r] = IF r = "windowbase" THEN x.wb ELSE f1[r]
  BY <1>6, <1>7, SpecialSet
<1>9. IsRegs(f3) /\ \A r \in SR : f3[r] = IF r = "ibreakenable" THEN x.en ELSE f2[r]
  BY <1>6, <1>8, SpecialSet
<1>10. g = [ar |-> x.ar, sr |-> f3, vecbase |-> h.vecbase, run |-> h.run, irq |-> h.irq]
  <2>1. PICK h1 : h1 = [h EXCEPT !.sr = f1]
    OBVIOUS
  <2>2. PICK h2 : h2 = [h1 EXCEPT !.ar = x.ar]
    OBVIOUS
  <2>3. PICK h3 : h3 = [h2 EXCEPT !.sr = With(h2.sr, "windowbase", x.wb)]
    OBVIOUS
  <2>4. PICK h4 : h4 = [h3 EXCEPT !.sr = With(h3.sr, "ibreakenable", x.en)]
    OBVIOUS
  <2>5. h1 = [ar |-> h.ar, sr |-> f1, vecbase |-> h.vecbase, run |-> h.run, irq |-> h.irq]
    <3> HIDE DEF f1
    <3> QED BY <2>1 DEF IsCore
  <2>6. h2 = [ar |-> x.ar, sr |-> f1, vecbase |-> h.vecbase, run |-> h.run, irq |-> h.irq]
    <3> HIDE DEF f1
    <3> QED BY <2>2, <2>5
  <2>7. h3 = [ar |-> x.ar, sr |-> f2, vecbase |-> h.vecbase, run |-> h.run, irq |-> h.irq]
    <3> HIDE DEF f1
    <3> QED BY <2>3, <2>6
  <2>8. h4 = [ar |-> x.ar, sr |-> f3, vecbase |-> h.vecbase, run |-> h.run, irq |-> h.irq]
    <3> HIDE DEF f1, f2
    <3> QED BY <2>4, <2>7
  <2>9. g = h4
    BY <1>1, <2>1, <2>2, <2>3, <2>4 DEF With
  <2> QED BY <2>8, <2>9
<1> HIDE DEF f1, f2, f3
<1>11. IsCore(g)
  BY <1>5, <1>9, <1>10 DEF IsCore
<1>12. \A r \in SR \ {"pc", "windowbase", "ibreakenable"} : f3[r] = h.sr[r]
  BY <1>7, <1>8, <1>9
<1> QED BY <1>10, <1>11, <1>12

\* A program that runs keeps what a step has hidden and stops by a loaded count.
LEMMA ProgramRunsKeeps == ASSUME SessionInv, ProgramRuns PROVE Held
<1>1. /\ IsSession(s) /\ IsCore(s.hw) /\ s.hw.run = "app" /\ UNCHANGED <<host, bps, wps, blind>> /\ ran' \in Int
  BY DEF ProgramRuns, SessionInv, DataInv, IsSession
<1>2. PICK h \in Executed(s.hw) : s' = IF h.sr["icountlevel"] = 1 /\ h.sr["icount"] = 1 THEN Stops(s, h, "IC")
              ELSE [s EXCEPT !.hw = h]
  BY DEF ProgramRuns
<1>3. /\ IsCore(h) /\ h.run = "app"
      /\ \A r \in SR \ {"pc", "windowbase", "ibreakenable"} : h.sr[r] = s.hw.sr[r]
  BY <1>1, Executed0
<1>4. "icountlevel" \in SR \ {"debugcause", "icount", "pc", "windowbase", "ibreakenable"}
      /\ DbRegs \subseteq SR \ {"debugcause", "icount", "pc", "windowbase", "ibreakenable"}
  BY DEF SR, DbRegs
<1>5. IsSession(s') /\ s'.cache = s.cache
      /\ \/ s'.hw.run = "halted" /\ s'.hw.irq = FALSE /\ s'.hw.sr["debugcause"] = "IC" /\ Rests(s')
         \/ s'.hw.run = "app"
      /\ \A r \in SR \ {"debugcause", "icount", "pc", "windowbase", "ibreakenable"} : s'.hw.sr[r] = s.hw.sr[r]
  <2>0. h.sr["icountlevel"] = s.hw.sr["icountlevel"] /\ h.sr["icount"] = s.hw.sr["icount"]
    BY <1>3 DEF SR
  <2>1. CASE h.sr["icountlevel"] = 1 /\ h.sr["icount"] = 1
    <3>1. s' = Stops(s, h, "IC") /\ "IC" \in AllCauses
      BY <1>2, <2>1 DEF AllCauses
    <3>2. IsSession(s') /\ s'.hw = Stop(h, "IC") /\ s'.cache = s.cache /\ Rests(s')
      BY <1>1, <1>3, <3>1, Stops0
    <3>3. /\ s'.hw.run = "halted" /\ s'.hw.irq = FALSE /\ s'.hw.sr["debugcause"] = "IC"
          /\ \A r \in SR \ {"debugcause", "icount"} : s'.hw.sr[r] = h.sr[r]
      <4>1. AtRest(h, s'.hw, "IC")
        BY <1>3, <3>1, <3>2, Stopped0
      <4> QED BY <4>1 DEF AtRest
    <3> QED BY <1>3, <2>0, <2>1, <3>2, <3>3
  <2>2. CASE ~(h.sr["icountlevel"] = 1 /\ h.sr["icount"] = 1)
    <3>1. s' = [s EXCEPT !.hw = h]
      BY <1>2, <2>2
    <3>2. IsSession(s') /\ s'.hw = h /\ s'.cache = s.cache
      BY <1>1, <1>3, <3>1, HwSet
    <3> QED BY <1>3, <2>0, <2>2, <3>2
  <2> QED BY <2>1, <2>2
<1>6. h.sr["icountlevel"] = s.hw.sr["icountlevel"] /\ h.sr["icount"] = s.hw.sr["icount"]
  BY <1>3 DEF SR
<1>7. /\ s.hw.sr["icountlevel"] = 1 /\ s.hw.sr["icount"] = 1 => s'.hw.run = "halted"
      /\ ~(s.hw.sr["icountlevel"] = 1 /\ s.hw.sr["icount"] = 1) =>
           s'.hw.sr["icount"] = s.hw.sr["icount"]
  <2>1. CASE h.sr["icountlevel"] = 1 /\ h.sr["icount"] = 1
    <3>1. s' = Stops(s, h, "IC") /\ "IC" \in AllCauses
      BY <1>2, <2>1 DEF AllCauses
    <3>2. s'.hw = Stop(h, "IC")
      BY <1>1, <1>3, <3>1, Stops0
    <3>3. AtRest(h, s'.hw, "IC")
      BY <1>3, <3>1, <3>2, Stopped0
    <3> QED BY <1>6, <2>1, <3>3 DEF AtRest
  <2>2. CASE ~(h.sr["icountlevel"] = 1 /\ h.sr["icount"] = 1)
    <3>1. s'.hw = h
      BY <1>1, <1>2, <1>3, <2>2, HwSet
    <3> QED BY <1>6, <2>2, <3>1
  <2> QED BY <2>1, <2>2
<1>8. DataInv'
  BY <1>1, <1>4, <1>5 DEF SessionInv, DataInv, Agree, Halted
<1>9. s'.hw.run = "halted" => (Rests(s))'
  BY <1>5 DEF Rests, Sound, Stored, GoesOn, Agree
<1>10. RestInv'
  BY <1>5, <1>9 DEF RestInv, Halted
<1>11. (Steady(s.cache))' <=> Steady(s.cache)
  BY <1>1, <1>5 DEF Steady, Watching, Watch
<1>12. SteadyInv'
  BY <1>1, <1>4, <1>5, <1>11 DEF SessionInv, SteadyInv
<1>13. StepInv'
  <2> SUFFICES ASSUME host'.at = "stepping"
               PROVE  StepInv'
    BY DEF StepInv
  <2>1. host.at = "stepping"
    BY <1>1
  <2>2. (Returns(s.cache, host.frames))' <=> Returns(s.cache, host.frames)
    BY <1>1, <1>5 DEF Returns, Watching, Watch, Hidden
  <2>3. ~(Halted' /\ s'.hw.sr["debugcause"] = "DB")
    BY <1>5 DEF Halted
  <2> QED BY <1>1, <1>5, <2>1, <2>2, <2>3 DEF SessionInv, StepInv
<1>14. WaitInv' /\ CallInv'
  BY <1>1 DEF SessionInv, WaitInv, CallInv
<1>15. Intact /\ Rearmed
  BY <1>1 DEF Intact, Rearmed, Released
<1>16. CountInv'
  <2> DEFINE f == Head(host.frames)
  <2> SUFFICES ASSUME ~blind
               PROVE  /\ host.at # "stepping" => Agree(s'.hw, s'.cache, {"icount"})
                      /\ host.at = "stepping" =>
                           /\ Counted(f)'
                           /\ \A j \in DOMAIN host.frames : j # 1 => host.frames[j].due = None
    BY <1>1 DEF CountInv, Agree
  <2>1. ASSUME host.at # "stepping" PROVE Agree(s'.hw, s'.cache, {"icount"})
    <3>1. s.hw.sr["icountlevel"] = 0
      BY <2>1 DEF SessionInv, SteadyInv
    <3>2. s'.hw.sr["icount"] = s.hw.sr["icount"]
      <4>1. ~(s.hw.sr["icountlevel"] = 1 /\ s.hw.sr["icount"] = 1)
        BY <3>1
      <4> QED BY <1>7, <4>1
    <3> QED BY <1>5, <2>1, <3>2 DEF SessionInv, CountInv, Agree
  <2>2. ASSUME host.at = "stepping" PROVE Counted(f)'
    <3> SUFFICES ASSUME f.due # None
                 PROVE  Halted' /\ s'.hw.sr["debugcause"] = "IC" /\ ran' - f.first = f.due
      <4>1. f' = f
        BY <1>1
      <4> HIDE DEF f
      <4> QED BY <4>1 DEF Counted
    <3>1. s.hw.sr["icountlevel"] = 1 /\ s.hw.sr["icount"] = 1 /\ ran - f.first = f.due - 1
      BY <1>1, <2>2 DEF SessionInv, CountInv, Counted, Halted
    <3>2. Halted' /\ s'.hw.sr["debugcause"] = "IC"
      <4>1. s'.hw.run = "halted"
        BY <1>7, <3>1
      <4> QED BY <1>5, <4>1 DEF Halted
    <3>3. f.due \in Int /\ f.first \in Int
      <4>1. f \in FrameSet
        BY <2>2, HeadTailProperties DEF SessionInv, StepInv
      <4> QED BY <4>1 DEF FrameSet
    <3>4. ran' = ran + 1 /\ ran \in Int
      BY DEF ProgramRuns, SessionInv, DataInv
    <3> HIDE DEF f
    <3> QED BY <3>1, <3>2, <3>3, <3>4
  <2> QED BY <2>1, <2>2 DEF SessionInv, CountInv
<1> QED BY <1>8, <1>10, <1>12, <1>13, <1>14, <1>15, <1>16 DEF Held, SessionInv

\* Code of the host stops, with registers of its own.
LEMMA StubStopsKeeps == ASSUME SessionInv, StubStops PROVE Held
<1>1. /\ IsSession(s) /\ IsCore(s.hw) /\ s.hw.run = "stub" /\ UNCHANGED <<host, bps, wps, blind, ran>>
  BY DEF StubStops, SessionInv, DataInv, IsSession
<1> DEFINE v == CHOOSE v \in LeftByCode : \A k \in Phys : s.hw.ar[k] # v
<1>2. PICK used \in {{5}, Phys}, wb \in {s.hw.sr["windowbase"], 1},
           eps \in {s.hw.sr["eps"], 4}, cause \in {"BI", "DI"} :
         /\ cause = "BI" => wb = s.hw.sr["windowbase"]
         /\ cause = "DI" => s.hw.irq
         /\ s' = [s EXCEPT !.hw = Stop([s.hw EXCEPT !.ar = [k \in Phys |-> IF k \in used THEN v ELSE @[k]],
                                       !.sr["windowbase"] = wb, !.sr["pc"] = Exit, !.sr["eps"] = eps], cause)]
  BY DEF StubStops
<1> HIDE DEF v
<1> DEFINE ar == [k \in Phys |-> IF k \in used THEN v ELSE s.hw.ar[k]]
           f1 == With(s.hw.sr, "windowbase", wb)
           f2 == With(f1, "pc", Exit)
           f3 == With(f2, "eps", eps)
           h == [s.hw EXCEPT !.ar = ar, !.sr["windowbase"] = wb, !.sr["pc"] = Exit, !.sr["eps"] = eps]
           g == Stop(h, cause)
<1>3. Fits("windowbase", wb) /\ Fits("pc", Exit) /\ Fits("eps", eps) /\ "windowbase" \in SR
  BY <1>1, ProgramAssumption DEF IsCore, IsRegs, Fits, SR, Numbers
<1>4. IsRegs(f1) /\ \A r \in SR : f1[r] = IF r = "windowbase" THEN wb ELSE s.hw.sr[r]
  BY <1>1, <1>3, SpecialSet DEF IsCore
<1>5. IsRegs(f2) /\ \A r \in SR : f2[r] = IF r = "pc" THEN Exit ELSE f1[r]
  BY <1>3, <1>4, SpecialSet
<1>a. IsRegs(f3) /\ \A r \in SR : f3[r] = IF r = "eps" THEN eps ELSE f2[r]
  BY <1>3, <1>5, SpecialSet
<1>6. h = [ar |-> ar, sr |-> f3, vecbase |-> s.hw.vecbase, run |-> "stub", irq |-> s.hw.irq]
  <2>1. PICK h1 : h1 = [s.hw EXCEPT !.ar = ar]
    OBVIOUS
  <2>2. PICK h2 : h2 = [h1 EXCEPT !.sr = With(h1.sr, "windowbase", wb)]
    OBVIOUS
  <2>3. PICK h3 : h3 = [h2 EXCEPT !.sr = With(h2.sr, "pc", Exit)]
    OBVIOUS
  <2>4. h1 = [ar |-> ar, sr |-> s.hw.sr, vecbase |-> s.hw.vecbase, run |-> "stub", irq |-> s.hw.irq]
    <3> HIDE DEF ar
    <3> QED BY <1>1, <2>1 DEF IsCore
  <2>5. h2 = [ar |-> ar, sr |-> f1, vecbase |-> s.hw.vecbase, run |-> "stub", irq |-> s.hw.irq]
    <3> HIDE DEF ar
    <3> QED BY <2>2, <2>4
  <2>6. h3 = [ar |-> ar, sr |-> f2, vecbase |-> s.hw.vecbase, run |-> "stub", irq |-> s.hw.irq]
    <3> HIDE DEF ar, f1
    <3> QED BY <2>3, <2>5
  <2>7. PICK h4 : h4 = [h3 EXCEPT !.sr = With(h3.sr, "eps", eps)]
    OBVIOUS
  <2>8. h4 = [ar |-> ar, sr |-> f3, vecbase |-> s.hw.vecbase, run |-> "stub", irq |-> s.hw.irq]
    <3> HIDE DEF ar, f2
    <3> QED BY <2>6, <2>7
  <2>9. h = h4
    BY <2>1, <2>2, <2>3, <2>7 DEF With
  <2> QED BY <2>8, <2>9
<1>7. ar = [k \in Phys |-> ar[k]]
  OBVIOUS
<1>8. s' = [s EXCEPT !.hw = g]
  BY <1>2
<1> HIDE DEF ar, f1, f2, f3, h
<1>9. IsCore(h)
  BY <1>1, <1>a, <1>6, <1>7 DEF IsCore
<1>10. /\ IsCore(g) /\ g.run = "halted" /\ g.irq = FALSE
       /\ \A r \in SR \ {"debugcause", "icount"} : g.sr[r] = h.sr[r]
       /\ g.sr["icount"] = h.sr["icount"]
  <2>1. cause \in AllCauses /\ cause # "IC"
    BY DEF AllCauses
  <2>2. AtRest(h, g, cause)
    BY <1>9, <2>1, Stopped0
  <2> HIDE DEF g
  <2> QED BY <2>1, <2>2 DEF AtRest
<1> HIDE DEF g
<1>11. IsSession(s') /\ s'.hw = g /\ s'.cache = s.cache /\ s'.ctx = s.ctx /\ s'.app = s.app
  BY <1>1, <1>8, <1>10, HwSet
<1>12. \A r \in SR \ {"debugcause", "pc", "eps", "windowbase"} : g.sr[r] = s.hw.sr[r]
  BY <1>4, <1>5, <1>a, <1>6, <1>10
<1>13. wb = s.hw.sr["windowbase"] => \A r \in SR \ {"debugcause", "pc", "eps"} : g.sr[r] = s.hw.sr[r]
  BY <1>4, <1>5, <1>a, <1>6, <1>10
<1>14. "icountlevel" \in SR \ {"debugcause", "pc", "eps", "windowbase"}
       /\ DbRegs \subseteq SR \ {"debugcause", "pc", "eps", "windowbase"}
  BY DEF SR, DbRegs
<1>15. DataInv'
  BY <1>1, <1>10, <1>11, <1>12, <1>14 DEF SessionInv, DataInv, Agree, Halted
<1>16. RestInv'
  <2>1. host.at # "calling" => s'.ctx = "lost"
    BY <1>1, <1>11 DEF SessionInv, RestInv
  <2>2. host.at # "calling" => (Rests(s))'
    BY <2>1 DEF Rests, Sound, Stored, GoesOn
  <2> QED BY <1>1, <1>10, <1>11, <2>2 DEF RestInv
<1>17. (Steady(s.cache))' <=> Steady(s.cache)
  BY <1>1, <1>11 DEF Steady, Watching, Watch
<1>18. SteadyInv'
  BY <1>1, <1>11, <1>12, <1>14, <1>17 DEF SessionInv, SteadyInv
<1>19. StepInv'
  BY <1>1 DEF SessionInv, StepInv
<1>20. WaitInv'
  <2>1. (Steady(host.backup))' <=> Steady(host.backup)
    BY <1>1 DEF Steady, Watching, Watch
  <2> QED BY <1>1, <1>10, <1>11, <2>1 DEF SessionInv, WaitInv
<1>21. CallInv'
  <2> SUFFICES ASSUME host'.at = "calling"
               PROVE  CallInv'
    BY DEF CallInv
  <2>1. /\ IsCore(host.before) /\ Rests([s EXCEPT !.hw = host.before]) /\ ~s.hw.irq
        /\ \A r \in SR \ {"pc", "eps", "debugcause"} : s.hw.sr[r] = host.before.sr[r]
    BY <1>1 DEF SessionInv, CallInv
  <2>2. wb = s.hw.sr["windowbase"]
    BY <1>2, <2>1
  <2>3. \A r \in SR \ {"pc", "eps", "debugcause"} : s'.hw.sr[r] = host.before.sr[r]
    BY <1>11, <1>13, <2>1, <2>2
  <2>4. SameProgram([s EXCEPT !.hw = host.before], [s' EXCEPT !.hw = host.before])
    <3>1. s = [hw |-> s.hw, cache |-> s.cache, ctx |-> s.ctx, app |-> s.app]
      BY <1>1 DEF IsSession
    <3>2. s' = [hw |-> s'.hw, cache |-> s.cache, ctx |-> s.ctx, app |-> s.app]
      BY <1>11 DEF IsSession
    <3>3. [s EXCEPT !.hw = host.before] = [s' EXCEPT !.hw = host.before]
      BY <3>1, <3>2
    <3> QED BY <3>3 DEF SameProgram
  <2>5. Rests([s' EXCEPT !.hw = host.before])
    BY <2>1, <2>4, SameSound
  <2>6. (Rests([s EXCEPT !.hw = host.before]))'
    BY <1>1, <2>5 DEF Rests, Sound, Stored, GoesOn, Agree
  <2> QED BY <1>1, <1>10, <1>11, <2>1, <2>3, <2>6 DEF CallInv
<1>22. Intact /\ Rearmed
  BY <1>1 DEF Intact, Rearmed, Released
<1>23. CountInv'
  <2>1. Agree(s.hw, s.cache, {"icount"}) => Agree(s'.hw, s'.cache, {"icount"})
    BY <1>11, <1>12 DEF Agree, SR
  <2>2. host.at # "stepping"
    BY <1>1 DEF SessionInv, StepInv
  <2> QED BY <1>1, <2>1, <2>2, CountStays
<1> QED BY <1>15, <1>16, <1>18, <1>19, <1>20, <1>21, <1>22, <1>23 DEF Held, SessionInv

-------------------------------------------------------------------------------
(* Fetch, watchpoints, the bare resume.                                     *)

\* Everything fetched of a halted core.
Fetches(t, u) ==
  /\ IsSession(u) /\ Tidy(u.cache) /\ Rests(u) /\ u.ctx # "both"
  /\ u.hw.run = t.hw.run /\ u.hw.irq = t.hw.irq
  /\ \A r \in SR \ {"cpenable"} : u.hw.sr[r] = t.hw.sr[r] /\ u.cache.sr[r] = t.hw.sr[r]
  /\ u.cache.dsr = {"cpenable"}

\* A fetch of a sound session rests.
LEMMA FetchRests ==
  ASSUME NEW t, IsSession(t), Tidy(t.cache), Sound(t)
  PROVE  Fetches(t, FetchAllRegs(t))
<1> DEFINE u == FetchAllRegs(t)
<1>1. t.ctx \in {"live", "both"} => ProgramState(t.hw) = t.app
  BY DEF Sound, Stored
<1>2. /\ IsSession(u) /\ u.ctx = (IF t.ctx \in {"live", "both"} THEN "cached" ELSE "lost")
      /\ \A r \in SR : u.hw.sr[r] = IF r = "cpenable" THEN AllOn ELSE t.hw.sr[r]
      /\ u.hw.run = t.hw.run /\ u.hw.irq = t.hw.irq
      /\ u.cache.sr = t.hw.sr /\ u.cache.dsr = {"cpenable"}
      /\ u.cache.dar = t.cache.dar /\ u.cache.da = t.cache.da \cup {Scratch}
  <2>1. IsSession(u) /\ u.ctx = (IF t.ctx \in {"live", "both"} THEN "cached" ELSE "lost")
    BY Fetched0
  <2>2. u.hw.run = t.hw.run /\ u.hw.irq = t.hw.irq
    BY Fetched0
  <2>3. \A r \in SR : u.hw.sr[r] = IF r = "cpenable" THEN AllOn ELSE t.hw.sr[r]
    BY Fetched0
  <2>4. u.cache.sr = t.hw.sr /\ u.cache.dsr = {"cpenable"}
    BY Fetched0
  <2>5. u.cache.dar = t.cache.dar /\ u.cache.da = t.cache.da \cup {Scratch}
    BY Fetched0
  <2> QED BY <2>1, <2>2, <2>3, <2>4, <2>5
<1>3. Sound(u)
  BY <1>1, FetchedSound
<1> HIDE DEF u
<1>4. Tidy(u.cache)
  BY <1>2 DEF Tidy
<1>5. Agree(u.hw, u.cache, SR \ {"debugcause", "cpenable"}) /\ u.ctx # "both"
  BY <1>2 DEF Agree
<1>6. \A r \in SR \ {"cpenable"} : u.hw.sr[r] = t.hw.sr[r] /\ u.cache.sr[r] = t.hw.sr[r]
  BY <1>2
<1>7. Rests(u)
  BY <1>3, <1>5 DEF Rests
<1> QED BY <1>2, <1>4, <1>5, <1>6, <1>7 DEF Fetches, u

\* Names of the watchpoint registers.
LEMMA DbNames ==
  /\ \A i \in Slots : Dbreakc[i] \in DbRegs
  /\ DbRegs \subseteq SR \ {"debugcause", "cpenable", "pc", "eps", "icount", "icountlevel", "windowbase"}
  /\ DbRegs \cap IbreakRegs = {} /\ DbRegs \subseteq Numbers
  /\ "icountlevel" \in SR \ ({"debugcause", "cpenable", "pc", "eps", "icount", "windowbase"} \cup IbreakRegs)
  /\ Slots = {1, 2} /\ Dbreakc[1] = "dbreakc0" /\ Dbreakc[2] = "dbreakc1" /\ Dbreakc[1] # Dbreakc[2]
BY DEF DbRegs, SR, Slots, Dbreakc, IbreakRegs, Numbers

\* A fetch: DBREAKC set and not written back is lost, and then it is blind.
LEMMA FetchKeeps == ASSUME SessionInv, Fetch PROVE Held
<1>1. /\ IsSession(s) /\ Tidy(s.cache) /\ host.at = "idle" /\ host' = host /\ Halted
      /\ s' = FetchAllRegs(s) /\ UNCHANGED <<bps, wps, ran>>
      /\ blind' = (blind \/ \E i \in Slots : Dbreakc[i] \in s.cache.dsr)
  BY IdleIs DEF Fetch, Call, SessionInv, DataInv
<1>2. Rests(s)
  BY <1>1 DEF SessionInv, RestInv
<1>3. Fetches(s, s')
  BY <1>1, <1>2, FetchRests DEF Rests
<1>4. DataInv'
  BY <1>1, <1>3, DbNames DEF SessionInv, DataInv, Fetches, Agree, Halted
<1>5. (Rests(s))'
  BY <1>3 DEF Fetches, Rests, Sound, Stored, GoesOn, Agree
<1>6. RestInv'
  BY <1>1, <1>3, <1>5 DEF RestInv, Fetches, Halted
<1>7. SteadyInv'
  <2> SUFFICES ASSUME ~blind'
               PROVE  (Steady(s.cache))' /\ s'.hw.sr["icountlevel"] = 0
    BY DEF SteadyInv
  <2>1. Steady(s.cache) /\ s.hw.sr["icountlevel"] = 0 /\ \A i \in Slots : Dbreakc[i] \notin s.cache.dsr
    BY <1>1 DEF SessionInv, SteadyInv
  <2>2. \A i \in Slots : s.hw.sr[Dbreakc[i]] = Watch(i)
    BY <2>1, DbNames DEF SessionInv, DataInv, Agree, Steady, Watching
  <2> QED BY <1>1, <1>3, <2>1, <2>2, DbNames DEF Fetches, Steady, Watching, Watch
<1>8. StepInv' /\ WaitInv' /\ CallInv'
  BY <1>1 DEF StepInv, WaitInv, CallInv
<1>9. Intact /\ Rearmed
  BY <1>1, <1>3 DEF Intact, Rearmed, Released, Fetches, Halted
<1>10. CountInv'
  <2>1. Agree(s.hw, s.cache, {"icount"}) => Agree(s'.hw, s'.cache, {"icount"})
    BY <1>3 DEF Agree, Fetches, SR
  <2> QED BY <1>1, <2>1, CountStays
<1> QED BY <1>4, <1>6, <1>7, <1>8, <1>9, <1>10 DEF Held, SessionInv

\* What a caller sets in the cache of a halted core.
LEMMA GentleRests ==
  ASSUME NEW t, IsSession(t), NEW d, IsCache(d), Gentle(t.cache, d), d.sr["pc"] = t.cache.sr["pc"]
  PROVE  LET u == WithCache(t, d)
         IN /\ IsSession(u) /\ u.hw = t.hw /\ u.cache = d /\ u.ctx = t.ctx /\ u.app = t.app
            /\ Tidy(t.cache) => Tidy(d)
            /\ \A regs \in SUBSET (SR \ {"debugcause"}) : Agree(t.hw, t.cache, regs) => Agree(t.hw, d, regs)
            /\ Rests(t) => Rests(u)
<1> DEFINE u == WithCache(t, d)
<1>1. IsSession(u) /\ u.hw = t.hw /\ u.cache = d /\ u.ctx = t.ctx /\ u.app = t.app
  BY CacheChanged
<1> HIDE DEF u
<1>2. Tidy(t.cache) => Tidy(d)
  BY DEF Gentle, Tidy
<1>3. \A regs \in SUBSET (SR \ {"debugcause"}) : Agree(t.hw, t.cache, regs) => Agree(t.hw, d, regs)
  BY DEF Gentle, Agree
<1>4. Rests(t) => Rests(u)
  <2>1. Sound(t) /\ t.ctx # "both" => Sound(u) /\ u.ctx # "both"
    BY <1>1, GentleCovers DEF Sound, Stored, GoesOn
  <2>2. SR \ {"debugcause", "cpenable"} \in SUBSET (SR \ {"debugcause"})
    OBVIOUS
  <2> QED BY <1>1, <1>3, <2>1, <2>2 DEF Rests
<1> QED BY <1>1, <1>2, <1>3, <1>4 DEF u

\* A watchpoint set or cleared is in the cache until the next write back.
LEMMA WatchSet ==
  ASSUME SessionInv, host.at = "idle", host' = host, NEW i \in Slots, NEW a \in {0, 1, 2}, s' = Put(s, Dbreakc[i], a),
         wps' = [wps EXCEPT ![i] = IF a = 0 THEN None ELSE a], UNCHANGED <<bps, blind, ran>>
  PROVE  Held
<1> DEFINE r == Dbreakc[i]
           d == RegSet(s.cache, r, a)
<1>1. IsSession(s) /\ IsCache(s.cache) /\ wps \in [Slots -> {None, 1, 2}]
  BY DEF SessionInv, DataInv, IsSession
<1>2. Fits(r, a) /\ r \in SR /\ r \notin {"debugcause", "eps", "windowbase", "cpenable", "pc", "icountlevel"}
  BY DbNames DEF Fits
<1>3. IsCache(d) /\ Gentle(s.cache, d) /\ \A x \in SR : d.sr[x] = IF x = r THEN a ELSE s.cache.sr[x]
  BY <1>1, <1>2, GentleSet
<1>4. s' = WithCache(s, d)
  BY DEF Put, WithCache
<1>5. d.sr["pc"] = s.cache.sr["pc"] /\ "icountlevel" \in SR
  BY <1>2, <1>3 DEF SR
<1> HIDE DEF d
<1>6. /\ IsSession(s') /\ s'.hw = s.hw /\ s'.cache = d /\ s'.ctx = s.ctx /\ s'.app = s.app
      /\ Tidy(s.cache) => Tidy(d)
      /\ \A regs \in SUBSET (SR \ {"debugcause"}) : Agree(s.hw, s.cache, regs) => Agree(s.hw, d, regs)
      /\ Rests(s) => Rests(s')
  <2> DEFINE u == WithCache(s, d)
  <2>1. IsSession(u) /\ u.hw = s.hw /\ u.cache = d /\ u.ctx = s.ctx /\ u.app = s.app
    BY <1>1, <1>3, <1>5, GentleRests
  <2>2. (Tidy(s.cache) => Tidy(d)) /\ (Rests(s) => Rests(u))
    BY <1>1, <1>3, <1>5, GentleRests
  <2>3. \A regs \in SUBSET (SR \ {"debugcause"}) : Agree(s.hw, s.cache, regs) => Agree(s.hw, d, regs)
    BY <1>1, <1>3, <1>5, GentleRests
  <2> HIDE DEF u
  <2>4. s' = u
    BY <1>4 DEF u
  <2> QED BY <2>1, <2>2, <2>3, <2>4
<1>7. wps' \in [Slots -> {None, 1, 2}] /\ \A j \in Slots : wps'[j] = IF j = i THEN (IF a = 0 THEN None ELSE a) ELSE wps[j]
  BY <1>1
<1>8. DataInv'
  <2>1. Agree(s.hw, s.cache, DbRegs) /\ DbRegs \in SUBSET (SR \ {"debugcause"})
    BY DbNames DEF SessionInv, DataInv
  <2>2. Agree(s'.hw, s'.cache, DbRegs)
    BY <1>6, <2>1
  <2> QED BY <1>6, <1>7, <2>2 DEF SessionInv, DataInv, Halted, Agree
<1>9. (Rests(s))' <=> Rests(s')
  BY DEF Rests, Sound, Stored, GoesOn, Agree
<1>10. RestInv'
  BY <1>6, <1>9 DEF SessionInv, RestInv, Halted
<1>11. SteadyInv'
  <2>1. \A j \in Slots : s'.cache.sr[Dbreakc[j]] = IF j = i THEN a ELSE s.cache.sr[Dbreakc[j]]
    BY <1>3, <1>6, DbNames
  <2>2. \A j \in Slots : Watch(j)' = IF j = i THEN a ELSE Watch(j)
    BY <1>7 DEF Watch, None
  <2>3. Steady(s.cache) => (Steady(s.cache))'
    BY <1>2, <1>3, <1>5, <1>6, <2>1, <2>2 DEF Steady, Watching
  <2> QED BY <1>6, <2>3 DEF SessionInv, SteadyInv
<1>12. StepInv' /\ WaitInv' /\ CallInv'
  BY DEF StepInv, WaitInv, CallInv
<1>13. Intact /\ Rearmed
  BY <1>6 DEF Intact, Rearmed, Released
<1>14. CountInv'
  <2>1. Agree(s.hw, s.cache, {"icount"}) => Agree(s'.hw, s'.cache, {"icount"})
    <3>1. {"icount"} \in SUBSET (SR \ {"debugcause"})
      BY DEF SR
    <3> QED BY <1>6, <3>1
  <2> QED BY <2>1, CountStays
<1> QED BY <1>8, <1>10, <1>11, <1>12, <1>13, <1>14 DEF Held, SessionInv

\* A watchpoint taken.
LEMMA AddWatchpointKeeps == ASSUME SessionInv, AddWatchpoint PROVE Held
<1>1. host.at = "idle" /\ host' = host /\ UNCHANGED <<bps, blind, ran>>
  BY IdleIs DEF AddWatchpoint, Call
<1>2. PICK a \in {1, 2} : /\ FirstSlot(wps, a) # None
                          /\ wps' = [wps EXCEPT ![FirstSlot(wps, a)] = a]
                          /\ s' = Put(s, Dbreakc[FirstSlot(wps, a)], a)
  BY DEF AddWatchpoint
<1>3. PICK i \in Slots : i = FirstSlot(wps, a)
  BY <1>2, SlotFound
<1>4. wps' = [wps EXCEPT ![i] = IF a = 0 THEN None ELSE a] /\ s' = Put(s, Dbreakc[i], a)
  <2>1. (IF a = 0 THEN None ELSE a) = a
    BY <1>2
  <2>2. wps' = [wps EXCEPT ![i] = a] /\ s' = Put(s, Dbreakc[i], a)
    BY <1>2, <1>3
  <2> QED BY <2>1, <2>2
<1> QED BY <1>1, <1>4, WatchSet

\* A watchpoint given up.
LEMMA RemoveWatchpointKeeps == ASSUME SessionInv, RemoveWatchpoint PROVE Held
<1>1. host.at = "idle" /\ host' = host /\ UNCHANGED <<bps, blind, ran>>
  BY IdleIs DEF RemoveWatchpoint, Call
<1>2. PICK i \in Slots : wps' = [wps EXCEPT ![i] = None] /\ s' = Put(s, Dbreakc[i], 0)
  BY DEF RemoveWatchpoint
<1> DEFINE a == 0
<1>3. wps' = [wps EXCEPT ![i] = IF a = 0 THEN None ELSE a] /\ s' = Put(s, Dbreakc[i], a) /\ a \in {0, 1, 2}
  BY <1>2
<1> HIDE DEF a
<1> QED BY <1>1, <1>3, WatchSet

\* The bare resume.
LEMMA ResumeKeeps == ASSUME SessionInv, Resume PROVE Held
<1> DEFINE x == IF s.ctx = "cached" THEN "lost" ELSE s.ctx
           t == [s EXCEPT !.ctx = x]
<1>1. /\ IsSession(s) /\ host.at = "idle" /\ host' = host /\ Halted /\ UNCHANGED <<bps, wps, blind, ran>>
      /\ s' = Rfdo(t, "app")
  BY IdleIs DEF Resume, Call, SessionInv, DataInv
<1>2. Rests(s)
  BY <1>1 DEF SessionInv, RestInv
<1>3. x \in {"live", "lost"}
  BY <1>1, <1>2 DEF IsSession, Rests
<1> HIDE DEF x
<1>4. IsSession(t) /\ t.hw = s.hw /\ t.cache = s.cache /\ t.ctx = x /\ t.app = s.app
  <2>1. x \in {"live", "cached", "both", "lost"}
    BY <1>3
  <2> QED BY <1>1, <2>1, CtxSet
<1> HIDE DEF t
<1>5. IsSession(s') /\ SameProgram(t, s') /\ s'.hw.run = "app" /\ s'.hw.irq = t.hw.irq
  BY <1>1, <1>4, Released0 DEF Runs
<1>6. s'.hw.sr = s.hw.sr /\ s'.hw.ar = s.hw.ar /\ s'.cache = s.cache /\ s'.ctx = x /\ s'.app = s.app
  BY <1>4, <1>5 DEF SameProgram
<1>7. DataInv'
  BY <1>1, <1>5, <1>6 DEF SessionInv, DataInv, Agree, Halted
<1>8. RestInv'
  BY <1>5 DEF RestInv, Halted
<1>9. (Steady(s.cache))' <=> Steady(s.cache)
  BY <1>1, <1>6 DEF Steady, Watching, Watch
<1>10. SteadyInv'
  BY <1>1, <1>6, <1>9 DEF SessionInv, SteadyInv
<1>11. StepInv' /\ WaitInv' /\ CallInv'
  BY <1>1 DEF StepInv, WaitInv, CallInv
<1>12. Intact
  <2>1. x # "lost" => s.ctx = "live"
    BY <1>3 DEF x
  <2>2. ProgramState(s'.hw) = ProgramState(s.hw)
    BY <1>6 DEF ProgramState
  <2> QED BY <1>2, <1>6, <2>1, <2>2 DEF Intact, Rests, Sound, Stored
<1>13. Rearmed
  BY <1>3, <1>6 DEF Rearmed
<1>14. CountInv'
  <2>1. Agree(s.hw, s.cache, {"icount"}) => Agree(s'.hw, s'.cache, {"icount"})
    BY <1>6 DEF Agree
  <2> QED BY <1>1, <2>1, CountStays
<1> QED BY <1>7, <1>8, <1>10, <1>11, <1>12, <1>13, <1>14 DEF Held, SessionInv

-------------------------------------------------------------------------------
(* Functions called.                                                        *)

\* A special register of the core set.
SrSet(h, g, r, v) ==
  /\ IsCore(g) /\ g.run = h.run /\ g.irq = h.irq
  /\ \A x \in SR : g.sr[x] = IF x = r THEN v ELSE h.sr[x]

\* One of them set, on a core whose other ones are known.
LEMMA SrSets ==
  /\ \A h, r, v : IsCore(h) /\ Fits(r, v) => SrSet(h, SetSr(h, r, v), r, v)
  /\ \A h, v : IsCore(h) => /\ IsCore(SetVecbase(h, v)) /\ SetVecbase(h, v).sr = h.sr
                            /\ SetVecbase(h, v).run = h.run /\ SetVecbase(h, v).irq = h.irq
<1>1. ASSUME NEW h, NEW r, NEW v, IsCore(h), Fits(r, v) PROVE SrSet(h, SetSr(h, r, v), r, v)
  BY <1>1, CoreSpecial DEF SrSet
<1>2. ASSUME NEW h, NEW v, IsCore(h)
      PROVE  /\ IsCore(SetVecbase(h, v)) /\ SetVecbase(h, v).sr = h.sr
             /\ SetVecbase(h, v).run = h.run /\ SetVecbase(h, v).irq = h.irq
  BY <1>2, CoreVectors
<1> QED BY <1>1, <1>2

\* An A register of a window that need not have it: registers beyond the window wrap.
LEMMA AnyAr ==
  ASSUME NEW h, IsCore(h), NEW n, NEW v
  PROVE  IsCore(SetAr(h, n, v)) /\ SetAr(h, n, v).run = h.run /\ SetAr(h, n, v).irq = h.irq /\ SetAr(h, n, v).sr = h.sr
<1> DEFINE ar == [h.ar EXCEPT ![Canonical(n, h.sr["windowbase"])] = v]
           g == SetAr(h, n, v)
<1>1. h.ar = [k \in Phys |-> h.ar[k]]
  BY DEF IsCore
<1>2. ar = [k \in Phys |-> ar[k]]
  <2> DEFINE at == Canonical(n, h.sr["windowbase"])
  <2> HIDE DEF at
  <2>1. DOMAIN h.ar = Phys
    BY <1>1
  <2>2. [h.ar EXCEPT ![at] = v] = [k \in Phys |-> IF k = at THEN v ELSE h.ar[k]]
    BY <2>1
  <2> QED BY <2>2 DEF at
<1>3. g = [h EXCEPT !.ar = ar]
  BY DEF SetAr
<1> HIDE DEF ar, g
<1>4. g = [ar |-> ar, sr |-> h.sr, vecbase |-> h.vecbase, run |-> h.run, irq |-> h.irq]
  BY <1>3 DEF IsCore
<1>5. IsCore(g)
  BY <1>2, <1>4 DEF IsCore
<1> QED BY <1>4, <1>5 DEF g

\* A call that times out leaves a lost program.
LEMMA CallTimesOutKeeps == ASSUME SessionInv, CallTimesOut PROVE Held
<1>1. /\ IsSession(s) /\ ~Halted /\ s' = [s EXCEPT !.ctx = "lost"] /\ host' = Idle /\ host.at = "calling"
      /\ UNCHANGED <<bps, wps, blind, ran>>
  BY DEF CallTimesOut, SessionInv, DataInv
<1>2. IsSession(s') /\ s'.hw = s.hw /\ s'.cache = s.cache /\ s'.ctx = "lost"
  BY <1>1, CtxSet
<1>3. DataInv'
  BY <1>1, <1>2 DEF SessionInv, DataInv, Agree, Halted
<1>4. RestInv'
  BY <1>1, <1>2 DEF RestInv, Halted
<1>5. (Steady(s.cache))' <=> Steady(s.cache)
  BY <1>1, <1>2 DEF Steady, Watching, Watch
<1>6. SteadyInv'
  BY <1>1, <1>2, <1>5 DEF SessionInv, SteadyInv
<1>7. StepInv' /\ WaitInv' /\ CallInv'
  BY <1>1, IdleIs DEF StepInv, WaitInv, CallInv
<1>8. Intact /\ Rearmed
  BY <1>1 DEF Intact, Rearmed, Released, Halted
<1>9. CountInv'
  <2>1. Agree(s.hw, s.cache, {"icount"}) => Agree(s'.hw, s'.cache, {"icount"})
    BY <1>2 DEF Agree
  <2> QED BY <1>1, IdleIs, <2>1, CountStays
<1> QED BY <1>3, <1>4, <1>6, <1>7, <1>8, <1>9 DEF Held, SessionInv

\* A call saves the core before it changes it.
LEMMA CallFunctionKeeps == ASSUME SessionInv, CallFunction PROVE Held
<1>1. /\ IsSession(s) /\ IsCore(s.hw) /\ Halted /\ ~s.hw.irq /\ host.at = "idle" /\ UNCHANGED <<bps, wps, blind, ran>>
  BY IdleIs DEF CallFunction, Call, SessionInv, DataInv, IsSession
<1>2. Rests(s)
  BY <1>1 DEF SessionInv, RestInv
<1> DEFINE special == SetSr(SetSr(Injected(s.hw), "eps", 3), "pc", Entry)
           vectors(windowed) == IF windowed THEN SetVecbase(special, 2) ELSE special
           low(windowed) == SetAr(SetAr(vectors(windowed), 0, 80), Scratch, 81)
           args(windowed) == IF windowed THEN SetAr(low(windowed), 2, 82) ELSE low(windowed)
<1>3. PICK windowed \in BOOLEAN :
        /\ s' = Rfdo([s EXCEPT !.hw = args(windowed)], "stub")
        /\ host' = [at |-> "calling", windowed |-> windowed, before |-> s.hw, saved |-> SavedArs(s.hw, windowed)]
  BY DEF CallFunction
<1> DEFINE g == args(windowed)
           t == [s EXCEPT !.hw = g]
<1>4. Injected(s.hw) = s.hw
  BY <1>1, InjectedSame
<1>5. /\ IsCore(special) /\ special.run = s.hw.run /\ special.irq = s.hw.irq
      /\ \A r \in SR \ {"pc", "eps"} : special.sr[r] = s.hw.sr[r]
  <2>1. Fits("eps", 3) /\ Fits("pc", Entry)
    BY ProgramAssumption DEF Fits, SR, Numbers
  <2> DEFINE a == SetSr(Injected(s.hw), "eps", 3)
  <2>2. SrSet(s.hw, a, "eps", 3)
    BY <1>1, <1>4, <2>1, SrSets
  <2> HIDE DEF a
  <2>3. SrSet(a, SetSr(a, "pc", Entry), "pc", Entry)
    BY <2>1, <2>2, SrSets DEF SrSet
  <2>4. special = SetSr(a, "pc", Entry)
    BY DEF a
  <2> HIDE DEF special
  <2> QED BY <2>2, <2>3, <2>4 DEF SrSet
<1> HIDE DEF special
<1>6. IsCore(g) /\ g.run = s.hw.run /\ g.irq = s.hw.irq /\ g.sr = special.sr
  <2> DEFINE b == vectors(windowed)
             c == SetAr(b, 0, 80)
             d == SetAr(c, Scratch, 81)
  <2>0. 0 \in Phys /\ Scratch \in Phys
    BY Windows DEF Phys
  <2>1. IsCore(b) /\ b.run = s.hw.run /\ b.irq = s.hw.irq /\ b.sr = special.sr
    BY <1>5, SrSets
  <2> HIDE DEF vectors
  <2>2. IsCore(c) /\ c.run = s.hw.run /\ c.irq = s.hw.irq /\ c.sr = special.sr
    BY <2>0, <2>1, CoreSet
  <2>3. IsCore(d) /\ d.run = s.hw.run /\ d.irq = s.hw.irq /\ d.sr = special.sr
    BY <2>0, <2>2, CoreSet
  <2>4. IsCore(SetAr(d, 2, 82)) /\ SetAr(d, 2, 82).run = s.hw.run /\ SetAr(d, 2, 82).irq = s.hw.irq /\ SetAr(d, 2, 82).sr = special.sr
    BY <2>3, AnyAr
  <2>5. g = IF windowed THEN SetAr(d, 2, 82) ELSE d
    OBVIOUS
  <2> QED BY <2>3, <2>4, <2>5
<1> HIDE DEF args, g
<1>7. IsSession(t) /\ t.hw = g /\ t.cache = s.cache /\ t.ctx = s.ctx /\ t.app = s.app
  BY <1>1, <1>6, HwSet
<1>8. s' = Rfdo(t, "stub")
  BY <1>3 DEF g
<1> HIDE DEF t
<1>9. /\ IsSession(s') /\ s'.hw.run = "stub" /\ ~s'.hw.irq /\ s'.cache = s.cache /\ s'.ctx = s.ctx /\ s'.app = s.app
      /\ \A r \in SR \ {"pc", "eps"} : s'.hw.sr[r] = s.hw.sr[r]
  <2>1. IsSession(s') /\ SameProgram(t, s') /\ s'.hw.run = "stub" /\ s'.hw.irq = t.hw.irq
    BY <1>7, <1>8, Released0 DEF Runs
  <2> QED BY <1>1, <1>5, <1>6, <1>7, <2>1 DEF SameProgram
<1>10. DataInv'
  BY <1>1, <1>9, DbNames DEF SessionInv, DataInv, Agree, Halted
<1>11. RestInv'
  BY <1>3, <1>9 DEF RestInv, Halted
<1>12. (Steady(s.cache))' <=> Steady(s.cache)
  BY <1>1, <1>9 DEF Steady, Watching, Watch
<1>13. SteadyInv'
  BY <1>1, <1>9, <1>12, DbNames DEF SessionInv, SteadyInv
<1>14. StepInv' /\ WaitInv'
  BY <1>3 DEF StepInv, WaitInv
<1>15. CallInv'
  <2>1. [s' EXCEPT !.hw = s.hw] = s
    <3>1. s' = [hw |-> s'.hw, cache |-> s.cache, ctx |-> s.ctx, app |-> s.app]
      BY <1>9 DEF IsSession
    <3>2. s = [hw |-> s.hw, cache |-> s.cache, ctx |-> s.ctx, app |-> s.app]
      BY <1>1 DEF IsSession
    <3> QED BY <3>1, <3>2
  <2>2. Rests([s' EXCEPT !.hw = host'.before])
    BY <1>2, <1>3, <2>1
  <2>3. (Rests([s EXCEPT !.hw = host.before]))'
    BY <2>2 DEF Rests, Sound, Stored, GoesOn, Agree
  <2> QED BY <1>1, <1>3, <1>9, <2>3 DEF CallInv
<1>16. Intact /\ Rearmed
  BY <1>9 DEF Intact, Rearmed, Released
<1>17. CountInv'
  <2>1. Agree(s.hw, s.cache, {"icount"}) => Agree(s'.hw, s'.cache, {"icount"})
    BY <1>9 DEF Agree, SR
  <2> QED BY <1>1, <1>3, <2>1, CountStays
<1> QED BY <1>10, <1>11, <1>13, <1>14, <1>15, <1>16, <1>17 DEF Held, SessionInv

\* A call that returned puts back what it changed, or the program is lost.
LEMMA CallReturnedKeeps == ASSUME SessionInv, CallReturned PROVE Held
<1> DEFINE was == host.before
           w == host.windowed
           h == PutBack(s.hw, was, host.saved, w)
           x == IF h.ar = was.ar THEN s.ctx ELSE "lost"
<1>1. /\ IsSession(s) /\ IsCore(s.hw) /\ Halted /\ ~s.hw.irq /\ host.at = "calling" /\ host' = Idle
      /\ UNCHANGED <<bps, wps, blind, ran>>
      /\ s' = [s EXCEPT !.hw = h, !.ctx = x]
  BY DEF CallReturned, SessionInv, DataInv, IsSession
<1>2. /\ IsCore(was) /\ Rests([s EXCEPT !.hw = was])
      /\ \A r \in SR \ {"pc", "eps", "debugcause"} : s.hw.sr[r] = was.sr[r]
  BY <1>1 DEF SessionInv, CallInv
<1> DEFINE base == IF w THEN SetSr(s.hw, "windowbase", was.sr["windowbase"]) ELSE s.hw
           vectors == IF w THEN SetVecbase(base, was.vecbase) ELSE base
           a == SetSr(vectors, "pc", was.sr["pc"])
           special == SetSr(a, "eps", was.sr["eps"])
           ar == [k \in Phys |-> IF k \in DOMAIN host.saved THEN host.saved[k] ELSE special.ar[k]]
<1>3. Fits("windowbase", was.sr["windowbase"]) /\ Fits("pc", was.sr["pc"]) /\ Fits("eps", was.sr["eps"])
  BY <1>2 DEF IsCore, IsRegs, Fits, SR, Numbers
<1>4. /\ IsCore(base) /\ base.run = "halted" /\ ~base.irq
      /\ \A r \in SR \ {"pc", "eps", "debugcause"} : base.sr[r] = was.sr[r]
  <2>1. CASE w
    <3>1. SrSet(s.hw, base, "windowbase", was.sr["windowbase"])
      BY <1>1, <1>3, <2>1, SrSets
    <3> HIDE DEF base
    <3> QED BY <1>1, <1>2, <3>1 DEF SrSet, Halted
  <2>2. CASE ~w
    BY <1>1, <1>2, <2>2 DEF Halted
  <2> QED BY <2>1, <2>2
<1> HIDE DEF base
<1>5. /\ IsCore(vectors) /\ vectors.run = "halted" /\ ~vectors.irq /\ vectors.sr = base.sr
  BY <1>4, SrSets
<1> HIDE DEF vectors
<1>6. SrSet(vectors, a, "pc", was.sr["pc"])
  BY <1>3, <1>5, SrSets
<1> HIDE DEF a
<1>7. SrSet(a, special, "eps", was.sr["eps"])
  BY <1>3, <1>6, SrSets DEF SrSet
<1>8. h = [special EXCEPT !.ar = ar]
  BY DEF PutBack, base, vectors, a
<1> HIDE DEF special
<1>9. ar = [k \in Phys |-> ar[k]]
  OBVIOUS
<1> HIDE DEF ar, h
<1>10. h = [ar |-> ar, sr |-> special.sr, vecbase |-> special.vecbase, run |-> special.run, irq |-> special.irq]
  BY <1>7, <1>8 DEF SrSet, IsCore
<1>11. IsCore(h) /\ h.run = "halted" /\ ~h.irq
  BY <1>5, <1>6, <1>7, <1>9, <1>10 DEF SrSet, IsCore
<1>12. \A r \in SR \ {"debugcause"} : h.sr[r] = was.sr[r]
  BY <1>4, <1>5, <1>6, <1>7, <1>10 DEF SrSet
<1>13. x \in {"live", "cached", "both", "lost"}
  BY <1>1 DEF IsSession
<1> HIDE DEF x
<1>14. IsSession(s') /\ s'.hw = h /\ s'.cache = s.cache /\ s'.ctx = x /\ s'.app = s.app
  <2> DEFINE t == [s EXCEPT !.hw = h]
  <2>1. IsSession(t) /\ t.hw = h /\ t.cache = s.cache /\ t.ctx = s.ctx /\ t.app = s.app
    BY <1>1, <1>11, HwSet
  <2>2. s' = [t EXCEPT !.ctx = x]
    BY <1>1
  <2> HIDE DEF t
  <2> QED BY <1>13, <2>1, <2>2, CtxSet
<1>15. DataInv'
  <2>1. \A r \in DbRegs : s'.hw.sr[r] = s.hw.sr[r]
    BY <1>2, <1>12, <1>14, DbNames
  <2> QED BY <1>1, <1>11, <1>14, <2>1 DEF SessionInv, DataInv, Agree, Halted
<1>16. Rests(s')
  <2>1. CASE x = "lost"
    BY <1>14, <2>1 DEF Rests, Sound, Stored, GoesOn
  <2>2. CASE x # "lost"
    <3> DEFINE t == [s EXCEPT !.hw = was]
    <3>1. IsSession(t) /\ t.hw = was /\ t.cache = s.cache /\ t.ctx = s.ctx /\ t.app = s.app
      BY <1>1, <1>2, HwSet
    <3>2. Rests(t)
      BY <1>2
    <3> HIDE DEF t
    <3>3. x = s.ctx /\ h.ar = was.ar
      BY <2>2 DEF x
    <3>4. SameButCause(t, s')
      BY <1>12, <1>14, <3>1, <3>3 DEF SameButCause
    <3> QED BY <3>2, <3>4, SameSoundBut
  <2> QED BY <2>1, <2>2
<1>17. RestInv'
  <2>1. (Rests(s))'
    BY <1>16 DEF Rests, Sound, Stored, GoesOn, Agree
  <2> QED BY <1>11, <1>14, <2>1 DEF RestInv
<1>18. (Steady(s.cache))' <=> Steady(s.cache)
  BY <1>1, <1>14 DEF Steady, Watching, Watch
<1>19. s'.hw.sr["icountlevel"] = s.hw.sr["icountlevel"]
  BY <1>2, <1>12, <1>14, DbNames
<1>20. SteadyInv'
  BY <1>1, <1>14, <1>18, <1>19 DEF SessionInv, SteadyInv
<1>21. StepInv' /\ WaitInv' /\ CallInv'
  BY <1>1, IdleIs DEF StepInv, WaitInv, CallInv
<1>22. Intact /\ Rearmed
  BY <1>11, <1>14 DEF Intact, Rearmed, Released
<1>23. CountInv'
  <2>1. s'.hw.sr["icount"] = s.hw.sr["icount"]
    BY <1>2, <1>12, <1>14 DEF SR
  <2>2. Agree(s.hw, s.cache, {"icount"}) => Agree(s'.hw, s'.cache, {"icount"})
    BY <1>14, <2>1 DEF Agree
  <2> QED BY <1>1, <2>2, IdleIs, CountStays
<1> QED BY <1>15, <1>17, <1>20, <1>21, <1>22, <1>23 DEF Held, SessionInv

-------------------------------------------------------------------------------
(* Algorithms.                                                              *)

\* A change of the cache that marks what it changes.
Marks(c, d) ==
  /\ c.dsr \subseteq d.dsr
  /\ \A r \in SR \ {"debugcause"} : r \notin d.dsr => d.sr[r] = c.sr[r]
  /\ \A r \in DbRegs \cup {"icountlevel"} : d.sr[r] = c.sr[r]

\* A cache with one register set.
CacheIs(c, d, r, v) ==
  /\ IsCache(d) /\ \A x \in SR : d.sr[x] = IF x = r THEN v ELSE c.sr[x]
  /\ d.dsr = IF c.sr[r] = v THEN c.dsr ELSE c.dsr \cup {r}

\* What SetValue and RegSet make.
LEMMA CacheSets ==
  ASSUME NEW c, IsCache(c), NEW r, NEW v, Fits(r, v), r # "debugcause"
  PROVE  CacheIs(c, RegSet(c, r, v), r, v)
BY CacheSet, SMTT(30) DEF CacheIs

\* A register set on a marked cache.
LEMMA MarksSet ==
  ASSUME NEW c, IsCache(c), NEW r, NEW v, Fits(r, v), r \notin DbRegs \cup {"icountlevel", "debugcause"}
  PROVE  /\ IsCache(RegSet(c, r, v)) /\ Marks(c, RegSet(c, r, v))
         /\ IsCache(SetValue(c, r, v)) /\ Marks(c, SetValue(c, r, v))
<1>0. DbRegs \cup {"icountlevel"} \subseteq SR /\ r \in SR
  BY DbNames DEF Fits
<1>1. IsCache(RegSet(c, r, v)) /\ Marks(c, RegSet(c, r, v))
  <2> DEFINE d == RegSet(c, r, v)
  <2>1. /\ IsCache(d) /\ \A x \in SR : d.sr[x] = IF x = r THEN v ELSE c.sr[x]
        /\ d.dsr = IF c.sr[r] = v THEN c.dsr ELSE c.dsr \cup {r}
    <3>1. r # "debugcause"
      OBVIOUS
    <3>2. CacheIs(c, d, r, v)
      BY <3>1, CacheSets
    <3> QED BY <3>2 DEF CacheIs
  <2> HIDE DEF d
  <2>2. Marks(c, d)
    BY <1>0, <2>1 DEF Marks
  <2> QED BY <2>1, <2>2 DEF d
<1>2. IsCache(SetValue(c, r, v)) /\ Marks(c, SetValue(c, r, v))
  <2> DEFINE d == SetValue(c, r, v)
  <2>1. /\ IsCache(d) /\ \A x \in SR : d.sr[x] = IF x = r THEN v ELSE c.sr[x]
        /\ d.dsr = c.dsr \cup {r}
    BY ValueSet
  <2> HIDE DEF d
  <2>2. Marks(c, d)
    BY <1>0, <2>1 DEF Marks
  <2> QED BY <2>1, <2>2 DEF d
<1> QED BY <1>1, <1>2

\* Marks upon marks.
LEMMA MarksTwice ==
  ASSUME NEW c, NEW d, NEW e, Marks(c, d), Marks(d, e) PROVE Marks(c, e)
BY DEF Marks

\* The parameters set.
LEMMA ParamsSet ==
  ASSUME NEW c, IsCache(c), NEW regs, NEW same, NEW ps, Fits("eps", ps)
  PROVE  IsCache(SetParams(c, regs, same, ps)) /\ Marks(c, SetParams(c, regs, same, ps))
<1> DEFINE b == SetValue(c, "windowbase", 0)
           c1 == SetValue(b, "eps", ps)
           a == [n \in Seen |-> IF n \in regs \ same THEN 70 + n ELSE c1.a[n]]
           d == SetParams(c, regs, same, ps)
<1>1. Fits("windowbase", 0) /\ {"windowbase", "eps"} \cap (DbRegs \cup {"icountlevel", "debugcause"}) = {}
  BY DEF Fits, SR, Numbers, DbRegs
<1>2. IsCache(b) /\ Marks(c, b)
  BY <1>1, MarksSet
<1> HIDE DEF b
<1>3. IsCache(c1) /\ Marks(c, c1)
  BY <1>1, <1>2, MarksSet, MarksTwice
<1>4. d = [c1 EXCEPT !.a = a, !.da = @ \cup regs]
  BY DEF SetParams, b
<1>5. a = [n \in Seen |-> a[n]]
  OBVIOUS
<1> HIDE DEF c1, a, d
<1>6. d = [sr |-> c1.sr, ar |-> c1.ar, a |-> a, dsr |-> c1.dsr, dar |-> c1.dar, da |-> c1.da \cup regs]
  <2>1. PICK e : e = [c1 EXCEPT !.a = a]
    OBVIOUS
  <2>2. e = [sr |-> c1.sr, ar |-> c1.ar, a |-> a, dsr |-> c1.dsr, dar |-> c1.dar, da |-> c1.da]
    BY <1>3, <2>1 DEF IsCache
  <2>3. d = [e EXCEPT !.da = e.da \cup regs]
    BY <1>3, <1>4, <2>1 DEF IsCache
  <2> QED BY <2>2, <2>3
<1>7. IsCache(d)
  BY <1>3, <1>5, <1>6 DEF IsCache
<1>8. Marks(c, d)
  BY <1>3, <1>6 DEF Marks
<1> QED BY <1>7, <1>8 DEF d

\* An algorithm starts on a cache backed up as it was.
LEMMA StartAlgorithmKeeps == ASSUME SessionInv, StartAlgorithm PROVE Held
<1>1. /\ IsSession(s) /\ IsCore(s.hw) /\ IsCache(s.cache) /\ Halted /\ ~s.hw.irq /\ host.at = "idle"
      /\ UNCHANGED <<bps, wps, blind, ran>>
  BY IdleIs DEF StartAlgorithm, Call, SessionInv, DataInv, IsSession
<1> DEFINE lowered == Put(s, "eps", 3)
           ps(same) == IF same = {} THEN 2 ELSE s.cache.sr["eps"]
           param(regs, same) == [lowered EXCEPT !.cache = SetParams(@, regs, same, ps(same))]
           based(regs, same) == [param(regs, same) EXCEPT !.hw = SetVecbase(@, 1)]
           gone(regs, same) == Prepare(based(regs, same), FALSE, Entry, TRUE).t
<1>2. PICK regs \in {Params, Params \cup {Scratch}}, same \in {{}, {2}} :
        /\ s' = Rfdo([gone(regs, same) EXCEPT !.ctx = "lost"], "stub")
        /\ host' = [at |-> "waiting", backup |-> s.cache, regs |-> regs,
                     known |-> s.ctx \in {"cached", "both"}, forced |-> FALSE]
  BY DEF StartAlgorithm
<1> DEFINE cA == RegSet(s.cache, "eps", 3)
           cB == SetParams(cA, regs, same, ps(same))
           cC == RegSet(cB, "pc", Entry)
           tB == param(regs, same)
           tH == based(regs, same)
           tC == WithCache(tH, cC)
           u == Armed(tC)
           v == [u EXCEPT !.ctx = "lost"]
<1>3. /\ Fits("eps", 3) /\ Fits("pc", Entry) /\ Entry # None /\ Fits("eps", ps(same))
      /\ {"eps", "pc"} \cap (DbRegs \cup {"icountlevel", "debugcause"}) = {}
  <2>1. Fits("eps", 2) /\ Fits("eps", s.cache.sr["eps"])
    BY <1>1 DEF IsCache, IsRegs, Fits, SR, Numbers
  <2> QED BY <2>1, ProgramAssumption DEF Fits, SR, Numbers, DbRegs, None
<1> HIDE DEF ps
<1>4. IsCache(cA) /\ Marks(s.cache, cA)
  BY <1>1, <1>3, MarksSet
<1>5. lowered = WithCache(s, cA)
  BY DEF Put, WithCache
<1> HIDE DEF cA, lowered
<1>6. IsSession(lowered) /\ lowered.hw = s.hw /\ lowered.cache = cA
  BY <1>1, <1>4, <1>5, CacheChanged
<1>7. IsCache(cB) /\ Marks(s.cache, cB)
  BY <1>3, <1>4, ParamsSet, MarksTwice
<1>8. tB = WithCache(lowered, cB)
  BY <1>6 DEF WithCache
<1> HIDE DEF cB, tB
<1>9. IsSession(tB) /\ tB.hw = s.hw /\ tB.cache = cB
  BY <1>6, <1>7, <1>8, CacheChanged
<1>10. /\ IsCore(SetVecbase(s.hw, 1)) /\ SetVecbase(s.hw, 1).sr = s.hw.sr
       /\ SetVecbase(s.hw, 1).run = s.hw.run /\ SetVecbase(s.hw, 1).irq = s.hw.irq
  BY <1>1, SrSets
<1>11. tH = [tB EXCEPT !.hw = SetVecbase(s.hw, 1)]
  BY <1>9 DEF tB
<1> HIDE DEF tH
<1>12. IsSession(tH) /\ tH.hw.sr = s.hw.sr /\ tH.hw.irq = s.hw.irq /\ tH.cache = cB
  BY <1>9, <1>10, <1>11, HwSet
<1>13. IsCache(cC) /\ Marks(s.cache, cC)
  BY <1>3, <1>7, MarksSet, MarksTwice
<1> HIDE DEF cC
<1>14. IsSession(tC) /\ tC.hw = tH.hw /\ tC.cache = cC
  BY <1>12, <1>13, CacheChanged
<1>15. gone(regs, same) = u
  <2>1. gone(regs, same) = Straight(tH, FALSE, Entry)
    BY <1>3 DEF Prepare, tH
  <2>2. Straight(tH, FALSE, Entry) = Armed(Put(tH, "pc", Entry))
    BY <1>3 DEF Straight
  <2>3. Put(tH, "pc", Entry) = tC
    BY <1>12 DEF Put, WithCache, cC
  <2> QED BY <2>1, <2>2, <2>3
<1> HIDE DEF tC
<1>16. Flushes(tC, u) /\ \A x \in SR \ IbreakRegs : u.cache.sr[x] = tC.cache.sr[x]
  BY <1>14, ArmedSound
<1>17. s' = Rfdo(v, "stub")
  BY <1>2, <1>15
<1> HIDE DEF gone, u
<1>18. IsSession(v) /\ v.hw = u.hw /\ v.cache = u.cache /\ v.ctx = "lost" /\ v.app = u.app
  BY <1>16, CtxSet DEF Flushes
<1> HIDE DEF v
<1>19. /\ IsSession(s') /\ s'.hw.sr = u.hw.sr /\ s'.cache = u.cache /\ s'.ctx = "lost" /\ s'.hw.run = "stub"
  <2>1. IsSession(s') /\ SameProgram(v, s') /\ s'.hw.run = "stub"
    BY <1>17, <1>18, Released0 DEF Runs
  <2> QED BY <1>18, <2>1 DEF SameProgram
<1>20. \A r \in DbRegs \cup {"icountlevel"} : s'.cache.sr[r] = s.cache.sr[r]
  BY <1>13, <1>14, <1>16, <1>19, DbNames DEF Marks
<1>21. \A r \in DbRegs \cup {"icountlevel"} :
         (r \notin s.cache.dsr => s.hw.sr[r] = s.cache.sr[r]) => s'.hw.sr[r] = s.cache.sr[r]
  <2> SUFFICES ASSUME NEW r \in DbRegs \cup {"icountlevel"}, r \notin s.cache.dsr => s.hw.sr[r] = s.cache.sr[r]
               PROVE  s'.hw.sr[r] = s.cache.sr[r]
    OBVIOUS
  <2>1. r \in SR \ {"debugcause"}
    BY DbNames
  <2>2. r \notin cC.dsr => tC.hw.sr[r] = cC.sr[r]
    BY <1>12, <1>13, <1>14, <2>1 DEF Marks
  <2>3. u.hw.sr[r] = u.cache.sr[r]
    BY <1>14, <1>16, <2>1, <2>2 DEF Flushes, Flushed
  <2> QED BY <1>19, <1>20, <2>3
<1>22. DataInv'
  <2>1. Tidy(s'.cache)
    BY <1>16, <1>19 DEF Flushes, Flushed, Tidy
  <2>2. Agree(s'.hw, s'.cache, DbRegs)
    BY <1>20, <1>21 DEF SessionInv, DataInv, Agree
  <2> QED BY <1>1, <1>19, <2>1, <2>2 DEF SessionInv, DataInv, Agree, Halted
<1>23. RestInv'
  BY <1>19 DEF RestInv, Halted
<1>24. (Steady(host.backup))' <=> Steady(s.cache)
  BY <1>1, <1>2 DEF Steady, Watching, Watch
<1>25. (Steady(s.cache))' <=> Steady(s.cache)
  BY <1>1, <1>20, DbNames DEF Steady, Watching, Watch
<1>26. SteadyInv'
  <2> SUFFICES ASSUME ~blind'
               PROVE  (Steady(s.cache))' /\ s'.hw.sr["icountlevel"] = 0
    BY DEF SteadyInv
  <2>1. Steady(s.cache) /\ s.hw.sr["icountlevel"] = 0
    BY <1>1 DEF SessionInv, SteadyInv
  <2>2. s'.hw.sr["icountlevel"] = 0
    BY <1>21, <2>1 DEF Steady
  <2> QED BY <1>25, <2>1, <2>2
<1>27. StepInv' /\ CallInv'
  BY <1>2 DEF StepInv, CallInv
<1>28. WaitInv'
  <2>1. ~blind' => Steady(s.cache)
    BY <1>1 DEF SessionInv, SteadyInv
  <2>2. host' = [at |-> "waiting", backup |-> host'.backup, regs |-> host'.regs, known |-> host'.known,
                 forced |-> host'.forced] /\ host'.backup = s.cache
    BY <1>2
  <2> QED BY <1>1, <1>19, <1>24, <2>1, <2>2 DEF WaitInv, IsCache, IsRegs
<1>29. Intact /\ Rearmed
  BY <1>19 DEF Intact, Rearmed, Released
<1>30. CountInv'
  <2>1. ASSUME Agree(s.hw, s.cache, {"icount"}) PROVE Agree(s'.hw, s'.cache, {"icount"})
    <3>1. "icount" \in SR \ {"debugcause"}
      BY DEF SR
    <3>2. "icount" \notin cC.dsr => tC.hw.sr["icount"] = cC.sr["icount"]
      BY <1>12, <1>13, <1>14, <2>1, <3>1 DEF Marks, Agree
    <3>3. u.hw.sr["icount"] = u.cache.sr["icount"]
      BY <1>14, <1>16, <3>1, <3>2 DEF Flushes, Flushed
    <3> QED BY <1>19, <3>3 DEF Agree
  <2> QED BY <1>1, <1>2, <2>1, CountStays
<1> QED BY <1>22, <1>23, <1>26, <1>27, <1>28, <1>29, <1>30 DEF Held, SessionInv

\* What the cache holds when the algorithm has stopped, and what it held before.
LEMMA Collected0 ==
  ASSUME NEW t, IsSession(t), NEW regs
  PROVE  LET u == Collected(t, regs)
         IN /\ IsSession(u) /\ u.hw = t.hw /\ u.ctx = t.ctx /\ u.app = t.app
            /\ \A r \in SR \ {"pc"} : u.cache.sr[r] = t.cache.sr[r]
            /\ u.cache.dsr = t.cache.dsr \ {"pc"}
<1> DEFINE h == Injected(t.hw)
           c == t.cache
           f == With(c.sr, "pc", h.sr["pc"])
           a == [c.a EXCEPT ![0] = LiveA(h, 0)]
           d == [sr |-> f, ar |-> c.ar, a |-> a, dsr |-> c.dsr \ {"pc"}, dar |-> c.dar, da |-> c.da \ {0}]
           u == Collected(t, regs)
<1>1. IsCore(t.hw) /\ IsCache(c) /\ IsProgram(t.app)
  BY DEF IsSession
<1>2. h = t.hw
  BY <1>1, InjectedSame
<1>3. Fits("pc", h.sr["pc"]) /\ "pc" \in SR
  BY <1>1, <1>2 DEF Fits, SR, Numbers, IsCore, IsRegs
<1>4. IsRegs(f) /\ \A r \in SR : f[r] = IF r = "pc" THEN h.sr["pc"] ELSE c.sr[r]
  BY <1>1, <1>3, SpecialSet DEF IsCache
<1>5. a = [n \in Seen |-> a[n]]
  <2>1. c.a = [n \in Seen |-> c.a[n]]
    BY <1>1 DEF IsCache
  <2>2. DOMAIN c.a = Seen
    BY <2>1
  <2>3. DOMAIN a = Seen
    BY <2>2
  <2> QED BY <2>2, <2>3
<1>6. u = [hw |-> h, cache |-> d, ctx |-> t.ctx, app |-> t.app]
  <2>1. PICK t1 : t1 = [t EXCEPT !.hw = h]
    OBVIOUS
  <2>2. d = [sr |-> [c.sr EXCEPT !["pc"] = h.sr["pc"]], dsr |-> c.dsr \ {"pc"}, ar |-> c.ar, dar |-> c.dar,
             a |-> [c.a EXCEPT ![0] = LiveA(h, 0)], da |-> c.da \ {0}]
    BY DEF With
  <2>3. u = [t EXCEPT !.hw = h, !.cache = d]
    BY <2>2 DEF Collected
  <2> HIDE DEF h, u, d
  <2>4. t1 = [hw |-> h, cache |-> t.cache, ctx |-> t.ctx, app |-> t.app]
    BY <2>1 DEF IsSession
  <2>5. u = [t1 EXCEPT !.cache = d]
    BY <2>1, <2>3
  <2> QED BY <2>4, <2>5
<1> HIDE DEF a, f, u
<1>7. IsCache(d)
  BY <1>1, <1>4, <1>5 DEF IsCache
<1>8. IsSession(u)
  BY <1>1, <1>2, <1>6, <1>7 DEF IsSession
<1> QED BY <1>2, <1>4, <1>6, <1>8 DEF u

\* The cache put back after an algorithm: the values of the backup, and dirty what changed.
LEMMA Restored0 ==
  ASSUME NEW now, IsCache(now), NEW was, IsCache(was)
  PROVE  LET d == Restored(now, was)
         IN /\ IsCache(d) /\ d.sr = was.sr
            /\ d.dsr = (now.dsr \cup {r \in SR : now.sr[r] # was.sr[r]}) \ {"debugcause"}
<1> DEFINE dsr == (now.dsr \cup {r \in SR : now.sr[r] # was.sr[r]}) \ {"debugcause"}
           dar == now.dar \cup {k \in Phys : now.ar[k] # was.ar[k]}
           da == now.da \cup {n \in Seen : now.a[n] # was.a[n]}
           d == Restored(now, was)
<1>1. d = [was EXCEPT !.dsr = dsr, !.dar = dar, !.da = da]
  BY DEF Restored
<1>2. dsr \subseteq SR \ {"debugcause"}
  BY DEF IsCache
<1> HIDE DEF dsr, dar, da, d
<1>3. d = [sr |-> was.sr, ar |-> was.ar, a |-> was.a, dsr |-> dsr, dar |-> dar, da |-> da]
  <2>1. PICK d1 : d1 = [was EXCEPT !.dsr = dsr]
    OBVIOUS
  <2>2. PICK d2 : d2 = [d1 EXCEPT !.dar = dar]
    OBVIOUS
  <2>3. d1 = [sr |-> was.sr, ar |-> was.ar, a |-> was.a, dsr |-> dsr, dar |-> was.dar, da |-> was.da]
    BY <2>1 DEF IsCache
  <2>4. d2 = [sr |-> was.sr, ar |-> was.ar, a |-> was.a, dsr |-> dsr, dar |-> dar, da |-> was.da]
    BY <2>2, <2>3
  <2>5. d = [d2 EXCEPT !.da = da]
    BY <1>1, <2>1, <2>2
  <2> QED BY <2>4, <2>5
<1>4. IsCache(d)
  BY <1>2, <1>3 DEF IsCache
<1> QED BY <1>3, <1>4 DEF d, dsr

\* An algorithm that stopped: watchpoints are back, its registers too, its program is
\* as lost as it was when it began.
LEMMA AlgorithmStoppedKeeps == ASSUME SessionInv, AlgorithmStopped PROVE Held
<1> DEFINE was == host.backup
           tA == Collected(s, host.regs)
           now == tA.cache
           d == Restored(now, was)
           tB == WithCache(tA, d)
           e == RegSet(d, "eps", was.sr["eps"])
           tC == WithCache(tB, e)
<1>1. /\ IsSession(s) /\ IsCore(s.hw) /\ Halted /\ ~s.hw.irq /\ host.at = "waiting" /\ host' = Idle
      /\ s.ctx = "lost" /\ IsCache(was) /\ (~blind => Steady(was))
      /\ UNCHANGED <<bps, wps, blind, ran>>
  BY DEF AlgorithmStopped, SessionInv, DataInv, WaitInv, IsSession
<1>2. s' = WriteDirty(tC)
  BY DEF AlgorithmStopped, Put, WithCache
<1>3. /\ IsSession(tA) /\ tA.hw = s.hw /\ tA.ctx = "lost" /\ IsCache(now)
      /\ \A r \in SR \ {"pc"} : now.sr[r] = s.cache.sr[r]
      /\ now.dsr = s.cache.dsr \ {"pc"}
  <2>1. IsSession(tA) /\ tA.hw = s.hw /\ tA.ctx = "lost"
    BY <1>1, Collected0
  <2>2. \A r \in SR \ {"pc"} : tA.cache.sr[r] = s.cache.sr[r]
    BY <1>1, Collected0
  <2>3. tA.cache.dsr = s.cache.dsr \ {"pc"}
    BY <1>1, Collected0
  <2> QED BY <2>1, <2>2, <2>3 DEF IsSession
<1> HIDE DEF tA
<1>4. /\ IsCache(d) /\ d.sr = was.sr
      /\ d.dsr = (now.dsr \cup {r \in SR : now.sr[r] # was.sr[r]}) \ {"debugcause"}
  <2>0. IsCache(now) /\ IsCache(was)
    BY <1>1, <1>3
  <2> HIDE DEF now, was
  <2>1. IsCache(d)
    BY <2>0, Restored0
  <2>2. d.sr = was.sr
    BY <2>0, Restored0
  <2>3. d.dsr = (now.dsr \cup {r \in SR : now.sr[r] # was.sr[r]}) \ {"debugcause"}
    BY <2>0, Restored0
  <2> QED BY <2>1, <2>2, <2>3
<1> HIDE DEF d
<1>5. IsSession(tB) /\ tB.hw = s.hw /\ tB.cache = d /\ tB.ctx = "lost"
  BY <1>3, <1>4, CacheChanged
<1> HIDE DEF tB
<1>6. Fits("eps", was.sr["eps"]) /\ "eps" \notin DbRegs \cup {"icountlevel", "debugcause"}
  BY DEF Fits, SR, Numbers, DbRegs
<1>7. IsCache(e) /\ Marks(d, e)
  BY <1>4, <1>6, MarksSet
<1> HIDE DEF e
<1>8. IsSession(tC) /\ tC.hw = s.hw /\ tC.cache = e /\ tC.ctx = "lost"
  BY <1>5, <1>7, CacheChanged
<1> HIDE DEF tC
<1> DEFINE g == Specials(tC.hw, tC.cache)
<1>9. /\ IsSession(s') /\ s'.ctx = AfterWrite(tC) /\ s'.hw.sr = g.sr
      /\ s'.hw.run = s.hw.run /\ s'.hw.irq = s.hw.irq /\ s'.cache.sr = e.sr
      /\ s'.cache.dsr = {} /\ s'.cache.da = {} /\ s'.cache.dar = {}
  BY <1>2, <1>8, Written0
<1>10. \A r \in SR : g.sr[r] = IF r \in e.dsr THEN e.sr[r] ELSE s.hw.sr[r]
  BY <1>1, <1>7, <1>8, SpecialsWritten
<1> HIDE DEF g
<1>11. s'.ctx = "lost"
  BY <1>8, <1>9 DEF AfterWrite
<1>12. \A r \in DbRegs \cup {"icountlevel"} : e.sr[r] = was.sr[r]
  BY <1>4, <1>7 DEF Marks
<1>13. ASSUME NEW r \in DbRegs \cup {"icountlevel"}, r \notin s.cache.dsr => s.hw.sr[r] = s.cache.sr[r]
       PROVE  s'.hw.sr[r] = was.sr[r]
  <2>1. r \in SR \ {"debugcause", "pc"}
    BY DbNames
  <2>2. CASE r \in e.dsr
    BY <1>9, <1>10, <1>12, <2>1, <2>2
  <2>3. CASE r \notin e.dsr
    <3>1. r \notin d.dsr
      BY <1>7, <2>3 DEF Marks
    <3>2. r \notin now.dsr /\ now.sr[r] = was.sr[r]
      BY <1>4, <2>1, <3>1
    <3>3. s.hw.sr[r] = was.sr[r]
      BY <1>3, <1>13, <2>1, <3>2
    <3> QED BY <1>9, <1>10, <2>1, <2>3, <3>3
  <2> QED BY <2>2, <2>3
<1>14. DataInv'
  <2>1. Agree(s'.hw, s'.cache, DbRegs)
    <3>1. \A r \in DbRegs : r \notin s.cache.dsr => s.hw.sr[r] = s.cache.sr[r]
      BY DEF SessionInv, DataInv, Agree
    <3> QED BY <1>9, <1>12, <1>13, <3>1 DEF Agree
  <2> QED BY <1>1, <1>9, <2>1 DEF SessionInv, DataInv, Agree, Halted, Tidy
<1>15. RestInv'
  BY <1>1, <1>9, <1>11 DEF RestInv, Halted, Rests, Sound, Stored, GoesOn
<1>16. SteadyInv'
  <2> SUFFICES ASSUME ~blind'
               PROVE  (Steady(s.cache))' /\ s'.hw.sr["icountlevel"] = 0
    BY DEF SteadyInv
  <2>1. Steady(was) /\ Steady(s.cache) /\ s.hw.sr["icountlevel"] = 0
    BY <1>1 DEF SessionInv, SteadyInv
  <2>2. s'.hw.sr["icountlevel"] = 0
    BY <1>13, <2>1 DEF Steady
  <2>3. \A i \in Slots : s'.cache.sr[Dbreakc[i]] = Watch(i)
    BY <1>9, <1>12, <2>1, DbNames DEF Steady, Watching
  <2>4. s'.cache.sr["icountlevel"] = 0
    BY <1>9, <1>12, <2>1 DEF Steady
  <2>5. \A i : Watch(i)' = Watch(i)
    BY <1>1 DEF Watch
  <2> QED BY <2>2, <2>3, <2>4, <2>5 DEF Steady, Watching
<1>17. StepInv' /\ WaitInv' /\ CallInv'
  BY <1>1, IdleIs DEF StepInv, WaitInv, CallInv
<1>18. Intact /\ Rearmed
  BY <1>1, <1>9 DEF Intact, Rearmed, Released, Halted
<1>19. CountInv'
  <2>1. ASSUME Agree(s.hw, s.cache, {"icount"}) PROVE Agree(s'.hw, s'.cache, {"icount"})
    <3> DEFINE r == "icount"
    <3>1. r \in SR \ {"debugcause", "pc"}
      BY DEF SR
    <3>2. CASE r \in e.dsr
      <4>1. s'.hw.sr[r] = s'.cache.sr[r]
        BY <1>9, <1>10, <3>1, <3>2
      <4> QED BY <4>1 DEF Agree
    <3>3. CASE r \notin e.dsr
      <4>1. r \notin d.dsr /\ e.sr[r] = was.sr[r]
        BY <1>4, <1>7, <3>1, <3>3 DEF Marks
      <4>2. r \notin now.dsr /\ now.sr[r] = was.sr[r]
        BY <1>4, <3>1, <4>1
      <4>3. s.hw.sr[r] = was.sr[r]
        BY <1>3, <2>1, <3>1, <4>2 DEF Agree
      <4>4. s'.hw.sr[r] = s'.cache.sr[r]
        BY <1>9, <1>10, <3>1, <3>3, <4>1, <4>3
      <4> QED BY <4>4 DEF Agree
    <3> QED BY <3>2, <3>3
  <2> QED BY <1>1, <2>1, IdleIs, CountStays
<1> QED BY <1>14, <1>15, <1>16, <1>17, <1>18, <1>19 DEF Held, SessionInv

-------------------------------------------------------------------------------
(* Resumes and steps that begin.                                            *)

\* The program goes on with what has been written back.
Left(u, v) ==
  /\ IsSession(v) /\ Tidy(v.cache) /\ v.hw.run = "app" /\ v.cache = u.cache /\ v.hw.sr = u.hw.sr
  /\ v.ctx = u.ctx /\ v.cache.dsr = {} /\ (v.ctx # "lost" => ProgramState(v.hw) = v.app)

\* RFDO of a session on its way.
LEMMA Leaves ==
  ASSUME NEW t, NEW u, Goes(t, u)
  PROVE  Left(u, Rfdo(u, "app"))
<1> DEFINE v == Rfdo(u, "app")
<1>1. /\ IsSession(u) /\ Sound(u) /\ u.ctx # "cached"
      /\ u.cache.dsr = {} /\ u.cache.dar = {} /\ u.cache.da = {}
  BY DEF Goes, Flushes, Flushed
<1>2. IsSession(v) /\ SameProgram(u, v) /\ v.hw.run = "app"
  BY <1>1, Released0 DEF Runs
<1> HIDE DEF v
<1>3. v.ctx # "lost" => ProgramState(v.hw) = v.app
  <2>1. Sound(v)
    BY <1>1, <1>2, SameSound
  <2> QED BY <1>1, <1>2, <2>1 DEF Sound, Stored, SameProgram, IsSession
<1>4. Tidy(v.cache)
  BY <1>1, <1>2 DEF SameProgram, Tidy
<1> QED BY <1>1, <1>2, <1>3, <1>4 DEF Left, SameProgram, v

\* A resume that needs no step, or has done it.
LEMMA Departs ==
  ASSUME SessionInv, NEW t, NEW u, Goes(t, u), s' = Rfdo(u, "app"), host' = Idle,
         UNCHANGED <<bps, wps, blind>>, ran' = ran,
         \A r \in DbRegs \cup {"icountlevel"} : u.cache.sr[r] = t.cache.sr[r],
         Agree(t.hw, t.cache, DbRegs),
         ~blind => Steady(t.cache) /\ t.hw.sr["icountlevel"] = 0,
         ~blind => Agree(t.hw, t.cache, {"icount"}),
         t.ctx \in {"cached", "both"} => Agree(t.hw, t.cache, SR \ {"debugcause", "cpenable"})
  PROVE  Held
<1>1. Left(u, s')
  BY Leaves
<1>2. Flushed(t, u) /\ BreaksIn(u.cache) /\ (u.ctx = "both" => t.ctx \in {"cached", "both"})
  BY DEF Goes, Flushes
<1>3. DataInv'
  <2>1. \A r \in DbRegs : u.hw.sr[r] = u.cache.sr[r]
    BY <1>2, DbNames DEF Agree, Flushed
  <2> QED BY <1>1, <2>1 DEF SessionInv, DataInv, Agree, Left, Halted
<1>4. RestInv'
  BY <1>1 DEF RestInv, Halted, Left
<1>5. SteadyInv'
  <2> SUFFICES ASSUME ~blind'
               PROVE  (Steady(s.cache))' /\ s'.hw.sr["icountlevel"] = 0
    BY DEF SteadyInv
  <2>1. Steady(t.cache) /\ t.hw.sr["icountlevel"] = 0
    OBVIOUS
  <2>2. u.cache.sr["icountlevel"] = 0 /\ \A i \in Slots : u.cache.sr[Dbreakc[i]] = Watch(i)
    BY <2>1, DbNames DEF Steady, Watching
  <2>3. u.hw.sr["icountlevel"] = u.cache.sr["icountlevel"]
    BY <1>2, <2>1, DbNames DEF Flushed, Steady
  <2>4. \A i : Watch(i)' = Watch(i)
    BY DEF Watch
  <2> QED BY <1>1, <2>2, <2>3, <2>4 DEF Left, Steady, Watching
<1>6. StepInv' /\ WaitInv' /\ CallInv'
  BY IdleIs DEF StepInv, WaitInv, CallInv
<1>7. Intact
  BY <1>1 DEF Left, Intact
<1>8. Rearmed
  <2> SUFFICES ASSUME s'.ctx = "both", ~blind'
               PROVE  LET h == s'.hw
                      IN /\ h.sr["ibreakenable"] = Occupied
                         /\ \A i \in Occupied : h.sr[Ibreaka[i]] = bps[i]
                         /\ \A i \in Slots : h.sr[Dbreakc[i]] = IF wps[i] = None THEN 0 ELSE wps[i]
                         /\ h.sr["icountlevel"] = 0
    BY DEF Rearmed
  <2>1. Agree(t.hw, t.cache, SR \ {"debugcause", "cpenable"}) /\ Steady(t.cache)
    BY <1>1, <1>2 DEF Left
  <2>2. \A r \in SR \ {"debugcause", "cpenable"} : s'.hw.sr[r] = u.cache.sr[r]
    BY <1>1, <1>2, <2>1 DEF Flushed, Agree, Left
  <2>3. {"ibreakenable", "ibreaka0", "ibreaka1"} \subseteq SR \ {"debugcause", "cpenable"}
    BY DEF SR
  <2>4. \A i \in Occupied : Ibreaka[i] \in SR \ {"debugcause", "cpenable"}
    BY <2>3 DEF Occupied, Slots, Ibreaka
  <2>5. s'.hw.sr["ibreakenable"] = Occupied /\ \A i \in Occupied : s'.hw.sr[Ibreaka[i]] = bps[i]
    BY <1>2, <2>2, <2>3, <2>4 DEF BreaksIn
  <2>6. \A i \in Slots : s'.hw.sr[Dbreakc[i]] = Watch(i)
    BY <2>1, <2>2, DbNames DEF Steady, Watching
  <2>7. s'.hw.sr["icountlevel"] = 0
    BY <2>1, <2>2, DbNames DEF Steady
  <2> QED BY <2>5, <2>6, <2>7 DEF Watch
<1>9. CountInv'
  <2>1. ~blind => u.hw.sr["icount"] = u.cache.sr["icount"]
    BY <1>2 DEF Flushed, Agree, SR
  <2> QED BY <1>1, <2>1, IdleIs DEF CountInv, Agree, Left
<1> QED BY <1>3, <1>4, <1>5, <1>6, <1>7, <1>8, <1>9 DEF Held, SessionInv

\* The frame on top has a count of its own and the core has it, or it has none; no frame
\* below has one.
CountsOn(u, fs) ==
  LET f == Head(fs)
  IN /\ f.due # None => u.hw.sr["icountlevel"] = 1 /\ u.hw.sr["icount"] = 1 /\ ran - f.first = f.due - 1
     /\ \A j \in DOMAIN fs : j # 1 => fs[j].due = None

\* A step on its way.
LEMMA Steps ==
  ASSUME SessionInv, NEW t, NEW u, Goes(t, u), s' = Rfdo(u, "app"),
         NEW fs \in Seq(FrameSet), fs # <<>>, NEW resumes \in BOOLEAN,
         host' = [at |-> "stepping", frames |-> fs, resumes |-> resumes],
         UNCHANGED <<bps, wps, blind>>, ran' = ran,
         Agree(t.hw, t.cache, DbRegs),
         Hides(u.cache, fs), ~blind => Returns(u.cache, fs), ~blind => CountsOn(u, fs)
  PROVE  Held
<1>1. Left(u, s')
  BY Leaves
<1>2. Flushed(t, u)
  BY DEF Goes, Flushes
<1>3. DataInv'
  <2>1. \A r \in DbRegs : u.hw.sr[r] = u.cache.sr[r]
    BY <1>2, DbNames DEF Agree, Flushed
  <2> QED BY <1>1, <2>1 DEF SessionInv, DataInv, Agree, Left, Halted
<1>4. RestInv'
  BY <1>1 DEF RestInv, Halted, Left
<1>5. host'.at = "stepping" /\ host'.frames = fs /\ host'.resumes = resumes
  OBVIOUS
<1>6. SteadyInv' /\ WaitInv' /\ CallInv'
  BY <1>5 DEF SteadyInv, WaitInv, CallInv
<1>7. StepInv'
  <2>1. (Returns(s.cache, host.frames))' <=> Returns(u.cache, fs)
    BY <1>1, <1>5 DEF Returns, Watching, Watch, Hidden, Left
  <2>2. (Hides(s.cache, host.frames))'
    BY <1>1, <1>5 DEF Hides, Hidden, Left
  <2>3. ~Halted' /\ s'.hw.run # "stub" /\ s'.cache.dsr = {}
    BY <1>1 DEF Halted, Left
  <2> QED BY <1>5, <2>1, <2>2, <2>3 DEF StepInv
<1>8. Intact
  BY <1>1 DEF Left, Intact
<1>9. Rearmed
  BY <1>5, IdleIs DEF Rearmed
<1>10. CountInv'
  <2>1. ~Halted' /\ s'.hw.sr = u.hw.sr
    BY <1>1 DEF Halted, Left
  <2> QED BY <1>5, <2>1 DEF CountInv, Counted, CountsOn
<1> QED BY <1>3, <1>4, <1>6, <1>7, <1>8, <1>9, <1>10 DEF Held, SessionInv

\* What a step that begins has loaded is in the core.
LEMMA EntersCounts ==
  ASSUME NEW t, NEW u, NEW f, NEW cur, NEW addr, Enters(t, u, f, cur, addr),
         Agree(t.hw, t.cache, {"icountlevel", "icount"}), ran \in Int
  PROVE  u.hw.sr["icountlevel"] = 1 /\ u.hw.sr["icount"] = 1 /\ ran - f.first = f.due - 1
<1>1. {"icountlevel", "icount"} \subseteq SR \ {"debugcause"}
  BY DEF SR
<1>2. u.hw.sr["icountlevel"] = 1 /\ u.hw.sr["icount"] = 1
  BY <1>1 DEF Enters, Goes, Flushes, Flushed, Agree
<1>3. f.first = ran /\ f.due = 1
  BY DEF Enters
<1>4. ran - f.first = f.due - 1
  BY <1>3
<1> QED BY <1>2, <1>4

\* The first step of a resume, or one asked for.
LEMMA Begins ==
  ASSUME SessionInv, host.at = "idle", NEW t, t.cache = s.cache, t.hw = s.hw, NEW u, NEW f, NEW cur, NEW addr, NEW resumes \in BOOLEAN,
         Enters(t, u, f, cur, addr), s' = Rfdo(u, "app"),
         host' = [at |-> "stepping", frames |-> <<f>>, resumes |-> resumes],
         UNCHANGED <<bps, wps, blind>>, ran' = ran
  PROVE  Held
<1>1. /\ Goes(t, u) /\ f \in FrameSet
      /\ \A i \in Slots : f.dbreakc[i] = t.cache.sr[Dbreakc[i]]
      /\ \A i \in Slots : u.cache.sr[Dbreakc[i]] = IF f.cause = "DB" THEN 0 ELSE f.dbreakc[i]
  BY DEF Enters
<1>2. <<f>> \in Seq(FrameSet) /\ <<f>> # <<>> /\ DOMAIN <<f>> = {1} /\ <<f>>[1] = f
  BY <1>1
<1>3. Agree(t.hw, t.cache, DbRegs)
  BY DEF SessionInv, DataInv
<1>4. Hides(u.cache, <<f>>)
  BY <1>1, <1>2 DEF Hides, Hidden
<1>5. ~blind => Returns(u.cache, <<f>>)
  <2> SUFFICES ASSUME ~blind
               PROVE  Returns(u.cache, <<f>>)
    OBVIOUS
  <2>1. \A i \in Slots : f.dbreakc[i] = Watch(i)
    BY <1>1 DEF SessionInv, SteadyInv, Steady, Watching
  <2> QED BY <1>1, <1>2, <2>1 DEF Returns, Hidden, Watching
<1>6. ~blind => CountsOn(u, <<f>>)
  <2> SUFFICES ASSUME ~blind PROVE CountsOn(u, <<f>>)
    OBVIOUS
  <2>1. Agree(t.hw, t.cache, {"icountlevel", "icount"})
    BY DEF SessionInv, CountInv, SteadyInv, Steady, Agree
  <2>2. ran \in Int
    BY DEF SessionInv, DataInv
  <2>3. Head(<<f>>) = f
    OBVIOUS
  <2> QED BY <1>2, <2>1, <2>2, <2>3, EntersCounts DEF CountsOn
<1> QED BY <1>1, <1>2, <1>3, <1>4, <1>5, <1>6, Steps

\* Where a caller may ask to go on.
LEMMA TargetIs ==
  ASSUME NEW target \in Targets PROVE target[1] \in BOOLEAN /\ target[2] \in Int
<1>1. CASE target = <<TRUE, None>>
  BY <1>1 DEF None
<1>2. CASE target = <<FALSE, None>>
  BY <1>2 DEF None
<1>3. CASE target = <<FALSE, 0>>
  BY <1>3
<1> QED BY <1>1, <1>2, <1>3 DEF Targets

\* A resume of the caller.
LEMMA XtensaResumeKeeps == ASSUME SessionInv, XtensaResume PROVE Held
<1>1. /\ IsSession(s) /\ host.at = "idle" /\ Halted /\ UNCHANGED <<bps, wps, blind>> /\ ran' = ran /\ ran \in Int
  BY IdleIs DEF XtensaResume, Call, SessionInv, DataInv
<1>2. Rests(s)
  BY <1>1 DEF SessionInv, RestInv
<1>3. PICK target \in Targets, hb \in BOOLEAN :
         LET p == Prepare(Redirected(s, target[1], target[2]), target[1], target[2], hb)
         IN Go(p.t, p.frames, TRUE)
  BY DEF XtensaResume
<1> DEFINE cur == target[1]
           addr == target[2]
           t == Redirected(s, cur, addr)
           p == Prepare(t, cur, addr, hb)
<1>4. cur \in BOOLEAN /\ addr \in Int
  BY TargetIs
<1> HIDE DEF cur, addr
<1>5. /\ IsSession(t) /\ AimsAt(t, cur, addr) /\ t.hw = s.hw /\ t.cache = s.cache
      /\ t.ctx = s.ctx \/ (s.ctx = "live" /\ t.ctx = "lost")
  BY <1>1, <1>2, <1>4, RedirectedAims DEF Rests
<1> HIDE DEF t
<1>6. Prepares(t, p, cur, addr)
  BY <1>1, <1>4, <1>5, PrepareSound
<1>7. Go(p.t, p.frames, TRUE)
  BY <1>3 DEF t, cur, addr
<1> HIDE DEF p
<1>8. CASE p.frames = <<>> /\ Goes(t, p.t)
           /\ \A x \in {"dbreakc0", "dbreakc1", "icountlevel", "icount"} : p.t.cache.sr[x] = t.cache.sr[x]
  <2>1. s' = Rfdo(p.t, "app") /\ host' = Idle
    BY <1>7, <1>8 DEF Go
  <2>2. \A r \in DbRegs \cup {"icountlevel"} : p.t.cache.sr[r] = t.cache.sr[r]
    BY <1>8 DEF DbRegs
  <2>3. Agree(t.hw, t.cache, DbRegs)
    BY <1>5 DEF SessionInv, DataInv
  <2>4. ~blind => Steady(t.cache) /\ t.hw.sr["icountlevel"] = 0
    BY <1>1, <1>5 DEF SessionInv, SteadyInv
  <2>5. t.ctx \in {"cached", "both"} => Agree(t.hw, t.cache, SR \ {"debugcause", "cpenable"})
    BY <1>2, <1>5 DEF Rests
  <2>6. ~blind => Agree(t.hw, t.cache, {"icount"})
    BY <1>1, <1>5 DEF SessionInv, CountInv
  <2> QED BY <1>1, <1>8, <2>1, <2>2, <2>3, <2>4, <2>5, <2>6, Departs
<1>9. CASE p.frames = <<p.frames[1]>> /\ Enters(t, p.t, p.frames[1], cur, addr)
  <2> DEFINE f == p.frames[1]
  <2>1. p.frames = <<f>> /\ Enters(t, p.t, f, cur, addr)
    BY <1>9
  <2> HIDE DEF f
  <2>2. s' = Rfdo(p.t, "app") /\ host' = [at |-> "stepping", frames |-> <<f>>, resumes |-> TRUE]
    BY <1>7, <2>1 DEF Go
  <2> QED BY <1>1, <1>5, <2>1, <2>2, Begins
<1> QED BY <1>6, <1>8, <1>9 DEF Prepares

\* A step of the caller; one that passes a BREAK only moves the PC, in the cache.
LEMMA XtensaDoStepKeeps == ASSUME SessionInv, XtensaDoStep PROVE Held
<1>1. /\ IsSession(s) /\ host.at = "idle" /\ Halted /\ UNCHANGED <<bps, wps, blind>> /\ ran' = ran /\ ran \in Int
  BY IdleIs DEF XtensaDoStep, Call, SessionInv, DataInv
<1>2. Rests(s)
  BY <1>1 DEF SessionInv, RestInv
<1>3. PICK target \in Targets, hb \in BOOLEAN :
         IF Passes(s, hb) THEN s' = Passed(s) /\ UNCHANGED host
         ELSE LET e == Entered(Redirected(s, target[1], target[2]), target[1], target[2], hb)
              IN Go(e.t, <<e.frame>>, FALSE)
  BY DEF XtensaDoStep
<1>4. CASE Passes(s, hb)
  <2>1. s' = Passed(s) /\ host' = host
    BY <1>3, <1>4
  <2>2. /\ IsSession(s') /\ Sound(s') /\ s'.hw = s.hw /\ Gentle(s.cache, s'.cache)
        /\ s'.ctx = (IF s.ctx \in {"cached", "both"} THEN "cached" ELSE "lost")
        /\ \A x \in SR \ {"pc", "debugcause"} : s'.cache.sr[x] = s.cache.sr[x]
    <3> DEFINE u == Passed(s)
    <3>1. /\ IsSession(u) /\ Sound(u) /\ u.hw = s.hw /\ Gentle(s.cache, u.cache)
          /\ u.ctx = (IF s.ctx \in {"cached", "both"} THEN "cached" ELSE "lost")
          /\ \A x \in SR \ {"pc", "debugcause"} : u.cache.sr[x] = s.cache.sr[x]
      BY <1>1, <1>2, PassedSound DEF Rests, Sound
    <3> HIDE DEF u
    <3>2. s' = u
      BY <2>1 DEF u
    <3> QED BY <3>1, <3>2
  <2>3. \A regs \in SUBSET (SR \ {"debugcause"}) : Agree(s.hw, s.cache, regs) => Agree(s'.hw, s'.cache, regs)
    BY <2>2 DEF Gentle, Agree
  <2>4. Rests(s')
    BY <1>2, <2>2, <2>3 DEF Rests
  <2>5. DataInv'
    <3>1. Tidy(s'.cache)
      BY <2>2 DEF SessionInv, DataInv, Gentle, Tidy
    <3>2. Agree(s'.hw, s'.cache, DbRegs)
      <4>1. DbRegs \in SUBSET (SR \ {"debugcause"})
        BY DbNames
      <4> QED BY <2>3, <4>1 DEF SessionInv, DataInv
    <3> QED BY <1>1, <2>2, <3>1, <3>2 DEF SessionInv, DataInv, Agree, Halted
  <2>6. RestInv'
    <3>1. (Rests(s))'
      BY <2>4 DEF Rests, Sound, Stored, GoesOn, Agree
    <3> QED BY <1>1, <2>2, <3>1 DEF RestInv, Halted
  <2>7. (Steady(s.cache))' <=> Steady(s.cache)
    BY <1>1, <2>2, DbNames DEF Steady, Watching, Watch
  <2>8. SteadyInv'
    BY <1>1, <2>1, <2>2, <2>7 DEF SessionInv, SteadyInv
  <2>9. StepInv' /\ WaitInv' /\ CallInv'
    BY <1>1, <2>1 DEF StepInv, WaitInv, CallInv
  <2>10. Intact /\ Rearmed
    BY <1>1, <2>2 DEF Intact, Rearmed, Released, Halted
  <2>11. CountInv'
    <3>1. {"icount"} \in SUBSET (SR \ {"debugcause"})
      BY DEF SR
    <3>2. Agree(s.hw, s.cache, {"icount"}) => Agree(s'.hw, s'.cache, {"icount"})
      BY <2>3, <3>1
    <3> QED BY <1>1, <2>1, <3>2, CountStays
  <2> QED BY <2>5, <2>6, <2>8, <2>9, <2>10, <2>11 DEF Held, SessionInv
<1>5. CASE ~Passes(s, hb)
  <2> DEFINE cur == target[1]
             addr == target[2]
             t == Redirected(s, cur, addr)
             e == Entered(t, cur, addr, hb)
  <2>1. cur \in BOOLEAN /\ addr \in Int
    BY TargetIs
  <2>2. s' = Rfdo(e.t, "app") /\ host' = [at |-> "stepping", frames |-> <<e.frame>>, resumes |-> FALSE]
    BY <1>3, <1>5 DEF Go
  <2> HIDE DEF cur, addr
  <2>3. IsSession(t) /\ AimsAt(t, cur, addr) /\ t.hw = s.hw /\ t.cache = s.cache
    BY <1>1, <1>2, <2>1, RedirectedAims DEF Rests
  <2> HIDE DEF t
  <2>4. Enters(t, e.t, e.frame, cur, addr)
    BY <1>1, <2>1, <2>3, EnteredSound
  <2> HIDE DEF e
  <2> QED BY <1>1, <2>2, <2>3, <2>4, Begins
<1> QED BY <1>4, <1>5

-------------------------------------------------------------------------------
(* The stack of steps.                                                      *)

\* Frames of steps: one on top, and what is below.
LEMMA FramesSplit ==
  ASSUME NEW fs \in Seq(FrameSet), fs # <<>>
  PROVE  /\ Head(fs) \in FrameSet /\ Tail(fs) \in Seq(FrameSet)
         /\ 1 \in DOMAIN fs /\ fs[1] = Head(fs)
         /\ \A j \in DOMAIN Tail(fs) : j + 1 \in DOMAIN fs /\ j + 1 # 1 /\ Tail(fs)[j] = fs[j + 1]
         /\ \A k \in DOMAIN fs : k = 1 \/ (k - 1 \in DOMAIN Tail(fs) /\ Tail(fs)[k - 1] = fs[k])
<1>1. /\ Len(fs) \in Nat \ {0} /\ DOMAIN fs = 1 .. Len(fs) /\ fs \in [1 .. Len(fs) -> FrameSet]
  BY EmptySeq, LenProperties
<1>2. /\ Head(fs) \in FrameSet /\ Tail(fs) \in Seq(FrameSet) /\ Len(Tail(fs)) = Len(fs) - 1
      /\ \A i \in 1 .. Len(Tail(fs)) : Tail(fs)[i] = fs[i + 1]
  BY HeadTailProperties
<1>3. DOMAIN Tail(fs) = 1 .. Len(fs) - 1
  BY <1>2, LenProperties
<1>4. fs[1] = Head(fs)
  BY <1>1
<1>5. \A j \in DOMAIN Tail(fs) : j + 1 \in DOMAIN fs /\ j + 1 # 1 /\ Tail(fs)[j] = fs[j + 1]
  BY <1>1, <1>2, <1>3
<1>6. \A k \in DOMAIN fs : k = 1 \/ (k - 1 \in DOMAIN Tail(fs) /\ Tail(fs)[k - 1] = fs[k])
  BY <1>1, <1>2, <1>3
<1> QED BY <1>1, <1>2, <1>4, <1>5, <1>6

\* A frame on top of others.
LEMMA FramesPushed ==
  ASSUME NEW fs \in Seq(FrameSet), NEW e \in FrameSet
  PROVE  LET gs == <<e>> \o fs
         IN /\ gs \in Seq(FrameSet) /\ gs # <<>> /\ 1 \in DOMAIN gs /\ gs[1] = e
            /\ \A k \in DOMAIN gs : k = 1 \/ (k - 1 \in DOMAIN fs /\ gs[k] = fs[k - 1])
            /\ \A j \in DOMAIN fs : j + 1 \in DOMAIN gs /\ gs[j + 1] = fs[j]
<1> DEFINE gs == <<e>> \o fs
<1>1. <<e>> \in Seq(FrameSet) /\ Len(<<e>>) = 1 /\ <<e>>[1] = e
  OBVIOUS
<1>2. Len(fs) \in Nat /\ DOMAIN fs = 1 .. Len(fs)
  BY LenProperties
<1>3. /\ gs \in Seq(FrameSet) /\ Len(gs) = 1 + Len(fs)
      /\ \A i \in 1 .. 1 + Len(fs) : gs[i] = IF i <= 1 THEN e ELSE fs[i - 1]
  BY <1>1, ConcatProperties
<1> HIDE DEF gs
<1>4. DOMAIN gs = 1 .. 1 + Len(fs)
  BY <1>3, LenProperties
<1>5. gs # <<>>
  BY <1>2, <1>3, EmptySeq
<1>6. 1 \in DOMAIN gs /\ gs[1] = e
  BY <1>2, <1>3, <1>4
<1>7. \A k \in DOMAIN gs : k = 1 \/ (k - 1 \in DOMAIN fs /\ gs[k] = fs[k - 1])
  BY <1>2, <1>3, <1>4
<1>8. \A j \in DOMAIN fs : j + 1 \in DOMAIN gs /\ gs[j + 1] = fs[j]
  <2> SUFFICES ASSUME NEW j \in DOMAIN fs
               PROVE  j + 1 \in DOMAIN gs /\ gs[j + 1] = fs[j]
    OBVIOUS
  <2>1. j \in Nat /\ j >= 1 /\ j + 1 \in 1 .. 1 + Len(fs) /\ ~(j + 1 <= 1) /\ (j + 1) - 1 = j
    BY <1>2
  <2> QED BY <1>3, <1>4, <2>1
<1> QED BY <1>3, <1>5, <1>6, <1>7, <1>8 DEF gs

\* A frame that changes in what it is for hides what it hid.
LEMMA FramesRenewed ==
  ASSUME NEW fs \in Seq(FrameSet), fs # <<>>, NEW g \in FrameSet,
         g.cause = Head(fs).cause, g.dbreakc = Head(fs).dbreakc, NEW c, NEW d,
         \A i \in Slots : d.sr[Dbreakc[i]] = c.sr[Dbreakc[i]]
  PROVE  LET gs == <<g>> \o Tail(fs)
         IN /\ gs \in Seq(FrameSet) /\ gs # <<>> /\ (Hidden(gs) <=> Hidden(fs))
            /\ Hides(c, fs) => Hides(d, gs)
            /\ Returns(c, fs) => Returns(d, gs)
<1> DEFINE gs == <<g>> \o Tail(fs)
<1>1. /\ Tail(fs) \in Seq(FrameSet) /\ 1 \in DOMAIN fs /\ fs[1] = Head(fs)
      /\ \A j \in DOMAIN Tail(fs) : j + 1 \in DOMAIN fs /\ Tail(fs)[j] = fs[j + 1]
      /\ \A k \in DOMAIN fs : k = 1 \/ (k - 1 \in DOMAIN Tail(fs) /\ Tail(fs)[k - 1] = fs[k])
  BY FramesSplit
<1>2. /\ gs \in Seq(FrameSet) /\ gs # <<>> /\ 1 \in DOMAIN gs /\ gs[1] = g
      /\ \A k \in DOMAIN gs : k = 1 \/ (k - 1 \in DOMAIN Tail(fs) /\ gs[k] = Tail(fs)[k - 1])
      /\ \A j \in DOMAIN Tail(fs) : j + 1 \in DOMAIN gs /\ gs[j + 1] = Tail(fs)[j]
  BY <1>1, FramesPushed
<1> HIDE DEF gs
<1>3. DOMAIN fs \subseteq Int /\ DOMAIN gs \subseteq Int
  BY <1>2, LenProperties
<1>4. \A k \in DOMAIN gs : k \in DOMAIN fs /\ gs[k].cause = fs[k].cause /\ gs[k].dbreakc = fs[k].dbreakc
  <2> SUFFICES ASSUME NEW k \in DOMAIN gs, k # 1
               PROVE  k \in DOMAIN fs /\ gs[k] = fs[k]
    BY <1>1, <1>2
  <2>1. k - 1 \in DOMAIN Tail(fs) /\ gs[k] = Tail(fs)[k - 1]
    BY <1>2
  <2>2. (k - 1) + 1 = k
    BY <1>3
  <2> QED BY <1>1, <2>1, <2>2
<1>5. \A k \in DOMAIN fs : k \in DOMAIN gs /\ gs[k].cause = fs[k].cause /\ gs[k].dbreakc = fs[k].dbreakc
  <2> SUFFICES ASSUME NEW k \in DOMAIN fs, k # 1
               PROVE  k \in DOMAIN gs /\ gs[k] = fs[k]
    BY <1>1, <1>2
  <2>1. k - 1 \in DOMAIN Tail(fs) /\ fs[k] = Tail(fs)[k - 1]
    BY <1>1
  <2>2. (k - 1) + 1 = k
    BY <1>3
  <2> QED BY <1>2, <2>1, <2>2
<1>6. Hidden(gs) <=> Hidden(fs)
  BY <1>4, <1>5 DEF Hidden
<1>7. Hides(c, fs) => Hides(d, gs)
  BY <1>4, <1>6 DEF Hides
<1>8. Returns(c, fs) => Returns(d, gs)
  BY <1>4, <1>6 DEF Returns, Watching
<1> QED BY <1>2, <1>6, <1>7, <1>8 DEF gs

\* It is on top of what it was on top of.
LEMMA FramesBelow ==
  ASSUME NEW fs \in Seq(FrameSet), fs # <<>>, NEW g \in FrameSet
  PROVE  LET gs == <<g>> \o Tail(fs)
         IN \A j \in DOMAIN gs : j # 1 => j \in DOMAIN fs /\ gs[j] = fs[j]
<1> DEFINE gs == <<g>> \o Tail(fs)
<1>1. /\ Tail(fs) \in Seq(FrameSet)
      /\ \A j \in DOMAIN Tail(fs) : j + 1 \in DOMAIN fs /\ Tail(fs)[j] = fs[j + 1]
  BY FramesSplit
<1>2. /\ gs \in Seq(FrameSet)
      /\ \A k \in DOMAIN gs : k = 1 \/ (k - 1 \in DOMAIN Tail(fs) /\ gs[k] = Tail(fs)[k - 1])
  BY <1>1, FramesPushed
<1> HIDE DEF gs
<1> SUFFICES ASSUME NEW k \in DOMAIN gs, k # 1
             PROVE  k \in DOMAIN fs /\ gs[k] = fs[k]
  BY DEF gs
<1>3. k - 1 \in DOMAIN Tail(fs) /\ gs[k] = Tail(fs)[k - 1]
  BY <1>2
<1>4. (k - 1) + 1 = k
  BY <1>2, LenProperties
<1> QED BY <1>1, <1>3, <1>4

\* A frame on top of frames none of which counts.
LEMMA FramesOnTop ==
  ASSUME NEW fs \in Seq(FrameSet), fs # <<>>, NEW e \in FrameSet, Head(fs).due = None,
         \A j \in DOMAIN fs : j # 1 => fs[j].due = None
  PROVE  LET gs == <<e>> \o fs
         IN Head(gs) = e /\ \A k \in DOMAIN gs : k # 1 => gs[k].due = None
<1> DEFINE gs == <<e>> \o fs
<1>1. fs[1] = Head(fs)
  BY FramesSplit
<1>2. /\ gs \in Seq(FrameSet) /\ gs # <<>> /\ gs[1] = e
      /\ \A k \in DOMAIN gs : k = 1 \/ (k - 1 \in DOMAIN fs /\ gs[k] = fs[k - 1])
  BY FramesPushed
<1> HIDE DEF gs
<1>3. Head(gs) = e
  BY <1>2, FramesSplit
<1>4. \A k \in DOMAIN gs : k # 1 => gs[k].due = None
  BY <1>1, <1>2
<1> QED BY <1>3, <1>4 DEF gs

\* A step within a step: if it hides watchpoints, no other one does.
LEMMA FramesNested ==
  ASSUME NEW fs \in Seq(FrameSet), NEW e \in FrameSet, NEW c, NEW d,
         e.cause = "DB" => ~Hidden(fs),
         \A i \in Slots : e.dbreakc[i] = c.sr[Dbreakc[i]],
         \A i \in Slots : d.sr[Dbreakc[i]] = IF e.cause = "DB" THEN 0 ELSE e.dbreakc[i]
  PROVE  LET gs == <<e>> \o fs
         IN /\ gs \in Seq(FrameSet) /\ gs # <<>>
            /\ Hides(c, fs) => Hides(d, gs)
            /\ Returns(c, fs) => Returns(d, gs)
<1> DEFINE gs == <<e>> \o fs
<1>1. /\ gs \in Seq(FrameSet) /\ gs # <<>> /\ 1 \in DOMAIN gs /\ gs[1] = e
      /\ \A k \in DOMAIN gs : k = 1 \/ (k - 1 \in DOMAIN fs /\ gs[k] = fs[k - 1])
      /\ \A j \in DOMAIN fs : j + 1 \in DOMAIN gs /\ gs[j + 1] = fs[j]
  BY FramesPushed
<1> HIDE DEF gs
<1>2. DOMAIN gs \subseteq Int /\ DOMAIN fs \subseteq Int
  BY <1>1, LenProperties
<1>3. Hidden(gs) <=> e.cause = "DB" \/ Hidden(fs)
  <2>1. ASSUME Hidden(gs), e.cause # "DB" PROVE Hidden(fs)
    <3>1. PICK k \in DOMAIN gs : gs[k].cause = "DB"
      BY <2>1 DEF Hidden
    <3>2. k # 1
      BY <1>1, <2>1, <3>1
    <3>3. k - 1 \in DOMAIN fs /\ fs[k - 1].cause = "DB"
      BY <1>1, <3>1, <3>2
    <3> QED BY <3>3 DEF Hidden
  <2>2. ASSUME Hidden(fs) PROVE Hidden(gs)
    <3>1. PICK j \in DOMAIN fs : fs[j].cause = "DB"
      BY <2>2 DEF Hidden
    <3>2. j + 1 \in DOMAIN gs /\ gs[j + 1].cause = "DB"
      BY <1>1, <3>1
    <3> QED BY <3>2 DEF Hidden
  <2>3. ASSUME e.cause = "DB" PROVE Hidden(gs)
    BY <1>1, <2>3 DEF Hidden
  <2> QED BY <2>1, <2>2, <2>3
<1>4. ASSUME Hides(c, fs) PROVE Hides(d, gs)
  <2>1. ASSUME NEW j \in DOMAIN gs, NEW k \in DOMAIN gs, gs[j].cause = "DB", gs[k].cause = "DB"
        PROVE  j = k
    <3>1. CASE e.cause = "DB"
      <4>1. \A n \in DOMAIN gs : gs[n].cause = "DB" => n = 1
        BY <1>1, <3>1 DEF Hidden
      <4> QED BY <2>1, <4>1
    <3>2. CASE e.cause # "DB"
      <4>1. j # 1 /\ k # 1
        BY <1>1, <2>1, <3>2
      <4>2. /\ j - 1 \in DOMAIN fs /\ fs[j - 1].cause = "DB"
            /\ k - 1 \in DOMAIN fs /\ fs[k - 1].cause = "DB"
        BY <1>1, <2>1, <4>1
      <4>3. j - 1 = k - 1
        BY <1>4, <4>2 DEF Hides
      <4> QED BY <1>2, <4>3
    <3> QED BY <3>1, <3>2
  <2>2. ASSUME Hidden(gs), NEW i \in Slots PROVE d.sr[Dbreakc[i]] = 0
    BY <1>3, <1>4, <2>2 DEF Hides
  <2> QED BY <2>1, <2>2 DEF Hides
<1>5. ASSUME Returns(c, fs) PROVE Returns(d, gs)
  <2>1. ASSUME NEW j \in DOMAIN gs, gs[j].cause = "DB", NEW i \in Slots
        PROVE  gs[j].dbreakc[i] = Watch(i)
    <3>1. CASE j = 1
      BY <1>1, <1>5, <2>1, <3>1 DEF Returns, Watching
    <3>2. CASE j # 1
      BY <1>1, <1>5, <2>1, <3>2 DEF Returns
    <3> QED BY <3>1, <3>2
  <2>2. ASSUME ~Hidden(gs) PROVE Watching(d)
    BY <1>3, <1>5, <2>2 DEF Returns, Watching
  <2> QED BY <2>1, <2>2 DEF Returns
<1> QED BY <1>1, <1>4, <1>5 DEF gs

\* A step that ends brings back what it had hidden.
LEMMA FramesPopped ==
  ASSUME NEW fs \in Seq(FrameSet), fs # <<>>, NEW c, NEW d,
         \A i \in Slots : d.sr[Dbreakc[i]] =
            IF Head(fs).cause = "DB" THEN Head(fs).dbreakc[i] ELSE c.sr[Dbreakc[i]]
  PROVE  /\ Hides(c, fs) => Hides(d, Tail(fs))
         /\ Hides(c, fs) /\ Returns(c, fs) => Returns(d, Tail(fs))
<1> DEFINE gs == Tail(fs)
<1>1. /\ gs \in Seq(FrameSet) /\ 1 \in DOMAIN fs /\ fs[1] = Head(fs)
      /\ \A j \in DOMAIN gs : j + 1 \in DOMAIN fs /\ j + 1 # 1 /\ gs[j] = fs[j + 1]
      /\ \A k \in DOMAIN fs : k = 1 \/ (k - 1 \in DOMAIN gs /\ gs[k - 1] = fs[k])
  BY FramesSplit
<1> HIDE DEF gs
<1>2. DOMAIN gs \subseteq Int
  BY <1>1, LenProperties
<1>3. Hidden(gs) => Hidden(fs)
  BY <1>1 DEF Hidden
<1>4. Hides(c, fs) /\ Hidden(gs) => Head(fs).cause # "DB"
  <2> SUFFICES ASSUME Hides(c, fs), NEW j \in DOMAIN gs, gs[j].cause = "DB", Head(fs).cause = "DB"
               PROVE  FALSE
    BY DEF Hidden
  <2>1. j + 1 \in DOMAIN fs /\ j + 1 # 1 /\ fs[j + 1].cause = "DB"
    BY <1>1
  <2> QED BY <1>1, <2>1 DEF Hides
<1>5. ASSUME Hides(c, fs) PROVE Hides(d, gs)
  <2>1. ASSUME NEW j \in DOMAIN gs, NEW k \in DOMAIN gs, gs[j].cause = "DB", gs[k].cause = "DB"
        PROVE  j = k
    <3>1. /\ j + 1 \in DOMAIN fs /\ fs[j + 1].cause = "DB"
          /\ k + 1 \in DOMAIN fs /\ fs[k + 1].cause = "DB"
      BY <1>1, <2>1
    <3>2. j + 1 = k + 1
      BY <1>5, <3>1 DEF Hides
    <3> QED BY <1>2, <3>2
  <2>2. ASSUME Hidden(gs), NEW i \in Slots PROVE d.sr[Dbreakc[i]] = 0
    BY <1>3, <1>4, <1>5, <2>2 DEF Hides
  <2> QED BY <2>1, <2>2 DEF Hides
<1>6. ASSUME Hides(c, fs), Returns(c, fs) PROVE Returns(d, gs)
  <2>1. ASSUME NEW j \in DOMAIN gs, gs[j].cause = "DB", NEW i \in Slots
        PROVE  gs[j].dbreakc[i] = Watch(i)
    BY <1>1, <1>6, <2>1 DEF Returns
  <2>2. ASSUME ~Hidden(gs) PROVE Watching(d)
    <3>1. CASE Head(fs).cause = "DB"
      <4>1. \A i \in Slots : fs[1].dbreakc[i] = Watch(i)
        BY <1>1, <1>6, <3>1 DEF Returns
      <4> QED BY <1>1, <3>1, <4>1 DEF Watching
    <3>2. CASE Head(fs).cause # "DB"
      <4>1. ~Hidden(fs)
        <5> SUFFICES ASSUME NEW k \in DOMAIN fs, fs[k].cause = "DB" PROVE FALSE
          BY DEF Hidden
        <5>1. k # 1
          BY <1>1, <3>2
        <5>2. k - 1 \in DOMAIN gs /\ gs[k - 1].cause = "DB"
          BY <1>1, <5>1
        <5> QED BY <2>2, <5>2 DEF Hidden
      <4> QED BY <1>6, <3>2, <4>1 DEF Returns, Watching
    <3> QED BY <3>1, <3>2
  <2> QED BY <2>1, <2>2 DEF Returns
<1> QED BY <1>5, <1>6 DEF gs

-------------------------------------------------------------------------------
(* A step that ends.                                                        *)

\* What a step gives back before it writes.
LEMMA WatchesAreBack ==
  ASSUME NEW t, IsSession(t), NEW f \in FrameSet
  PROVE  LET w == WatchesBack(t, f)
         IN /\ IsSession(w) /\ w.hw = t.hw /\ w.ctx = t.ctx
            /\ Tidy(t.cache) => Tidy(w.cache)
            /\ Rests(t) => Rests(w)
            /\ Gentle(t.cache, w.cache)
            /\ \A i \in Slots : w.cache.sr[Dbreakc[i]] =
                 IF f.cause = "DB" THEN f.dbreakc[i] ELSE t.cache.sr[Dbreakc[i]]
            /\ w.cache.sr["icountlevel"] = 0
<1> DEFINE c == IF f.cause # "DB" THEN t.cache
                ELSE RegSet(RegSet(t.cache, Dbreakc[1], f.dbreakc[1]), Dbreakc[2], f.dbreakc[2])
           d == RegSet(c, "icountlevel", 0)
           w == WithCache(t, d)
<1>1. /\ IsCache(t.cache) /\ {"dbreakc0", "dbreakc1", "icountlevel", "pc"} \subseteq SR
      /\ Fits("dbreakc0", f.dbreakc[1]) /\ Fits("dbreakc1", f.dbreakc[2]) /\ Fits("icountlevel", 0)
      /\ Dbreakc[1] = "dbreakc0" /\ Dbreakc[2] = "dbreakc1" /\ Slots = {1, 2}
  BY DEF IsSession, Fits, SR, Numbers, FrameSet, Slots, Dbreakc
<1>2. IsCache(c) /\ Gentle(t.cache, c)
      /\ \A x \in SR : c.sr[x] = IF f.cause = "DB" /\ x = "dbreakc0" THEN f.dbreakc[1]
                                 ELSE IF f.cause = "DB" /\ x = "dbreakc1" THEN f.dbreakc[2]
                                 ELSE t.cache.sr[x]
  <2>1. CASE f.cause # "DB"
    BY <1>1, <2>1, GentleOnce
  <2>2. CASE f.cause = "DB"
    <3> DEFINE c1 == RegSet(t.cache, "dbreakc0", f.dbreakc[1])
               c2 == RegSet(c1, "dbreakc1", f.dbreakc[2])
    <3>1. c = c2
      BY <1>1, <2>2
    <3>2. IsCache(c1) /\ Gentle(t.cache, c1)
          /\ \A x \in SR : c1.sr[x] = IF x = "dbreakc0" THEN f.dbreakc[1] ELSE t.cache.sr[x]
      BY <1>1, GentleSet
    <3> HIDE DEF c1
    <3>3. IsCache(c2) /\ Gentle(c1, c2)
          /\ \A x \in SR : c2.sr[x] = IF x = "dbreakc1" THEN f.dbreakc[2] ELSE c1.sr[x]
      BY <1>1, <3>2, GentleSet
    <3> HIDE DEF c2, c
    <3>4. Gentle(t.cache, c2)
      BY <3>2, <3>3, GentleTwice
    <3> QED BY <2>2, <3>1, <3>2, <3>3, <3>4
  <2> QED BY <2>1, <2>2
<1>3. WatchesBack(t, f) = WithCache(WithCache(t, c), d)
  <2>1. WithCache(t, c).cache = c
    BY <1>2, CacheChanged
  <2> HIDE DEF c
  <2> QED BY <2>1 DEF WatchesBack, Put, WithCache, c
<1> HIDE DEF c
<1>4. IsCache(d) /\ Gentle(c, d) /\ \A x \in SR : d.sr[x] = IF x = "icountlevel" THEN 0 ELSE c.sr[x]
  BY <1>1, <1>2, GentleSet
<1> HIDE DEF d
<1>5. Gentle(t.cache, d) /\ d.sr["pc"] = t.cache.sr["pc"]
  BY <1>1, <1>2, <1>4, GentleTwice
<1>6. WatchesBack(t, f) = w
  <2>1. t = [hw |-> t.hw, cache |-> t.cache, ctx |-> t.ctx, app |-> t.app]
    BY DEF IsSession
  <2> QED BY <1>3, <2>1 DEF WithCache
<1>7. /\ IsSession(w) /\ w.hw = t.hw /\ w.cache = d /\ w.ctx = t.ctx
      /\ Tidy(t.cache) => Tidy(d)
      /\ Rests(t) => Rests(w)
  BY <1>4, <1>5, GentleRests
<1> HIDE DEF w
<1>8. \A i \in Slots : d.sr[Dbreakc[i]] = IF f.cause = "DB" THEN f.dbreakc[i] ELSE t.cache.sr[Dbreakc[i]]
  BY <1>1, <1>2, <1>4
<1>9. d.sr["icountlevel"] = 0
  BY <1>1, <1>4
<1> QED BY <1>5, <1>6, <1>7, <1>8, <1>9

\* A step that ends: fetched, put back, written and fetched again.
Ends(t, f, u) ==
  /\ IsSession(u) /\ Rests(u) /\ Tidy(u.cache)
  /\ u.hw.run = t.hw.run /\ u.hw.irq = t.hw.irq /\ u.cache.dsr = {"cpenable"}
  /\ \A r \in DbRegs \cup {"icountlevel"} : u.hw.sr[r] = u.cache.sr[r]
  /\ u.hw.sr["icount"] = u.cache.sr["icount"]
  /\ u.cache.sr["icountlevel"] = 0
  /\ \A i \in Slots : u.cache.sr[Dbreakc[i]] = IF f.cause = "DB" THEN f.dbreakc[i] ELSE t.hw.sr[Dbreakc[i]]

\* So a step that ends rests, with the watchpoints it had hidden back in core and cache.
LEMMA StepEnds ==
  ASSUME NEW t0, IsSession(t0), Tidy(t0.cache), Sound(t0), NEW f \in FrameSet
  PROVE  Ends(t0, f, FetchAllRegs(WriteDirty(WatchesBack(FetchAllRegs(t0), f))))
<1> DEFINE t == FetchAllRegs(t0)
           w == WatchesBack(t, f)
           x == WriteDirty(w)
           u == FetchAllRegs(x)
<1>1. Fetches(t0, t)
  BY FetchRests
<1> HIDE DEF t
<1>2. /\ IsSession(t) /\ Tidy(t.cache) /\ Rests(t) /\ t.hw.run = t0.hw.run /\ t.hw.irq = t0.hw.irq
      /\ t.cache.dsr = {"cpenable"}
      /\ \A r \in SR \ {"cpenable"} : t.hw.sr[r] = t0.hw.sr[r] /\ t.cache.sr[r] = t0.hw.sr[r]
  BY <1>1 DEF Fetches
<1>3. /\ IsSession(w) /\ w.hw = t.hw
      /\ Tidy(t.cache) => Tidy(w.cache)
      /\ Rests(t) => Rests(w)
      /\ Gentle(t.cache, w.cache)
      /\ \A i \in Slots : w.cache.sr[Dbreakc[i]] = IF f.cause = "DB" THEN f.dbreakc[i] ELSE t.cache.sr[Dbreakc[i]]
      /\ w.cache.sr["icountlevel"] = 0
  BY <1>2, WatchesAreBack
<1> HIDE DEF w
<1>4. Rests(w) /\ Stored(w) /\ GoesOn(w)
  BY <1>2, <1>3 DEF Rests, Sound
<1>5. Sound(x)
  BY <1>3, <1>4, WrittenSound
<1>6. /\ IsSession(x) /\ x.hw.sr = Specials(w.hw, w.cache).sr /\ x.hw.run = w.hw.run /\ x.hw.irq = w.hw.irq
      /\ x.cache.sr = w.cache.sr /\ x.cache.dsr = {} /\ x.cache.da = {} /\ x.cache.dar = {}
  BY <1>3, Written0
<1> HIDE DEF x
<1>7. \A r \in SR : x.hw.sr[r] = IF r \in w.cache.dsr THEN w.cache.sr[r] ELSE w.hw.sr[r]
  <2> DEFINE h == w.hw
             c == w.cache
  <2>1. IsCore(h) /\ IsCache(c)
    BY <1>3 DEF IsSession
  <2>2. x.hw.sr = Specials(h, c).sr
    BY <1>6
  <2> HIDE DEF h, c
  <2>3. \A r \in SR : Specials(h, c).sr[r] = IF r \in c.dsr THEN c.sr[r] ELSE h.sr[r]
    BY <2>1, SpecialsWritten
  <2> QED BY <2>2, <2>3 DEF h, c
<1>8. \A r \in DbRegs \cup {"icountlevel"} : x.hw.sr[r] = w.cache.sr[r]
  <2> SUFFICES ASSUME NEW r \in DbRegs \cup {"icountlevel"} PROVE x.hw.sr[r] = w.cache.sr[r]
    OBVIOUS
  <2>1. r \in SR \ {"cpenable", "debugcause"}
    BY DbNames
  <2>2. r \notin w.cache.dsr => w.cache.sr[r] = t.cache.sr[r]
    BY <1>3, <2>1 DEF Gentle
  <2> QED BY <1>2, <1>3, <1>7, <2>1, <2>2
<1>9. Tidy(x.cache)
  BY <1>6 DEF Tidy
<1>10. Fetches(x, u)
  BY <1>5, <1>6, <1>9, FetchRests
<1> HIDE DEF u
<1>11. \A r \in DbRegs \cup {"icountlevel"} : u.hw.sr[r] = w.cache.sr[r] /\ u.cache.sr[r] = w.cache.sr[r]
  <2> SUFFICES ASSUME NEW r \in DbRegs \cup {"icountlevel"}
               PROVE  u.hw.sr[r] = w.cache.sr[r] /\ u.cache.sr[r] = w.cache.sr[r]
    OBVIOUS
  <2>1. r \in SR \ {"cpenable"}
    BY DbNames
  <2> QED BY <1>8, <1>10, <2>1 DEF Fetches
<1>12. \A i \in Slots : u.cache.sr[Dbreakc[i]] = IF f.cause = "DB" THEN f.dbreakc[i] ELSE t0.hw.sr[Dbreakc[i]]
  <2> SUFFICES ASSUME NEW i \in Slots
               PROVE  u.cache.sr[Dbreakc[i]] = IF f.cause = "DB" THEN f.dbreakc[i] ELSE t0.hw.sr[Dbreakc[i]]
    OBVIOUS
  <2>1. Dbreakc[i] \in DbRegs /\ Dbreakc[i] \in SR \ {"cpenable"}
    BY DbNames
  <2> QED BY <1>2, <1>3, <1>11, <2>1
<1>13. IsSession(u) /\ Rests(u) /\ Tidy(u.cache) /\ u.hw.run = t0.hw.run /\ u.hw.irq = t0.hw.irq /\ u.cache.dsr = {"cpenable"}
  BY <1>2, <1>3, <1>6, <1>10 DEF Fetches
<1>14. u.hw.sr["icount"] = u.cache.sr["icount"]
  BY <1>10 DEF Fetches, SR
<1> QED BY <1>3, <1>11, <1>12, <1>13, <1>14 DEF Ends, u, x, w, t

-------------------------------------------------------------------------------
(* A step that stops in a window handler.                                   *)

\* What a stopped step finds: its own frame, and everything fetched.
LEMMA StepFound ==
  ASSUME SessionInv, host.at = "stepping", Halted
  PROVE  /\ IsSession(s) /\ Tidy(s.cache) /\ Sound(s)
         /\ host.frames \in Seq(FrameSet) /\ host.frames # <<>> /\ host.resumes \in BOOLEAN
         /\ \A i \in Slots : s.hw.sr[Dbreakc[i]] = s.cache.sr[Dbreakc[i]]
         /\ Hides(s.cache, host.frames)
         /\ ~blind => Returns(s.cache, host.frames)
         /\ s.hw.sr["debugcause"] = "DB" => ~Hidden(host.frames)
<1>1. Rests(s)
  BY DEF SessionInv, RestInv
<1>2. /\ host.frames \in Seq(FrameSet) /\ host.frames # <<>> /\ host.resumes \in BOOLEAN
      /\ s.cache.dsr = {} /\ Hides(s.cache, host.frames)
      /\ ~blind => Returns(s.cache, host.frames)
      /\ s.hw.sr["debugcause"] = "DB" => \E i \in Slots : s.hw.sr[Dbreakc[i]] # 0
  BY DEF SessionInv, StepInv
<1>3. \A i \in Slots : s.hw.sr[Dbreakc[i]] = s.cache.sr[Dbreakc[i]]
  BY <1>2, DbNames DEF SessionInv, DataInv, Agree
<1>4. s.hw.sr["debugcause"] = "DB" => ~Hidden(host.frames)
  BY <1>2, <1>3 DEF Hides
<1> QED BY <1>1, <1>2, <1>3, <1>4 DEF SessionInv, DataInv, Rests

\* What a step stopped in a handler is for from now on.
Due(f) ==
  IF f.due = None \/ (f.current /\ s.hw.sr["debugcause"] \in {"DB", "BI"}) THEN None
  ELSE IF s.hw.sr["debugcause"] = "IC" THEN f.due + 1
  ELSE f.due

\* It has executed one instruction less than that.
LEMMA DueIs ==
  ASSUME SessionInv, host.at = "stepping", Halted, ~blind, NEW g \in FrameSet,
         g.first = Head(host.frames).first, g.due = Due(Head(host.frames)), g.due # None
  PROVE  ran - g.first = g.due - 1
<1> DEFINE f == Head(host.frames)
<1>1. f \in FrameSet
  BY HeadTailProperties DEF SessionInv, StepInv
<1>2. Counted(f) /\ ran \in Int
  BY DEF SessionInv, CountInv, DataInv
<1>5. g.first = f.first /\ g.due = Due(f) /\ g.due # None
  OBVIOUS
<1> HIDE DEF f
<1>3. f.due # None
  <2>1. f.due = None => Due(f) = None
    BY DEF Due
  <2> QED BY <1>5, <2>1
<1>4. f.due \in Int /\ f.first \in Int
  BY <1>1, <1>3 DEF FrameSet
<1>6. CASE s.hw.sr["debugcause"] = "IC"
  <2>1. ran - f.first = f.due
    BY <1>2, <1>3, <1>6 DEF Counted
  <2>2. g.due = f.due + 1
    BY <1>3, <1>5, <1>6 DEF Due
  <2> QED BY <1>2, <1>4, <1>5, <2>1, <2>2
<1>7. CASE s.hw.sr["debugcause"] # "IC"
  <2>1. ran - f.first = f.due - 1
    BY <1>2, <1>3, <1>7 DEF Counted
  <2>2. g.due = f.due
    BY <1>3, <1>5, <1>7 DEF Due
  <2> QED BY <1>5, <2>1, <2>2
<1> QED BY <1>6, <1>7

\* In a window handler: a step of its own, before the one that stopped.
LEMMA StepNests ==
  ASSUME SessionInv, host.at = "stepping", Halted, UNCHANGED <<bps, wps, blind>>, ran' = ran,
         NEW g \in FrameSet, g.cause = Head(host.frames).cause, g.dbreakc = Head(host.frames).dbreakc,
         NEW v, IsSession(v), AimsAt(v, g.current, g.address),
         \A i \in Slots : v.hw.sr[Dbreakc[i]] = s.hw.sr[Dbreakc[i]],
         \A i \in Slots : v.cache.sr[Dbreakc[i]] = s.hw.sr[Dbreakc[i]],
         v.cache.sr["debugcause"] = s.hw.sr["debugcause"],
         g.first = Head(host.frames).first, g.due = Due(Head(host.frames)), g.address \in Nat,
         g.current = Head(host.frames).current,
         v.cache.sr["icountlevel"] = 1, v.cache.sr["icount"] = 1,
         Agree(v.hw, v.cache, {"icountlevel", "icount"}),
         NEW p, Prepares(v, p, g.current, g.address),
         Go(p.t, p.frames \o <<g>> \o Tail(host.frames), host.resumes)
  PROVE  Held
<1> DEFINE fs == host.frames
           gs == <<g>> \o Tail(fs)
<1>1. /\ fs \in Seq(FrameSet) /\ fs # <<>> /\ host.resumes \in BOOLEAN
      /\ \A i \in Slots : s.hw.sr[Dbreakc[i]] = s.cache.sr[Dbreakc[i]]
      /\ Hides(s.cache, fs)
      /\ ~blind => Returns(s.cache, fs)
      /\ s.hw.sr["debugcause"] = "DB" => ~Hidden(fs)
  BY StepFound
<1>2. \A i \in Slots : v.cache.sr[Dbreakc[i]] = s.cache.sr[Dbreakc[i]]
  BY <1>1
<1>3. /\ gs \in Seq(FrameSet) /\ gs # <<>> /\ (Hidden(gs) <=> Hidden(fs))
      /\ Hides(v.cache, gs)
      /\ ~blind => Returns(v.cache, gs)
  <2>0. g.cause = Head(fs).cause /\ g.dbreakc = Head(fs).dbreakc
    OBVIOUS
  <2> HIDE DEF fs
  <2>1. gs \in Seq(FrameSet) /\ gs # <<>> /\ (Hidden(gs) <=> Hidden(fs))
    BY <1>1, <1>2, <2>0, FramesRenewed
  <2>2. Hides(s.cache, fs) => Hides(v.cache, gs)
    BY <1>1, <1>2, <2>0, FramesRenewed
  <2>3. Returns(s.cache, fs) => Returns(v.cache, gs)
    BY <1>1, <1>2, <2>0, FramesRenewed
  <2> QED BY <1>1, <2>1, <2>2, <2>3
<1>4. Tail(fs) \in Seq(FrameSet) /\ <<g>> \in Seq(FrameSet)
  BY <1>1, HeadTailProperties
<1>5. Agree(v.hw, v.cache, DbRegs)
  <2>1. \A r \in DbRegs : r = Dbreakc[1] \/ r = Dbreakc[2]
    BY DbNames DEF DbRegs
  <2> QED BY <2>1, DbNames DEF Agree
<1>8. fs[1] = Head(fs) /\ ran \in Int
  BY <1>1, FramesSplit DEF SessionInv, DataInv
<1>9. \A j \in DOMAIN gs : j # 1 => j \in DOMAIN fs /\ gs[j] = fs[j]
  <2>1. g \in FrameSet
    OBVIOUS
  <2> HIDE DEF fs
  <2> QED BY <1>1, <1>4, <2>1, FramesBelow
<1>10. ~blind => \A j \in DOMAIN gs : j # 1 => gs[j].due = None
  BY <1>9 DEF SessionInv, CountInv
<1>11. ~blind /\ g.due # None => ran - g.first = g.due - 1
  BY <1>1, <1>8, DueIs
<1>12. Head(gs) = g
  BY <1>4 DEF gs
<1>6. CASE p.frames = <<>> /\ Goes(v, p.t)
           /\ \A x \in {"dbreakc0", "dbreakc1", "icountlevel", "icount"} : p.t.cache.sr[x] = v.cache.sr[x]
  <2>1. p.frames \o <<g>> \o Tail(fs) = gs
    BY <1>4, <1>6, ConcatEmptySeq
  <2> HIDE DEF gs
  <2>2. s' = Rfdo(p.t, "app") /\ host' = [at |-> "stepping", frames |-> gs, resumes |-> host.resumes]
    BY <1>3, <2>1 DEF Go
  <2>3. \A i \in Slots : p.t.cache.sr[Dbreakc[i]] = v.cache.sr[Dbreakc[i]]
    BY <1>6, DbNames DEF DbRegs
  <2>4. Hides(p.t.cache, gs) /\ (~blind => Returns(p.t.cache, gs))
    BY <1>3, <2>3 DEF Hides, Returns, Watching
  <2>5. p.t.hw.sr["icountlevel"] = 1 /\ p.t.hw.sr["icount"] = 1
    <3>1. {"icountlevel", "icount"} \subseteq SR \ {"debugcause"}
      BY DEF SR
    <3>2. p.t.cache.sr["icountlevel"] = 1 /\ p.t.cache.sr["icount"] = 1
      BY <1>6
    <3> QED BY <1>6, <3>1, <3>2 DEF Goes, Flushes, Flushed, Agree
  <2>6. ~blind => CountsOn(p.t, gs)
    <3>1. Head(gs) = g
      BY <1>4 DEF gs
    <3> QED BY <1>10, <1>11, <2>5, <3>1 DEF CountsOn
  <2> HIDE DEF fs
  <2> QED BY <1>1, <1>3, <1>5, <1>6, <2>2, <2>4, <2>6, Steps
<1>7. CASE /\ p.frames = <<p.frames[1]>> /\ Enters(v, p.t, p.frames[1], g.current, g.address)
           /\ ~Sent(g.current, g.address) /\ v.cache.sr["debugcause"] \in {"DB", "BI"}
  <2> DEFINE e == p.frames[1]
             hs == <<e>> \o gs
  <2>1. /\ e \in FrameSet /\ e.cause = v.cache.sr["debugcause"] /\ Goes(v, p.t)
        /\ \A i \in Slots : e.dbreakc[i] = v.cache.sr[Dbreakc[i]]
        /\ \A i \in Slots : p.t.cache.sr[Dbreakc[i]] = IF e.cause = "DB" THEN 0 ELSE e.dbreakc[i]
    BY <1>7 DEF Enters
  <2>2. p.frames = <<e>>
    BY <1>7
  <2> HIDE DEF e
  <2>3. <<e>> \in Seq(FrameSet)
    BY <2>1
  <2>4. p.frames \o <<g>> \o Tail(fs) = hs
    BY <1>4, <2>2, <2>3, ConcatAssociative
  <2> HIDE DEF gs
  <2>5. e.cause = "DB" => ~Hidden(gs)
    BY <1>1, <1>3, <2>1
  <2>6. hs \in Seq(FrameSet) /\ hs # <<>>
    BY <1>3, <2>1, <2>5, FramesNested
  <2>7. Hides(v.cache, gs) => Hides(p.t.cache, hs)
    BY <1>3, <2>1, <2>5, FramesNested
  <2>8. Returns(v.cache, gs) => Returns(p.t.cache, hs)
    BY <1>3, <2>1, <2>5, FramesNested
  <2> HIDE DEF hs
  <2>9. s' = Rfdo(p.t, "app") /\ host' = [at |-> "stepping", frames |-> hs, resumes |-> host.resumes]
    BY <2>4, <2>6 DEF Go
  <2>10. ~blind => CountsOn(p.t, hs)
    <3> SUFFICES ASSUME ~blind PROVE CountsOn(p.t, hs)
      OBVIOUS
    <3>1. Enters(v, p.t, e, g.current, g.address)
      BY <1>7 DEF e
    <3>2. p.t.hw.sr["icountlevel"] = 1 /\ p.t.hw.sr["icount"] = 1 /\ ran - e.first = e.due - 1
      BY <1>8, <3>1, EntersCounts
    <3>3. g.due = None
      <4>1. g.current
        BY <1>7 DEF Sent, None
      <4> QED BY <1>7, <4>1 DEF Due
    <3>4. Head(hs) = e /\ \A j \in DOMAIN hs : j # 1 => hs[j].due = None
      <4>1. Head(gs) = g /\ gs \in Seq(FrameSet) /\ gs # <<>> /\ e \in FrameSet
        BY <1>3, <1>12, <2>1
      <4>2. Head(gs).due = None /\ \A j \in DOMAIN gs : j # 1 => gs[j].due = None
        BY <1>10, <3>3, <4>1
      <4> QED BY <4>1, <4>2, FramesOnTop DEF hs
    <3> QED BY <3>2, <3>4 DEF CountsOn
  <2> HIDE DEF fs
  <2> QED BY <1>1, <1>3, <1>5, <2>1, <2>6, <2>7, <2>8, <2>9, <2>10, Steps
<1> QED BY <1>6, <1>7 DEF Prepares

\* The frame g it goes on with, from a session v that has everything fetched and a count
\* loaded, by what prepare_resume makes of that.
Meets(f, g, v, p) ==
  /\ g \in FrameSet /\ g.cause = f.cause /\ g.dbreakc = f.dbreakc /\ g.current = f.current
  /\ g.first = f.first /\ g.due = Due(f) /\ g.address \in Nat
  /\ IsSession(v) /\ AimsAt(v, g.current, g.address)
  /\ \A i \in Slots : v.hw.sr[Dbreakc[i]] = s.hw.sr[Dbreakc[i]]
  /\ \A i \in Slots : v.cache.sr[Dbreakc[i]] = s.hw.sr[Dbreakc[i]]
  /\ v.cache.sr["debugcause"] = s.hw.sr["debugcause"]
  /\ v.cache.sr["icountlevel"] = 1 /\ v.cache.sr["icount"] = 1
  /\ Agree(v.hw, v.cache, {"icountlevel", "icount"})
  /\ Prepares(v, p, g.current, g.address)
  /\ Go(p.t, p.frames \o <<g>> \o Tail(host.frames), host.resumes)

\* The address it goes on at is given to a resume with what was fetched.
LEMMA HandlerMet ==
  ASSUME SessionInv, StepStopped, s.hw.sr["pc"] \in Handlers
  PROVE  \E g, v, p : Meets(Head(host.frames), g, v, p)
<1> DEFINE f == Head(host.frames)
           t == FetchAllRegs(s)
<1>1. /\ host.at = "stepping" /\ Halted /\ UNCHANGED <<bps, wps, blind>> /\ ran' = ran
  BY DEF StepStopped
<1>2. /\ IsSession(s) /\ Tidy(s.cache) /\ Sound(s) /\ ran \in Int
      /\ host.frames \in Seq(FrameSet) /\ host.frames # <<>>
  BY <1>1, StepFound DEF SessionInv, DataInv
<1>3. f \in FrameSet
  BY <1>2, HeadTailProperties
<1>4. Fetches(s, t)
  BY <1>2, FetchRests
<1>5. t.cache.sr["pc"] = s.hw.sr["pc"] /\ t.cache.sr["debugcause"] = s.hw.sr["debugcause"]
  BY <1>4 DEF Fetches, SR
<1> DEFINE pc == t.cache.sr["pc"]
           nests == f.current /\ CauseGet(t.cache) \in {"DB", "BI"}
           due == IF f.due = None \/ nests THEN None
                  ELSE IF CauseGet(t.cache) = "IC" THEN f.due + 1
                  ELSE f.due
           g == [f EXCEPT !.address = Next3(pc), !.due = due]
           u == IF f.current THEN t ELSE [t EXCEPT !.ctx = "lost"]
           v == Loaded(u)
           p == Prepare(v, g.current, g.address, FALSE)
<1>6. Go(p.t, p.frames \o <<g>> \o Tail(host.frames), host.resumes)
  BY <1>5 DEF StepStopped
<1>7. IsSession(t) /\ Rests(t) /\ Tidy(t.cache)
      /\ \A r \in SR \ {"cpenable"} : t.hw.sr[r] = s.hw.sr[r] /\ t.cache.sr[r] = s.hw.sr[r]
  BY <1>4 DEF Fetches
<1> HIDE DEF t
<1>8. pc \in Int /\ Next3(pc) \in Nat
  <2>1. pc \in Int
    BY <1>7 DEF IsSession, IsCache, IsRegs, Numbers
  <2> QED BY <2>1, NextIs
<1>9. due \in Int
  <2>1. f.due \in Int
    BY <1>3 DEF FrameSet
  <2> QED BY <2>1 DEF None
<1>17. due = Due(f)
  BY <1>5 DEF Due, CauseGet
<1> HIDE DEF due
<1>10. /\ g \in FrameSet /\ g.cause = f.cause /\ g.dbreakc = f.dbreakc /\ g.current = f.current
       /\ g.address = Next3(pc) /\ g.first = f.first /\ g.due = due
  <2>1. PICK f1 : f1 = [f EXCEPT !.address = Next3(pc)]
    OBVIOUS
  <2>2. /\ f1 \in FrameSet /\ f1.cause = f.cause /\ f1.dbreakc = f.dbreakc /\ f1.current = f.current
        /\ f1.address = Next3(pc) /\ f1.first = f.first
    BY <1>3, <1>8, <2>1 DEF FrameSet
  <2>3. g = [f1 EXCEPT !.due = due]
    BY <2>1
  <2> HIDE DEF g, f
  <2> QED BY <1>9, <2>2, <2>3 DEF FrameSet
<1> HIDE DEF g
<1>11. /\ IsSession(u) /\ u.hw = t.hw /\ u.cache = t.cache /\ AimsAt(u, g.current, g.address)
  <2>1. CASE f.current
    <3>1. u = t /\ g.current
      BY <1>10, <2>1
    <3> QED BY <1>7, <3>1 DEF AimsAt, Sent, Rests, Sound
  <2>2. CASE ~f.current
    <3>1. u = [t EXCEPT !.ctx = "lost"]
      BY <2>2
    <3> HIDE DEF u
    <3>0. IsSession(t)
      BY <1>7
    <3>2. IsSession(u) /\ u.hw = t.hw /\ u.cache = t.cache /\ u.ctx = "lost"
      BY <3>0, <3>1, CtxSet
    <3> QED BY <3>2 DEF AimsAt, Stored, GoesOn
  <2> QED BY <2>1, <2>2
<1> HIDE DEF u
<1>12. /\ IsSession(v) /\ v.hw = u.hw /\ AimsAt(v, g.current, g.address)
       /\ \A x \in SR \ {"icountlevel", "icount"} : v.cache.sr[x] = u.cache.sr[x]
       /\ v.cache.sr["icountlevel"] = 1 /\ v.cache.sr["icount"] = 1 /\ Gentle(u.cache, v.cache)
  <2>1. Quiet(u, v) /\ AimsAt(v, g.current, g.address)
    BY <1>11, LoadedAims
  <2>2. \A x \in SR \ {"icountlevel", "icount"} : v.cache.sr[x] = u.cache.sr[x]
    BY <1>11, LoadedAims
  <2>3. v.cache.sr["icountlevel"] = 1 /\ v.cache.sr["icount"] = 1 /\ Gentle(u.cache, v.cache)
    BY <1>11, LoadedAims
  <2> QED BY <2>1, <2>2, <2>3 DEF Quiet
<1> HIDE DEF v
<1>13. Prepares(v, p, g.current, g.address)
  <2>1. g.current \in BOOLEAN /\ g.address \in Int
    BY <1>10 DEF FrameSet
  <2> QED BY <1>2, <1>12, <2>1, PrepareSound
<1> HIDE DEF p
<1>14. \A i \in Slots : v.hw.sr[Dbreakc[i]] = s.hw.sr[Dbreakc[i]] /\ v.cache.sr[Dbreakc[i]] = s.hw.sr[Dbreakc[i]]
  <2> SUFFICES ASSUME NEW i \in Slots
               PROVE  v.hw.sr[Dbreakc[i]] = s.hw.sr[Dbreakc[i]] /\ v.cache.sr[Dbreakc[i]] = s.hw.sr[Dbreakc[i]]
    OBVIOUS
  <2>1. Dbreakc[i] \in SR \ {"cpenable", "icount", "icountlevel"}
    BY DbNames
  <2> QED BY <1>7, <1>11, <1>12, <2>1
<1>15. v.cache.sr["debugcause"] = s.hw.sr["debugcause"]
  BY <1>5, <1>11, <1>12 DEF SR
<1>16. Agree(v.hw, v.cache, {"icountlevel", "icount"})
  <2> SUFFICES ASSUME NEW r \in {"icountlevel", "icount"}, r \notin v.cache.dsr
               PROVE  v.hw.sr[r] = v.cache.sr[r]
    BY DEF Agree
  <2>1. r \in SR \ {"debugcause"} /\ r \in SR \ {"cpenable"}
    BY DEF SR
  <2>2. v.cache.sr[r] = u.cache.sr[r]
    BY <1>12, <2>1 DEF Gentle
  <2> QED BY <1>7, <1>11, <1>12, <2>1, <2>2
<1> HIDE DEF f
<1>18. Meets(f, g, v, p)
  BY <1>6, <1>8, <1>10, <1>12, <1>13, <1>14, <1>15, <1>16, <1>17 DEF Meets
<1> QED BY <1>18 DEF f

\* So a step that stops in a handler goes on.
LEMMA StepInHandler ==
  ASSUME SessionInv, StepStopped, s.hw.sr["pc"] \in Handlers
  PROVE  Held
<1>1. /\ host.at = "stepping" /\ Halted /\ UNCHANGED <<bps, wps, blind>> /\ ran' = ran
  BY DEF StepStopped
<1>2. PICK g, v, p : Meets(Head(host.frames), g, v, p)
  BY HandlerMet
<1>3. /\ g \in FrameSet /\ g.cause = Head(host.frames).cause /\ g.dbreakc = Head(host.frames).dbreakc
      /\ IsSession(v) /\ AimsAt(v, g.current, g.address)
      /\ \A i \in Slots : v.hw.sr[Dbreakc[i]] = s.hw.sr[Dbreakc[i]]
      /\ \A i \in Slots : v.cache.sr[Dbreakc[i]] = s.hw.sr[Dbreakc[i]]
      /\ v.cache.sr["debugcause"] = s.hw.sr["debugcause"]
      /\ g.first = Head(host.frames).first /\ g.due = Due(Head(host.frames)) /\ g.address \in Nat
      /\ g.current = Head(host.frames).current
      /\ v.cache.sr["icountlevel"] = 1 /\ v.cache.sr["icount"] = 1
      /\ Agree(v.hw, v.cache, {"icountlevel", "icount"})
      /\ Prepares(v, p, g.current, g.address)
      /\ Go(p.t, p.frames \o <<g>> \o Tail(host.frames), host.resumes)
  BY <1>2 DEF Meets
<1> QED BY <1>1, <1>3, StepNests

-------------------------------------------------------------------------------
(* Every step, and the theorems.                                            *)

\* The step is over: to its caller, to the step or to the resume that needed it.
LEMMA StepReturns ==
  ASSUME SessionInv, StepStopped, s.hw.sr["pc"] \notin Handlers
  PROVE  Held
<1> DEFINE fs == host.frames
           f == Head(fs)
           below == Tail(fs)
           done == FetchAllRegs(WriteDirty(WatchesBack(FetchAllRegs(s), f)))
<1>1. /\ host.at = "stepping" /\ Halted /\ UNCHANGED <<bps, wps, blind>> /\ ran' = ran
  BY DEF StepStopped
<1>2. /\ IsSession(s) /\ Tidy(s.cache) /\ Sound(s)
      /\ fs \in Seq(FrameSet) /\ fs # <<>> /\ host.resumes \in BOOLEAN
      /\ \A i \in Slots : s.hw.sr[Dbreakc[i]] = s.cache.sr[Dbreakc[i]]
      /\ Hides(s.cache, fs)
      /\ ~blind => Returns(s.cache, fs)
  BY <1>1, StepFound
<1>3. FetchAllRegs(s).cache.sr["pc"] = s.hw.sr["pc"]
  <2>1. Fetches(s, FetchAllRegs(s))
    BY <1>2, FetchRests
  <2> QED BY <2>1 DEF Fetches, SR
<1>4. IF below = <<>> /\ ~host.resumes
      THEN s' = done /\ host' = Idle
      ELSE Go(Armed(done), below, host.resumes)
  BY <1>3 DEF StepStopped
<1>5. f \in FrameSet /\ below \in Seq(FrameSet)
  BY <1>2, HeadTailProperties
<1>6. Ends(s, f, done)
  BY <1>2, <1>5, StepEnds
<1> HIDE DEF done
<1>13. done.hw.sr["icount"] = done.cache.sr["icount"]
  BY <1>6 DEF Ends
<1>14. ~blind => \A j \in DOMAIN below : below[j].due = None
  <2>1. ~blind => \A j \in DOMAIN fs : j # 1 => fs[j].due = None
    BY <1>1 DEF SessionInv, CountInv
  <2> QED BY <1>2, <2>1, FramesSplit
<1>7. /\ IsSession(done) /\ Rests(done) /\ Tidy(done.cache)
      /\ done.hw.run = s.hw.run /\ done.hw.irq = s.hw.irq
      /\ \A r \in DbRegs \cup {"icountlevel"} : done.hw.sr[r] = done.cache.sr[r]
      /\ done.cache.sr["icountlevel"] = 0
      /\ \A i \in Slots : done.cache.sr[Dbreakc[i]] =
           IF f.cause = "DB" THEN f.dbreakc[i] ELSE s.cache.sr[Dbreakc[i]]
  BY <1>2, <1>6 DEF Ends
<1>8. Hides(done.cache, below) /\ (~blind => Returns(done.cache, below))
  <2>1. Hides(s.cache, fs) => Hides(done.cache, below)
    BY <1>2, <1>7, FramesPopped
  <2>2. Hides(s.cache, fs) /\ Returns(s.cache, fs) => Returns(done.cache, below)
    BY <1>2, <1>7, FramesPopped
  <2> QED BY <1>2, <2>1, <2>2
<1> HIDE DEF f, below, fs
<1>9. Agree(done.hw, done.cache, DbRegs)
  BY <1>7 DEF Agree
<1>10. below = <<>> /\ ~blind => Steady(done.cache) /\ done.hw.sr["icountlevel"] = 0
  <2> SUFFICES ASSUME below = <<>>, ~blind
               PROVE  Watching(done.cache)
    BY <1>7 DEF Steady
  <2>1. ~Hidden(below)
    BY DEF Hidden
  <2> QED BY <1>8, <2>1 DEF Returns
<1>11. CASE below = <<>> /\ ~host.resumes
  <2>1. s' = done /\ host' = Idle /\ host'.at = "idle"
    BY <1>4, <1>11, IdleIs
  <2>2. DataInv'
    BY <1>1, <1>7, <1>9, <2>1 DEF SessionInv, DataInv, Agree, Halted
  <2>3. RestInv'
    <3>1. (Rests(s))'
      BY <1>7, <2>1 DEF Rests, Sound, Stored, GoesOn, Agree
    <3> QED BY <1>1, <1>7, <2>1, <3>1 DEF RestInv, Halted
  <2>4. SteadyInv'
    BY <1>1, <1>10, <1>11, <2>1 DEF SteadyInv, Steady, Watching, Watch
  <2>5. StepInv' /\ WaitInv' /\ CallInv'
    BY <2>1 DEF StepInv, WaitInv, CallInv
  <2>6. Intact /\ Rearmed
    BY <1>1, <1>7, <2>1 DEF Intact, Rearmed, Released, Halted
  <2>7. CountInv'
    BY <1>13, <2>1 DEF CountInv, Agree
  <2> QED BY <2>2, <2>3, <2>4, <2>5, <2>6, <2>7 DEF Held, SessionInv
<1>12. CASE ~(below = <<>> /\ ~host.resumes)
  <2> DEFINE y == Armed(done)
  <2>1. /\ Goes(done, y) /\ \A x \in SR \ IbreakRegs : y.cache.sr[x] = done.cache.sr[x]
    <3>1. Stored(done) /\ GoesOn(done)
      BY <1>7 DEF Rests, Sound
    <3>2. \A x \in SR \ IbreakRegs : y.cache.sr[x] = done.cache.sr[x]
      BY <1>7, ArmedSound
    <3>3. Goes(done, y)
      BY <1>7, <3>1, ArmedSound
    <3> QED BY <3>2, <3>3
  <2>2. Go(y, below, host.resumes)
    BY <1>4, <1>12
  <2> HIDE DEF y
  <2>3. \A r \in DbRegs \cup {"icountlevel"} : y.cache.sr[r] = done.cache.sr[r]
    BY <2>1, DbNames
  <2>4. CASE below = <<>>
    <3>1. s' = Rfdo(y, "app") /\ host' = Idle
      BY <2>2, <2>4 DEF Go
    <3>2. done.ctx \in {"cached", "both"} => Agree(done.hw, done.cache, SR \ {"debugcause", "cpenable"})
      BY <1>7 DEF Rests
    <3>3. ~blind => Steady(done.cache) /\ done.hw.sr["icountlevel"] = 0
      BY <1>10, <2>4
    <3>4. Agree(done.hw, done.cache, {"icount"})
      BY <1>13 DEF Agree
    <3> QED BY <1>1, <1>9, <2>1, <2>3, <3>1, <3>2, <3>3, <3>4, Departs
  <2>5. CASE below # <<>>
    <3>1. s' = Rfdo(y, "app") /\ host' = [at |-> "stepping", frames |-> below, resumes |-> host.resumes]
      BY <2>2, <2>5 DEF Go
    <3>2. \A i \in Slots : y.cache.sr[Dbreakc[i]] = done.cache.sr[Dbreakc[i]]
      BY <2>3, DbNames
    <3>3. Hides(y.cache, below) /\ (~blind => Returns(y.cache, below))
      BY <1>8, <3>2 DEF Hides, Returns, Watching
    <3>4. ~blind => CountsOn(y, below)
      <4>1. 1 \in DOMAIN below /\ below[1] = Head(below)
        BY <1>5, <2>5, FramesSplit
      <4> QED BY <1>14, <4>1 DEF CountsOn
    <3> QED BY <1>1, <1>2, <1>5, <1>9, <2>1, <2>5, <3>1, <3>3, <3>4, Steps
  <2> QED BY <2>4, <2>5
<1> QED BY <1>11, <1>12

\* A step that has stopped, one way or the other.
LEMMA StepStoppedKeeps == ASSUME SessionInv, StepStopped PROVE Held
BY StepInHandler, StepReturns

\* Nothing happens.
LEMMA NothingKeeps == ASSUME SessionInv, UNCHANGED vars PROVE Held
<1>1. UNCHANGED <<s, host, bps, wps, blind, ran>>
  BY DEF vars
<1>2. bps' \in [Slots -> Addresses \cup {None}]
  BY <1>1 DEF SessionInv, DataInv
<1> QED BY <1>1, <1>2, Untouched

\* A program that runs, caches nothing fetched, no slot taken.
LEMMA StartsSound == Init => SessionInv
<1> SUFFICES ASSUME Init PROVE SessionInv
  OBVIOUS
<1> DEFINE r == [NewCache.sr EXCEPT !["cpenable"] = 1, !["eps"] = 1]
           h == [ar |-> [k \in Phys |-> k + 1], sr |-> r, vecbase |-> 0, run |-> "app", irq |-> FALSE]
<1>1. /\ s = [hw |-> h, cache |-> NewCache, ctx |-> "lost", app |-> ProgramState(h)]
      /\ host.at = "idle" /\ bps = [i \in Slots |-> None] /\ wps = [i \in Slots |-> None]
      /\ blind = FALSE /\ ran = 0
  BY IdleIs DEF Init
<1>2. /\ NewCache.sr = [x \in SR |-> IF x = "ibreakenable" THEN {} ELSE IF x = "debugcause" THEN "none" ELSE 0]
      /\ NewCache.dsr = {} /\ NewCache.dar = {} /\ NewCache.da = {}
  BY DEF NewCache
<1>3. IsRegs(NewCache.sr) /\ IsCache(NewCache)
  <2>1. IsRegs(NewCache.sr)
    BY <1>2 DEF IsRegs, Numbers, SR, AllCauses
  <2>2. NewCache = [sr |-> NewCache.sr, ar |-> NewCache.ar, a |-> NewCache.a,
                    dsr |-> NewCache.dsr, dar |-> NewCache.dar, da |-> NewCache.da]
    BY DEF NewCache
  <2>3. NewCache.ar = [k \in Phys |-> NewCache.ar[k]] /\ NewCache.a = [n \in Seen |-> NewCache.a[n]]
    BY DEF NewCache
  <2> QED BY <1>2, <2>1, <2>2, <2>3 DEF IsCache
<1>4. /\ r = [x \in SR |-> r[x]]
      /\ \A x \in SR \ {"cpenable", "eps"} : r[x] = NewCache.sr[x]
  BY <1>2
<1> HIDE DEF r
<1>5. IsRegs(r)
  <2>1. Numbers \cup {"debugcause"} \subseteq SR \ {"cpenable", "eps"}
    BY DEF Numbers, SR
  <2> QED BY <1>3, <1>4, <2>1 DEF IsRegs
<1>6. IsCore(h) /\ h.sr = r /\ h.run = "app"
  BY <1>5 DEF IsCore
<1> HIDE DEF h
<1>7. IsProgram(ProgramState(h))
  BY DEF IsProgram, ProgramState
<1>8. IsSession(s) /\ s.hw = h /\ s.cache = NewCache /\ s.ctx = "lost"
  BY <1>1, <1>3, <1>6, <1>7 DEF IsSession
<1>9. \A x \in DbRegs \cup {"icountlevel"} : s.hw.sr[x] = 0 /\ s.cache.sr[x] = 0
  <2>1. DbRegs \cup {"icountlevel"} \subseteq SR \ {"cpenable", "eps", "debugcause", "ibreakenable"}
    BY DbNames DEF IbreakRegs, SR
  <2>2. \A x \in DbRegs \cup {"icountlevel"} : NewCache.sr[x] = 0
    BY <1>2, <2>1 DEF DbRegs
  <2> QED BY <1>4, <1>6, <1>8, <2>1, <2>2
<1>10. DataInv
  <2>1. Tidy(s.cache)
    BY <1>2, <1>8 DEF Tidy
  <2>2. Agree(s.hw, s.cache, DbRegs)
    BY <1>9 DEF Agree
  <2>3. bps \in [Slots -> Addresses \cup {None}] /\ wps \in [Slots -> {None, 1, 2}]
    BY <1>1
  <2>4. ~Halted
    BY <1>6, <1>8 DEF Halted
  <2>5. ran \in Int
    <3>1. ran = 0
      BY <1>1
    <3> QED BY <3>1
  <2>6. blind \in BOOLEAN
    <3>1. blind = FALSE
      BY <1>1
    <3> QED BY <3>1
  <2>7. IsSession(s)
    BY <1>8
  <2> QED BY <2>1, <2>2, <2>3, <2>4, <2>5, <2>6, <2>7 DEF DataInv
<1>11. RestInv
  BY <1>6, <1>8 DEF RestInv, Halted
<1>12. SteadyInv
  <2>1. \A i \in Slots : Watch(i) = 0
    BY <1>1 DEF Watch
  <2> QED BY <1>9, <2>1, DbNames DEF SteadyInv, Steady, Watching
<1>13. StepInv /\ WaitInv /\ CallInv
  BY <1>1 DEF StepInv, WaitInv, CallInv
<1>14. CountInv
  <2>1. "icount" \in SR \ {"cpenable", "eps", "debugcause", "ibreakenable"}
    BY DEF SR
  <2>2. r["icount"] = NewCache.sr["icount"]
    BY <1>4, <2>1
  <2> QED BY <1>1, <1>6, <1>8, <2>2 DEF CountInv, Agree
<1> QED BY <1>10, <1>11, <1>12, <1>13, <1>14 DEF SessionInv

\* One step.
LEMMA StepKeeps == ASSUME SessionInv, [Next]_vars PROVE Held
<1>1. CASE XtensaResume \/ XtensaDoStep \/ StepStopped \/ StepTimesOut
  BY <1>1, XtensaResumeKeeps, XtensaDoStepKeeps, StepStoppedKeeps, StepTimesOutKeeps
<1>2. CASE HaltRequest \/ HaltSeen \/ HaltGivesUp \/ ClearDebugInterrupt \/ Resume \/ Fetch \/ Access
  BY <1>2, HaltRequestKeeps, HaltSeenKeeps, HaltGivesUpKeeps, ClearDebugInterruptKeeps, ResumeKeeps, FetchKeeps, AccessKeeps
<1>3. CASE AddBreakpoint \/ RemoveBreakpoint \/ AddWatchpoint \/ RemoveWatchpoint
  BY <1>3, AddBreakpointKeeps, RemoveBreakpointKeeps, AddWatchpointKeeps, RemoveWatchpointKeeps
<1>4. CASE StartAlgorithm \/ AlgorithmStopped \/ AlgorithmTimesOut \/ AlgorithmLost
  BY <1>4, StartAlgorithmKeeps, AlgorithmStoppedKeeps, AlgorithmTimesOutKeeps, AlgorithmLostKeeps
<1>5. CASE CallFunction \/ CallReturned \/ CallTimesOut \/ Load
  BY <1>5, CallFunctionKeeps, CallReturnedKeeps, CallTimesOutKeeps, LoadKeeps
<1>6. CASE ProgramStops \/ ProgramRuns \/ StubStops
  BY <1>6, ProgramStopsKeeps, ProgramRunsKeeps, StubStopsKeeps
<1>7. CASE UNCHANGED vars
  BY <1>7, NothingKeeps
<1> QED BY <1>1, <1>2, <1>3, <1>4, <1>5, <1>6, <1>7 DEF Next

\* Every state the system reaches.
THEOREM SessionsAreSound == Spec => []SessionInv
<1>1. SessionInv /\ [Next]_vars => SessionInv'
  BY StepKeeps DEF Held
<1> QED BY StartsSound, <1>1, PTL DEF Spec

\* ProgramIntact: whenever the program goes on, by whatever way, it has the registers,
\* the window, the coprocessors and the PC it stopped with or was sent to, for every
\* register file, window, scratch register and program.
THEOREM ProgramStaysIntact == Spec => ProgramIntact
<1>1. SessionInv /\ [Next]_vars => [Released /\ s'.ctx # "lost" => ProgramState(s'.hw) = s'.app]_vars
  BY StepKeeps DEF Held, Intact
<1> QED BY <1>1, SessionsAreSound, PTL DEF Spec, ProgramIntact

\* StepMovesOn: a step that ends executed the instruction it was for and one more for each
\* count that ran out in a window handler, whatever else stopped it in between.
THEOREM StepsMoveOn == Spec => StepMovesOn
<1> DEFINE A == host.at = "stepping" /\ Halted /\ ~blind /\ s.hw.sr["debugcause"] \in {"IC", "DB"} =>
         LET f == Head(host.frames)
         IN (host' = Idle \/ Len(host'.frames) < Len(host.frames))
              /\ (s.hw.sr["debugcause"] = "IC" \/ f.cause = "DB") /\ f.due # None
              => ran - f.first = f.due
<1>1. ASSUME SessionInv PROVE A
  <2> DEFINE f == Head(host.frames)
  <2> SUFFICES ASSUME host.at = "stepping", Halted, ~blind, s.hw.sr["debugcause"] \in {"IC", "DB"},
                      s.hw.sr["debugcause"] = "IC" \/ f.cause = "DB", f.due # None
               PROVE  ran - f.first = f.due
    OBVIOUS
  <2>1. Counted(f)
    BY <1>1 DEF SessionInv, CountInv
  <2>2. s.hw.sr["debugcause"] = "IC"
    <3>1. /\ s.hw.sr["debugcause"] = "DB" => ~Hidden(host.frames)
          /\ host.frames \in Seq(FrameSet) /\ host.frames # <<>>
      BY <1>1, StepFound
    <3>2. 1 \in DOMAIN host.frames /\ host.frames[1] = f
      BY <3>1, FramesSplit
    <3> QED BY <3>1, <3>2 DEF Hidden
  <2> HIDE DEF f
  <2> QED BY <2>1, <2>2 DEF Counted
<1>2. SessionInv /\ [Next]_vars => [A]_vars
  BY <1>1
<1> QED BY <1>2, SessionsAreSound, PTL DEF Spec, StepMovesOn

\* ArmedAtResume: a resume that ends leaves exactly the occupied slots armed, in the
\* core, and no count, unless a step timed out or a fetch lost what was not written.
THEOREM ResumesAreArmed == Spec => ArmedAtResume
<1> DEFINE A == Released /\ host' = Idle /\ s'.ctx = "both" /\ ~blind' =>
         LET h == s'.hw
         IN /\ h.sr["ibreakenable"] = Occupied
            /\ \A i \in Occupied : h.sr[Ibreaka[i]] = bps[i]
            /\ \A i \in Slots : h.sr[Dbreakc[i]] = IF wps[i] = None THEN 0 ELSE wps[i]
            /\ h.sr["icountlevel"] = 0
<1>1. SessionInv /\ [Next]_vars => [A]_vars
  BY StepKeeps DEF Held, Rearmed
<1> QED BY <1>1, SessionsAreSound, PTL DEF Spec, ArmedAtResume

-------------------------------------------------------------------------------
(* What a function that was called gives back.                              *)

\* The values of an interval, counted.
LEMMA Counts ==
  ASSUME NEW a \in Int, NEW b \in Int, a <= b + 1
  PROVE  IsFiniteSet(a .. b) /\ Cardinality(a .. b) = (b - a) + 1
<1>1. IsFiniteSet(a .. b) /\ Cardinality(a .. b) = IF a > b THEN 0 ELSE b - a + 1
  BY FS_Interval
<1> QED BY <1>1

\* There are more values that code leaves than registers.
LEMMA Spare ==
  /\ ARegs \in Nat
  /\ IsFiniteSet(Phys) /\ Cardinality(Phys) = ARegs
  /\ IsFiniteSet(LeftByCode) /\ Cardinality(LeftByCode) = ARegs + 1
<1>1. ARegs \in Nat
  BY Windows
<1>2. IsFiniteSet(0 .. ARegs - 1) /\ Cardinality(0 .. ARegs - 1) = ((ARegs - 1) - 0) + 1
  BY <1>1, Counts
<1>3. IsFiniteSet(60 .. 60 + ARegs) /\ Cardinality(60 .. 60 + ARegs) = ((60 + ARegs) - 60) + 1
  BY <1>1, Counts
<1> QED BY <1>1, <1>2, <1>3 DEF Phys, LeftByCode

\* Code leaves a value that no register had.
LEMMA Fresh ==
  ASSUME NEW ar, ar = [k \in Phys |-> ar[k]]
  PROVE  \E v \in LeftByCode : \A k \in Phys : ar[k] # v
<1> DEFINE T == {ar[k] : k \in Phys}
<1>1. ARegs \in Nat
  BY Spare
<1>2. IsFiniteSet(Phys) /\ Cardinality(Phys) = ARegs
  BY Spare
<1>3. IsFiniteSet(LeftByCode) /\ Cardinality(LeftByCode) = ARegs + 1
  BY Spare
<1>4. ar \in Surjection(Phys, T)
  BY DEF Surjection
<1>5. IsFiniteSet(T) /\ Cardinality(T) <= ARegs
  BY <1>2, <1>4, FS_Surjection
<1>6. ~(LeftByCode \subseteq T)
  <2>1. ASSUME LeftByCode \subseteq T PROVE FALSE
    <3>1. Cardinality(LeftByCode) <= Cardinality(T)
      BY <1>5, <2>1, FS_Subset
    <3>2. Cardinality(T) \in Nat
      BY <1>5, FS_CardinalityType
    <3> QED BY <1>1, <1>3, <1>5, <3>1, <3>2
  <2> QED BY <2>1
<1> QED BY <1>6

\* Registers of a call in progress that nothing puts back are as they were, or the code's.
SavedInv ==
  host.at = "calling" =>
    /\ host.windowed \in BOOLEAN /\ host.saved = SavedArs(host.before, host.windowed)
    /\ host.windowed \/ s.hw.vecbase = host.before.vecbase
    /\ \A k \in Phys : k \in DOMAIN host.saved \/ s.hw.ar[k] = host.before.ar[k]
                       \/ s.hw.ar[k] \in LeftByCode

\* What is saved: the values of all registers, or those of the window's lower half.
LEMMA SavedIs ==
  ASSUME NEW h, IsCore(h), NEW windowed \in BOOLEAN
  PROVE  /\ windowed => DOMAIN SavedArs(h, windowed) = Phys
         /\ ~windowed => DOMAIN SavedArs(h, windowed) = WindowOf(h.sr["windowbase"], LowSaved)
         /\ \A k \in DOMAIN SavedArs(h, windowed) : SavedArs(h, windowed)[k] = h.ar[k]
         /\ Canonical(0, h.sr["windowbase"]) \in DOMAIN SavedArs(h, windowed)
         /\ Canonical(Scratch, h.sr["windowbase"]) \in DOMAIN SavedArs(h, windowed)
         /\ \A k \in WindowOf(h.sr["windowbase"], LowSaved) : k \in DOMAIN SavedArs(h, windowed)
<1> DEFINE wb == h.sr["windowbase"]
           D == {Canonical(n, wb) : n \in IF windowed THEN Phys ELSE LowSaved}
<1>1. DOMAIN SavedArs(h, windowed) = D /\ \A k \in D : SavedArs(h, windowed)[k] = h.ar[k]
  BY DEF SavedArs
<1>2. wb \in Int /\ 0 \in Phys /\ Scratch \in Phys
  BY Windows DEF IsCore, IsRegs, Numbers, Phys
<1>3. windowed => D = Phys
  BY <1>2, Places
<1>4. ~windowed => D = WindowOf(wb, LowSaved)
  BY DEF WindowOf
<1>5. WindowOf(wb, LowSaved) \subseteq D
  BY <1>2 DEF WindowOf, LowSaved
<1>6. Canonical(0, wb) \in D /\ Canonical(Scratch, wb) \in D
  BY <1>5 DEF WindowOf, LowSaved
<1> HIDE DEF D
<1> QED BY <1>1, <1>3, <1>4, <1>5, <1>6

\* A call begins: what it changes is saved.
LEMMA CallFunctionSaves == ASSUME SessionInv, CallFunction PROVE SavedInv'
<1>1. /\ IsSession(s) /\ IsCore(s.hw)
  BY DEF SessionInv, DataInv, IsSession
<1> DEFINE special == SetSr(SetSr(Injected(s.hw), "eps", 3), "pc", Entry)
           vectors(windowed) == IF windowed THEN SetVecbase(special, 2) ELSE special
           low(windowed) == SetAr(SetAr(vectors(windowed), 0, 80), Scratch, 81)
           args(windowed) == IF windowed THEN SetAr(low(windowed), 2, 82) ELSE low(windowed)
<1>3. PICK windowed \in BOOLEAN :
        /\ s' = Rfdo([s EXCEPT !.hw = args(windowed)], "stub")
        /\ host' = [at |-> "calling", windowed |-> windowed, before |-> s.hw, saved |-> SavedArs(s.hw, windowed)]
  BY DEF CallFunction
<1>2. host'.windowed = windowed /\ host'.before = s.hw /\ host'.saved = SavedArs(s.hw, windowed)
  BY <1>3
<1>4. CASE windowed
  <2>1. DOMAIN host'.saved = Phys
    BY <1>1, <1>2, <1>4, SavedIs
  <2> QED BY <1>2, <1>4, <2>1 DEF SavedInv
<1>5. CASE ~windowed
  <2> DEFINE wb == s.hw.sr["windowbase"]
             a == SetSr(s.hw, "eps", 3)
             b == SetSr(a, "pc", Entry)
             c == SetAr(b, 0, 80)
             d == SetAr(c, Scratch, 81)
  <2>1. Fits("eps", 3) /\ Fits("pc", Entry) /\ "windowbase" \in SR \ {"eps", "pc"}
    BY ProgramAssumption DEF Fits, SR, Numbers
  <2>2. 0 \in Phys /\ Scratch \in Phys
    BY Windows DEF Phys
  <2>3. /\ IsCore(a) /\ a.sr["windowbase"] = wb /\ a.vecbase = s.hw.vecbase
        /\ \A k \in Phys : k # Canonical(Scratch, wb) => a.ar[k] = s.hw.ar[k]
    BY <1>1, <2>1, CoreSpecial
  <2>4. s' = Rfdo([s EXCEPT !.hw = d], "stub")
    BY <1>1, <1>3, <1>5, InjectedSame
  <2> HIDE DEF a
  <2>5. /\ IsCore(b) /\ b.sr["windowbase"] = wb /\ b.vecbase = s.hw.vecbase
        /\ \A k \in Phys : k # Canonical(Scratch, wb) => b.ar[k] = a.ar[k]
    BY <2>1, <2>3, CoreSpecial
  <2> HIDE DEF b
  <2>6. /\ IsCore(c) /\ c.sr["windowbase"] = wb /\ c.vecbase = s.hw.vecbase
        /\ \A k \in Phys : k # Canonical(0, wb) => c.ar[k] = b.ar[k]
    BY <2>2, <2>5, CoreSet
  <2> HIDE DEF c
  <2>7. /\ IsCore(d) /\ d.vecbase = s.hw.vecbase
        /\ \A k \in Phys : k # Canonical(Scratch, wb) => d.ar[k] = c.ar[k]
    BY <2>2, <2>6, CoreSet
  <2> HIDE DEF d
  <2>8. s'.hw.ar = d.ar /\ s'.hw.vecbase = d.vecbase
    <3>1. IsSession([s EXCEPT !.hw = d]) /\ [s EXCEPT !.hw = d].hw = d
      BY <1>1, <2>7, HwSet
    <3> DEFINE t == [s EXCEPT !.hw = d]
    <3>2. IsSession(t) /\ t.hw = d /\ s' = Rfdo(t, "stub")
      BY <2>4, <3>1
    <3> HIDE DEF t
    <3> QED BY <3>2 DEF Rfdo, IsSession, IsCore
  <2>9. \A k \in Phys : k \in DOMAIN host'.saved \/ s'.hw.ar[k] = s.hw.ar[k]
    <3>1. Canonical(0, wb) \in DOMAIN host'.saved /\ Canonical(Scratch, wb) \in DOMAIN host'.saved
      BY <1>1, <1>2, SavedIs
    <3> QED BY <2>3, <2>5, <2>6, <2>7, <2>8, <3>1
  <2> QED BY <1>2, <2>7, <2>8, <2>9 DEF SavedInv
<1> QED BY <1>4, <1>5

\* The code stops: a register that it used has its value.
LEMMA StubStopsSaves == ASSUME SessionInv, SavedInv, StubStops PROVE SavedInv'
<1>1. IsSession(s) /\ IsCore(s.hw) /\ host' = host
  BY DEF StubStops, SessionInv, DataInv, IsSession
<1> DEFINE v == CHOOSE v \in LeftByCode : \A k \in Phys : s.hw.ar[k] # v
<1>2. v \in LeftByCode
  <2>1. s.hw.ar = [k \in Phys |-> s.hw.ar[k]]
    BY <1>1 DEF IsCore
  <2> QED BY <2>1, Fresh
<1>3. PICK used \in {{5}, Phys}, wb \in {s.hw.sr["windowbase"], 1},
           eps \in {s.hw.sr["eps"], 4}, cause \in {"BI", "DI"} :
         s' = [s EXCEPT !.hw = Stop([s.hw EXCEPT !.ar = [k \in Phys |-> IF k \in used THEN v ELSE @[k]],
                                       !.sr["windowbase"] = wb, !.sr["pc"] = Exit, !.sr["eps"] = eps], cause)]
  BY ZenonT(60) DEF StubStops
<1> HIDE DEF v
<1>4. \A k \in Phys : s'.hw.ar[k] = IF k \in used THEN v ELSE s.hw.ar[k]
  BY <1>1, <1>3 DEF Stop, IsSession, IsCore
<1>5. s'.hw.vecbase = s.hw.vecbase
  BY <1>1, <1>3 DEF Stop, IsSession, IsCore
<1> QED BY <1>1, <1>2, <1>4, <1>5 DEF SavedInv

\* While a call is in progress, its own code runs or the host puts back.
LEMMA CallAlone ==
  ASSUME SessionInv, Next, host.at = "calling"
  PROVE  CallReturned \/ CallTimesOut \/ StubStops
<1>1. s.hw.run # "app"
  BY DEF SessionInv, CallInv
<1>2. ~Call
  BY IdleIs DEF Call
<1>3. ~(XtensaResume \/ XtensaDoStep \/ StepStopped \/ StepTimesOut \/ ProgramStops \/ ProgramRuns)
  BY <1>1, <1>2 DEF XtensaResume, XtensaDoStep, StepStopped, StepTimesOut, ProgramStops, ProgramRuns
<1>4. ~(HaltRequest \/ HaltSeen \/ HaltGivesUp \/ ClearDebugInterrupt \/ Resume \/ Fetch \/ Access)
  BY <1>2 DEF HaltRequest, HaltSeen, HaltGivesUp, ClearDebugInterrupt, Resume, Fetch, Access
<1>5. ~(AddBreakpoint \/ RemoveBreakpoint \/ AddWatchpoint \/ RemoveWatchpoint)
  BY <1>2 DEF AddBreakpoint, RemoveBreakpoint, AddWatchpoint, RemoveWatchpoint
<1>6. ~(StartAlgorithm \/ AlgorithmStopped \/ AlgorithmTimesOut \/ AlgorithmLost \/ CallFunction \/ Load)
  BY <1>2 DEF StartAlgorithm, AlgorithmStopped, AlgorithmTimesOut, AlgorithmLost, CallFunction, Load
<1> QED BY <1>3, <1>4, <1>5, <1>6 DEF Next

\* A call in progress has begun, or goes on.
LEMMA SavedKept == ASSUME SessionInv, SavedInv, [Next]_vars PROVE SavedInv'
<1>1. CASE UNCHANGED vars
  BY <1>1 DEF SavedInv, vars
<1>2. CASE Next /\ host.at = "calling"
  <2>1. CallReturned \/ CallTimesOut => SavedInv'
    BY IdleIs DEF CallReturned, CallTimesOut, SavedInv
  <2> QED BY <1>2, <2>1, CallAlone, StubStopsSaves
<1>3. CASE Next /\ host.at # "calling"
  <2>1. CASE host'.at # "calling"
    BY <2>1 DEF SavedInv
  <2>2. CASE host'.at = "calling"
    <3>1. ~(host' = host) /\ host' # Idle
      BY <1>3, <2>2, IdleIs
    <3>2. ~(XtensaResume \/ XtensaDoStep \/ StepStopped \/ StepTimesOut)
      <4>1. ASSUME NEW t, NEW frames, NEW resumes, Go(t, frames, resumes) PROVE FALSE
        BY <2>2, <3>1, <4>1 DEF Go
      <4>2. ~StepStopped
        BY <3>1, <4>1 DEF StepStopped
      <4> QED BY <3>1, <4>1, <4>2 DEF XtensaResume, XtensaDoStep, StepTimesOut
    <3>3. ~(HaltRequest \/ HaltSeen \/ HaltGivesUp \/ ClearDebugInterrupt \/ Resume \/ Fetch \/ Access)
      BY <2>2, <3>1 DEF HaltRequest, HaltSeen, HaltGivesUp, ClearDebugInterrupt, Resume, Fetch, Access
    <3>4. ~(AddBreakpoint \/ RemoveBreakpoint \/ AddWatchpoint \/ RemoveWatchpoint)
      BY <3>1 DEF AddBreakpoint, RemoveBreakpoint, AddWatchpoint, RemoveWatchpoint
    <3>5. ~(StartAlgorithm \/ AlgorithmStopped \/ AlgorithmTimesOut \/ AlgorithmLost)
      <4>1. ~StartAlgorithm
        <5>1. StartAlgorithm => host'.at = "waiting"
          <6> SUFFICES ASSUME StartAlgorithm PROVE host'.at = "waiting"
            OBVIOUS
          <6>1. PICK regs :
                  host' = [at |-> "waiting", backup |-> s.cache, regs |-> regs,
                           known |-> s.ctx \in {"cached", "both"}, forced |-> FALSE]
            BY Zenon DEF StartAlgorithm
          <6> QED BY <6>1
        <5> QED BY <2>2, <5>1
      <4>2. ~(AlgorithmStopped \/ AlgorithmTimesOut \/ AlgorithmLost)
        BY <1>3, <2>2, <3>1 DEF AlgorithmStopped, AlgorithmTimesOut, AlgorithmLost, SessionInv, WaitInv
      <4> QED BY <4>1, <4>2
    <3>6. ~(CallReturned \/ CallTimesOut \/ Load \/ ProgramStops \/ ProgramRuns \/ StubStops)
      BY <3>1 DEF CallReturned, CallTimesOut, Load, ProgramStops, ProgramRuns, StubStops
    <3>7. CallFunction
      BY <1>3, <3>2, <3>3, <3>4, <3>5, <3>6 DEF Next
    <3> QED BY <3>7, CallFunctionSaves
  <2> QED BY <2>1, <2>2
<1> QED BY <1>1, <1>2, <1>3

\* What is put back, of a core whose special registers are known.
LEMMA PutBackIs ==
  ASSUME NEW h, IsCore(h), NEW was, IsCore(was), NEW saved, NEW w \in BOOLEAN,
         \A r \in SR \ {"pc", "eps", "debugcause"} : h.sr[r] = was.sr[r],
         w \/ h.vecbase = was.vecbase,
         Canonical(Scratch, was.sr["windowbase"]) \in DOMAIN saved
  PROVE  LET g == PutBack(h, was, saved, w)
         IN /\ \A r \in SR \ {"debugcause"} : g.sr[r] = was.sr[r]
            /\ g.vecbase = was.vecbase /\ g.ar = [k \in Phys |-> g.ar[k]]
            /\ \A k \in Phys : g.ar[k] = IF k \in DOMAIN saved THEN saved[k] ELSE h.ar[k]
<1> DEFINE at == Canonical(Scratch, was.sr["windowbase"])
           b == IF w THEN SetSr(h, "windowbase", was.sr["windowbase"]) ELSE h
           c == IF w THEN SetVecbase(b, was.vecbase) ELSE b
           d == SetSr(c, "pc", was.sr["pc"])
           e == SetSr(d, "eps", was.sr["eps"])
           ar == [k \in Phys |-> IF k \in DOMAIN saved THEN saved[k] ELSE e.ar[k]]
           g == PutBack(h, was, saved, w)
<1>0. /\ Fits("windowbase", was.sr["windowbase"]) /\ Fits("pc", was.sr["pc"]) /\ Fits("eps", was.sr["eps"])
      /\ "windowbase" \in SR \ {"pc", "eps", "debugcause"}
  BY DEF IsCore, IsRegs, Fits, SR, Numbers
<1>1. /\ IsCore(b) /\ \A r \in SR \ {"pc", "eps", "debugcause"} : b.sr[r] = was.sr[r]
      /\ b.vecbase = h.vecbase /\ \A k \in Phys : k # at => b.ar[k] = h.ar[k]
  <2>1. CASE w
    <3> DEFINE x == SetSr(h, "windowbase", was.sr["windowbase"])
    <3>0. IsCore(h) /\ Fits("windowbase", was.sr["windowbase"])
      BY <1>0
    <3>1. /\ IsCore(x) /\ \A r \in SR : x.sr[r] = IF r = "windowbase" THEN was.sr["windowbase"] ELSE h.sr[r]
          /\ x.vecbase = h.vecbase
          /\ \A k \in Phys : k # Canonical(Scratch, h.sr["windowbase"]) => x.ar[k] = h.ar[k]
      BY <3>0, CoreSpecial
    <3>2. b = x
      BY <2>1
    <3> HIDE DEF x, b
    <3> QED BY <1>0, <3>1, <3>2
  <2>2. CASE ~w
    BY <2>2
  <2> QED BY <2>1, <2>2
<1> HIDE DEF b
<1>2. /\ IsCore(c) /\ \A r \in SR \ {"pc", "eps", "debugcause"} : c.sr[r] = was.sr[r]
      /\ c.vecbase = was.vecbase /\ \A k \in Phys : k # at => c.ar[k] = h.ar[k]
  BY <1>0, <1>1, CoreVectors
<1> HIDE DEF c
<1>3. /\ IsCore(d) /\ \A r \in SR \ {"eps", "debugcause"} : d.sr[r] = was.sr[r]
      /\ d.vecbase = was.vecbase /\ \A k \in Phys : k # at => d.ar[k] = h.ar[k]
  <2>1. /\ IsCore(d) /\ \A r \in SR : d.sr[r] = IF r = "pc" THEN was.sr["pc"] ELSE c.sr[r]
        /\ d.vecbase = c.vecbase
        /\ \A k \in Phys : k # Canonical(Scratch, c.sr["windowbase"]) => d.ar[k] = c.ar[k]
    <3>1. IsCore(c) /\ Fits("pc", was.sr["pc"])
      BY <1>0, <1>2
    <3> QED BY <3>1, CoreSpecial
  <2> HIDE DEF d
  <2> QED BY <1>0, <1>2, <2>1
<1> HIDE DEF d
<1>4. /\ IsCore(e) /\ \A r \in SR \ {"debugcause"} : e.sr[r] = was.sr[r]
      /\ e.vecbase = was.vecbase /\ \A k \in Phys : k # at => e.ar[k] = h.ar[k]
  <2>1. /\ IsCore(e) /\ \A r \in SR : e.sr[r] = IF r = "eps" THEN was.sr["eps"] ELSE d.sr[r]
        /\ e.vecbase = d.vecbase
        /\ \A k \in Phys : k # Canonical(Scratch, d.sr["windowbase"]) => e.ar[k] = d.ar[k]
    <3>1. IsCore(d) /\ Fits("eps", was.sr["eps"])
      BY <1>0, <1>3
    <3> QED BY <3>1, CoreSpecial
  <2> HIDE DEF e
  <2> QED BY <1>0, <1>3, <2>1
<1>5. g = [e EXCEPT !.ar = ar]
  BY DEF PutBack, b, c, d
<1> HIDE DEF e, g
<1>6. \A k \in Phys : ar[k] = IF k \in DOMAIN saved THEN saved[k] ELSE h.ar[k]
  BY <1>4
<1>7. ar = [k \in Phys |-> ar[k]]
  OBVIOUS
<1> HIDE DEF ar
<1>8. g.ar = ar /\ g.sr = e.sr /\ g.vecbase = e.vecbase
  BY <1>4, <1>5 DEF IsCore
<1> QED BY <1>4, <1>6, <1>7, <1>8 DEF g

\* FunctionRestored: when a function has ended on its BREAK, the program has its PC, PS,
\* window, coprocessors and vectors back, the registers that were saved and every one the
\* function did not use, for every register file, window and scratch register.
THEOREM FunctionsRestore == Spec => FunctionRestored
<1> DEFINE A == host.at = "calling" /\ Halted /\ s.hw.sr["debugcause"] = "BI" =>
         LET was == host.before
         IN /\ [ProgramState(s'.hw) EXCEPT !.ar = was.ar] = ProgramState(was)
            /\ s'.hw.vecbase = was.vecbase
            /\ \A k \in Phys :
                 (host.windowed \/ k \in WindowOf(was.sr["windowbase"], LowSaved) \/ Unused(k))
                   => s'.hw.ar[k] = was.ar[k]
<1>1. ASSUME SessionInv, SavedInv, Next PROVE A
  <2> DEFINE was == host.before
             g == PutBack(s.hw, was, host.saved, host.windowed)
  <2> SUFFICES ASSUME host.at = "calling", Halted
               PROVE  /\ [ProgramState(s'.hw) EXCEPT !.ar = was.ar] = ProgramState(was)
                      /\ s'.hw.vecbase = was.vecbase
                      /\ \A k \in Phys :
                           (host.windowed \/ k \in WindowOf(was.sr["windowbase"], LowSaved) \/ Unused(k))
                             => s'.hw.ar[k] = was.ar[k]
    OBVIOUS
  <2>1. CallReturned
    BY <1>1, CallAlone DEF CallTimesOut, StubStops, Halted
  <2>2. IsSession(s) /\ IsCore(s.hw) /\ IsCore(was)
        /\ \A r \in SR \ {"pc", "eps", "debugcause"} : s.hw.sr[r] = was.sr[r]
    BY <1>1 DEF SessionInv, DataInv, CallInv, IsSession
  <2>3. /\ host.windowed \in BOOLEAN /\ host.saved = SavedArs(was, host.windowed)
        /\ host.windowed \/ s.hw.vecbase = was.vecbase
        /\ \A k \in Phys : k \in DOMAIN host.saved \/ s.hw.ar[k] = was.ar[k] \/ s.hw.ar[k] \in LeftByCode
    BY <1>1 DEF SavedInv
  <2>4. /\ host.windowed => DOMAIN host.saved = Phys
        /\ \A k \in DOMAIN host.saved : host.saved[k] = was.ar[k]
        /\ Canonical(Scratch, was.sr["windowbase"]) \in DOMAIN host.saved
        /\ \A k \in WindowOf(was.sr["windowbase"], LowSaved) : k \in DOMAIN host.saved
    BY <2>2, <2>3, SavedIs
  <2>5. s'.hw = g
    BY <2>1, <2>2 DEF CallReturned, IsSession
  <2>6. /\ \A r \in SR \ {"debugcause"} : g.sr[r] = was.sr[r]
        /\ g.vecbase = was.vecbase /\ g.ar = [k \in Phys |-> g.ar[k]]
        /\ \A k \in Phys : g.ar[k] = IF k \in DOMAIN host.saved THEN host.saved[k] ELSE s.hw.ar[k]
    BY <2>2, <2>3, <2>4, PutBackIs
  <2> HIDE DEF g, was
  <2>7. [ProgramState(s'.hw) EXCEPT !.ar = was.ar] = ProgramState(was)
    <3>1. {"pc", "eps", "windowbase", "cpenable"} \subseteq SR \ {"debugcause"}
      BY DEF SR
    <3>2. /\ g.sr["pc"] = was.sr["pc"] /\ g.sr["eps"] = was.sr["eps"]
          /\ g.sr["windowbase"] = was.sr["windowbase"] /\ g.sr["cpenable"] = was.sr["cpenable"]
      BY <2>6, <3>1
    <3> QED BY <2>5, <3>2 DEF ProgramState
  <2>8. ASSUME NEW k \in Phys,
               host.windowed \/ k \in WindowOf(was.sr["windowbase"], LowSaved) \/ Unused(k)
        PROVE  s'.hw.ar[k] = was.ar[k]
    <3>1. k \in DOMAIN host.saved \/ s.hw.ar[k] = was.ar[k]
      BY <2>3, <2>4, <2>8 DEF Unused
    <3> QED BY <2>4, <2>5, <2>6, <3>1
  <2> QED BY <2>5, <2>6, <2>7, <2>8
<1>2. SessionInv /\ SavedInv /\ [Next]_vars => [A]_vars
  BY <1>1
<1>3. Init => SavedInv
  BY IdleIs DEF Init, SavedInv
<1>4. SessionInv /\ SavedInv /\ [Next]_vars => SavedInv'
  BY SavedKept
<1> QED BY <1>2, <1>3, <1>4, SessionsAreSound, PTL DEF Spec, FunctionRestored

-------------------------------------------------------------------------------
(* Where a stub is put.                                                     *)

\* Quotient and remainder are determined by their equation.
LEMMA Quotients ==
  ASSUME NEW m \in Nat \ {0}, NEW q \in Int, NEW r \in 0 .. m - 1
  PROVE  (m * q + r) \div m = q /\ (m * q + r) % m = r
<1> DEFINE x == m * q + r
<1>1. x \in Int
  OBVIOUS
<1> HIDE DEF x
<1>2. PICK d \in Int : d = x \div m
  BY <1>1
<1>3. PICK e \in 0 .. m - 1 : e = x % m
  BY <1>1
<1>4. x = m * d + e
  BY <1>1, <1>2, <1>3
<1>5. m * (q - d) = e - r
  BY <1>4 DEF x
<1>6. q - d = 0
  <2>1. m * (q - d) < m /\ m * (q - d) > -m
    BY <1>5
  <2> QED BY <2>1
<1>7. d = q /\ e = r
  BY <1>5, <1>6
<1> QED BY <1>2, <1>3, <1>7 DEF x

\* Every number has them.
LEMMA Divided ==
  ASSUME NEW m \in Nat \ {0}, NEW x \in Nat
  PROVE  \E q \in Nat, r \in 0 .. m - 1 : x = m * q + r /\ q = x \div m /\ r = x % m
<1>1. PICK d \in Int : d = x \div m
  OBVIOUS
<1>2. PICK e \in 0 .. m - 1 : e = x % m
  OBVIOUS
<1>3. x = m * d + e
  BY <1>1, <1>2
<1>4. d \in Nat
  <2>1. m * d > -m
    BY <1>3
  <2> QED BY <2>1
<1> QED BY <1>1, <1>2, <1>3, <1>4

\* A whole number of words.
Aligned(v) == \E k \in Nat : v = Word * k

\* Aligned numbers can be added, and taken from each other.
LEMMA AlignedSums ==
  ASSUME NEW u, NEW v, Aligned(u), Aligned(v)
  PROVE  /\ u \in Nat /\ v \in Nat /\ Aligned(u + v) /\ (v <= u => Aligned(u - v))
         /\ (u < v => u + Word <= v)
<1>0. Word \in Nat \ {0}
  BY ImageAssumption
<1>1. PICK j \in Nat : u = Word * j
  BY DEF Aligned
<1>2. PICK k \in Nat : v = Word * k
  BY DEF Aligned
<1>3. u \in Nat /\ v \in Nat
  BY <1>0, <1>1, <1>2
<1>4. u + v = Word * (j + k) /\ j + k \in Nat
  BY <1>0, <1>1, <1>2
<1>5. ASSUME v <= u PROVE Aligned(u - v)
  <2>1. Word * (j - k) >= 0 /\ u - v = Word * (j - k)
    BY <1>0, <1>1, <1>2, <1>5
  <2>2. j - k \in Nat
    BY <1>0, <2>1
  <2> QED BY <2>1, <2>2 DEF Aligned
<1>6. ASSUME u < v PROVE u + Word <= v
  <2>1. Word * (k - j) > 0
    BY <1>0, <1>1, <1>2, <1>6
  <2>2. k - j >= 1
    BY <1>0, <2>1
  <2>3. Word * (k - j) >= Word
    BY <1>0, <2>2
  <2>4. Word * (k - j) = v - u
    BY <1>0, <1>1, <1>2
  <2> QED BY <1>0, <1>3, <2>3, <2>4
<1>7. Aligned(u + v)
  BY <1>4 DEF Aligned
<1> QED BY <1>3, <1>5, <1>6, <1>7

\* AlignUp gives the next whole number of words.
LEMMA AlignsUp ==
  ASSUME NEW v \in Nat
  PROVE  /\ AlignUp(v) \in Nat /\ Aligned(AlignUp(v)) /\ v <= AlignUp(v)
         /\ \A u : Aligned(u) /\ v <= u => AlignUp(v) <= u
<1>0. Word \in Nat \ {0}
  BY ImageAssumption
<1>1. PICK q \in Nat, r \in 0 .. Word - 1 : v + Word - 1 = Word * q + r /\ q = (v + Word - 1) \div Word
  BY <1>0, Divided
<1>2. AlignUp(v) = q * Word
  BY <1>1 DEF AlignUp
<1>3. AlignUp(v) = Word * q
  BY <1>0, <1>2
<1>4. AlignUp(v) \in Nat /\ Aligned(AlignUp(v))
  BY <1>0, <1>3 DEF Aligned
<1>5. v <= AlignUp(v) /\ AlignUp(v) < v + Word
  BY <1>0, <1>1, <1>3
<1>6. ASSUME NEW u, Aligned(u), v <= u PROVE AlignUp(v) <= u
  <2>1. u \in Nat /\ (u < AlignUp(v) => u + Word <= AlignUp(v))
    BY <1>4, <1>6, AlignedSums
  <2> QED BY <1>0, <1>4, <1>5, <1>6, <2>1
<1> QED BY <1>4, <1>5, <1>6

\* The address a fetch of byte n goes to.
Place(n) == DramOrg - (n \div Word + 1) * Word + (n % Word)

\* Bytes that are written backwards, word by word, below an aligned distance c from
\* the meeting point, are fetched in their order from c on.
LEMMA Backwards ==
  ASSUME NEW c, Aligned(c), NEW bytes, Len(bytes) \in Nat, DOMAIN bytes = 1 .. Len(bytes),
         NEW n \in Nat, c <= n, n < c + Len(bytes)
  PROVE  LET base == DramOrg - c - AlignUp(Len(bytes))
         IN /\ Place(n) \in base .. base + AlignUp(Len(bytes)) - 1
            /\ ReverseBinary(bytes)[Place(n) - base + 1] = bytes[n - c + 1]
<1> DEFINE A == AlignUp(Len(bytes))
<1> DEFINE base == DramOrg - c - A
<1>0. Word \in Nat \ {0} /\ DramOrg \in Nat /\ c \in Nat
  BY ImageAssumption, AlignedSums
<1>1. A \in Nat /\ Aligned(A) /\ Len(bytes) <= A
  BY AlignsUp
<1> HIDE DEF A
<1>2. PICK q \in Nat, r \in 0 .. Word - 1 : n = Word * q + r /\ q = n \div Word /\ r = n % Word
  BY <1>0, Divided
<1> DEFINE d == Word * q
<1>3. Aligned(d) /\ d \in Nat /\ n = d + r
  <2>1. Aligned(d)
    BY <1>2 DEF Aligned
  <2>2. d \in Nat
    BY <2>1, AlignedSums
  <2>3. n = d + r
    BY <1>2
  <2> QED BY <2>1, <2>2, <2>3
<1>4. Place(n) = DramOrg - d - Word + r
  <2>1. (q + 1) * Word = d + Word
    BY <1>0
  <2>2. Place(n) = DramOrg - (q + 1) * Word + r
    BY <1>2 DEF Place
  <2>3. Place(n) = DramOrg - (d + Word) + r
    BY <2>1, <2>2, Zenon
  <2> HIDE DEF d
  <2> QED BY <1>0, <1>3, <2>3
<1> HIDE DEF d
<1>5. c <= d
  <2>1. d < c => d + Word <= c
    BY <1>3, AlignedSums
  <2> QED BY <1>0, <1>3, <2>1
<1>6. d + Word <= c + A
  <2>1. Aligned(c + A) /\ c + A \in Nat
    BY <1>0, <1>1, AlignedSums
  <2>2. d < c + A
    BY <1>0, <1>1, <1>3
  <2> QED BY <1>3, <2>1, <2>2, AlignedSums
<1>7. Aligned(c + A) /\ Aligned(d + Word) /\ Aligned(Word)
  <2>1. Word = Word * 1
    BY <1>0
  <2>2. Aligned(Word)
    BY <2>1 DEF Aligned
  <2> QED BY <1>1, <1>3, <2>2, AlignedSums
<1>8. PICK t \in Nat : (c + A) - (d + Word) = Word * t
  <2>1. Aligned((c + A) - (d + Word))
    BY <1>6, <1>7, AlignedSums
  <2> QED BY <2>1 DEF Aligned
<1> DEFINE i == Place(n) - base + 1
<1>9. i - 1 = (c + A) - (d + Word) + r
  BY <1>0, <1>1, <1>3, <1>4
<1>10. i \in 1 .. A
  <2>1. i \in Int
    BY <1>0, <1>1, <1>3, <1>4
  <2> HIDE DEF i, base
  <2> QED BY <1>0, <1>1, <1>3, <1>5, <1>6, <1>9, <2>1
<1>11. (i - 1) \div Word = t /\ (i - 1) % Word = r
  <2> HIDE DEF i
  <2>1. i - 1 = Word * t + r
    BY <1>8, <1>9
  <2>2. (Word * t + r) \div Word = t /\ (Word * t + r) % Word = r
    <3>1. Word \in Nat \ {0} /\ t \in Int /\ r \in 0 .. Word - 1
      BY <1>0
    <3> QED BY <3>1, Quotients, Zenon
  <2> QED BY <2>1, <2>2
<1>12. Place(n) \in base .. base + A - 1
  BY <1>0, <1>1, <1>3, <1>4, <1>10
<1> HIDE DEF i
<1> DEFINE k == A - ((i - 1) \div Word + 1) * Word + ((i - 1) % Word) + 1
<1>13. k = n - c + 1
  <2>1. (t + 1) * Word = Word * t + Word
    BY <1>0
  <2>2. k = A - (Word * t + Word) + r + 1
    BY <1>11, <2>1
  <2> QED BY <1>0, <1>1, <1>3, <1>8, <2>2
<1>14. k \in DOMAIN bytes
  BY <1>0, <1>13
<1>15. ReverseBinary(bytes)[i] = IF k \in DOMAIN bytes THEN bytes[k] ELSE Pad
  BY <1>10 DEF ReverseBinary, A
<1> HIDE DEF k
<1>16. ReverseBinary(bytes)[i] = bytes[n - c + 1]
  BY <1>13, <1>14, <1>15
<1> QED BY <1>12, <1>16 DEF A, i

\* The bytes of a section.
LEMMA SectionIs ==
  ASSUME NEW name, NEW size \in Nat
  PROVE  /\ Section(name, size) \in Seq(Range(Section(name, size))) /\ Len(Section(name, size)) = size
         /\ \A i \in 1 .. size : Section(name, size)[i] = <<name, i>>
<1> DEFINE z == Section(name, size)
<1>1. z = [i \in 1 .. size |-> <<name, i>>]
  BY DEF Section
<1> HIDE DEF z
<1>2. Len(z) = size /\ DOMAIN z = 1 .. size
  BY <1>1
<1> QED BY <1>1, <1>2 DEF z, Range


\* The chunks of a section: where they begin, and their bytes.
Starts(size) == {n \in 0 .. size - 1 : n % Chunk = 0}
Part(name, size, n) == SubSeq(Section(name, size), n + 1, Smaller(n + Chunk, size))

\* A chunk is a whole number of words.
LEMMA ChunkAligned == Chunk \in Nat \ {0} /\ Aligned(Chunk)
<1>1. Word \in Nat \ {0} /\ Chunk \in Nat \ {0} /\ Chunk % Word = 0
  BY ImageAssumption
<1>2. PICK q \in Nat, r \in 0 .. Word - 1 : Chunk = Word * q + r /\ r = Chunk % Word
  BY <1>1, Divided
<1>3. Chunk = Word * q
  BY <1>1, <1>2
<1> QED BY <1>1, <1>3 DEF Aligned

\* A chunk begins at a whole number of words, and another at least a chunk behind it.
LEMMA StartsAre ==
  ASSUME NEW size \in Nat
  PROVE  /\ \A n \in Starts(size) : n \in Nat /\ n < size /\ Aligned(n)
         /\ \A n, m \in Starts(size) : n < m => n + Chunk <= m
         /\ \A k \in 0 .. size - 1 : \E n \in Starts(size) : n <= k /\ k < n + Chunk
<1>0. Chunk \in Nat \ {0}
  BY ChunkAligned
<1>1. ASSUME NEW n \in Starts(size)
      PROVE  n \in Nat /\ n < size /\ \E q \in Nat : n = Chunk * q
  <2>1. n \in Nat /\ n < size /\ n % Chunk = 0
    BY <1>1 DEF Starts
  <2>2. PICK q \in Nat, r \in 0 .. Chunk - 1 : n = Chunk * q + r /\ r = n % Chunk
    BY <1>0, <2>1, Divided
  <2>3. n = Chunk * q
    BY <1>0, <2>1, <2>2
  <2> QED BY <2>1, <2>3
<1>2. ASSUME NEW n \in Starts(size) PROVE Aligned(n)
  <2>1. PICK q \in Nat : n = Chunk * q
    BY <1>1
  <2>2. PICK j \in Nat : Chunk = Word * j
    BY ChunkAligned DEF Aligned
  <2>3. n = Word * (j * q) /\ j * q \in Nat
    BY <2>1, <2>2, ImageAssumption
  <2> QED BY <2>3 DEF Aligned
<1>3. ASSUME NEW n \in Starts(size), NEW m \in Starts(size), n < m PROVE n + Chunk <= m
  <2>1. PICK q \in Nat : n = Chunk * q
    BY <1>1
  <2>2. PICK p \in Nat : m = Chunk * p
    BY <1>1
  <2>3. Chunk * (p - q) > 0 /\ Chunk * (p - q) = m - n
    BY <1>0, <1>3, <2>1, <2>2
  <2>4. p - q >= 1
    BY <1>0, <2>3
  <2>5. Chunk * (p - q) >= Chunk
    BY <1>0, <2>4
  <2>6. n \in Nat /\ m \in Nat
    BY <1>1
  <2> QED BY <1>0, <2>3, <2>5, <2>6
<1>4. ASSUME NEW k \in 0 .. size - 1 PROVE \E n \in Starts(size) : n <= k /\ k < n + Chunk
  <2>1. PICK q \in Nat, r \in 0 .. Chunk - 1 : k = Chunk * q + r
    <3>1. k \in Nat
      OBVIOUS
    <3> QED BY <1>0, <3>1, Divided
  <2> DEFINE n == Chunk * q
  <2>2. n \in Nat /\ n <= k /\ k < n + Chunk
    BY <1>0, <2>1
  <2>3. n % Chunk = 0
    <3>1. (Chunk * q + 0) % Chunk = 0
      <4>1. Chunk \in Nat \ {0} /\ q \in Int /\ 0 \in 0 .. Chunk - 1
        BY <1>0
      <4> QED BY <4>1, Quotients, Zenon
    <3>2. n + 0 = n
      BY <2>2
    <3> QED BY <3>1, <3>2
  <2> HIDE DEF n
  <2>4. n \in Starts(size)
    BY <2>2, <2>3 DEF Starts
  <2> QED BY <2>2, <2>4
<1> QED BY <1>1, <1>2, <1>3, <1>4

\* The bytes of a chunk, and the words they take.
LEMMA PartIs ==
  ASSUME NEW name, NEW size \in Nat, NEW n \in Starts(size)
  PROVE  LET b == Part(name, size, n)
             a == AlignUp(Len(b))
         IN /\ Len(b) = Smaller(n + Chunk, size) - n /\ Len(b) \in 1 .. Chunk
            /\ DOMAIN b = 1 .. Len(b) /\ \A j \in 1 .. Len(b) : b[j] = <<name, n + j>>
            /\ n + Len(b) <= size /\ (n + Chunk <= size => Len(b) = Chunk)
            /\ a \in Nat /\ Len(b) <= a /\ a <= Chunk /\ n + a <= AlignUp(size)
<1> DEFINE z == Section(name, size)
           e == Smaller(n + Chunk, size)
           b == SubSeq(z, n + 1, e)
<1>1. z \in Seq(Range(z)) /\ Len(z) = size /\ \A i \in 1 .. size : z[i] = <<name, i>>
  BY SectionIs
<1> HIDE DEF z
<1>2. n \in Nat /\ n < size /\ Aligned(n) /\ Chunk \in Nat \ {0} /\ Aligned(Chunk)
  BY StartsAre, ChunkAligned
<1>3. e \in Nat /\ e <= size /\ e <= n + Chunk /\ n < e /\ (n + Chunk <= size => e = n + Chunk)
  BY <1>2 DEF Smaller
<1> HIDE DEF e
<1>4. /\ Len(b) = e - n /\ DOMAIN b = 1 .. e - n
      /\ \A j \in 1 .. e - n : b[j] = z[n + j]
  <2>1. n + 1 \in 1 .. Len(z) + 1 /\ e \in n .. Len(z)
    BY <1>1, <1>2, <1>3
  <2>2. \A i \in n + 1 .. e : z[i] \in Range(z)
    <3>1. \A i \in 1 .. size : z[i] \in Range(z)
      BY <1>1, ElementOfSeq
    <3> QED BY <1>2, <1>3, <3>1
  <2>3. n + 1 \in Int /\ e \in Int /\ n + 1 <= e /\ e - (n + 1) + 1 = e - n /\ e - n \in Nat
    BY <1>2, <1>3
  <2>4. /\ b \in Seq(Range(z)) /\ Len(b) = e - n
        /\ \A i \in 1 .. e - n : b[i] = z[(n + 1) + i - 1]
    BY <2>2, <2>3, SubSeqProperties
  <2> HIDE DEF b
  <2>5. Len(b) = e - n /\ DOMAIN b = 1 .. e - n
    BY <2>4, LenProperties
  <2>6. ASSUME NEW j \in 1 .. e - n PROVE b[j] = z[n + j]
    <3>1. b[j] = z[(n + 1) + j - 1]
      BY <2>4
    <3>2. (n + 1) + j - 1 = n + j
      BY <1>2, <2>3
    <3> QED BY <3>1, <3>2
  <2> QED BY <2>5, <2>6
<1> HIDE DEF b
<1>5. \A j \in 1 .. e - n : b[j] = <<name, n + j>>
  <2> TAKE j \in 1 .. e - n
  <2>1. n + j \in 1 .. size
    BY <1>2, <1>3
  <2> QED BY <1>1, <1>4, <2>1
<1>6. Len(b) \in 1 .. Chunk /\ n + Len(b) <= size
  BY <1>2, <1>3, <1>4
<1> DEFINE a == AlignUp(Len(b))
<1>7. a \in Nat /\ Len(b) <= a /\ \A u : Aligned(u) /\ Len(b) <= u => a <= u
  BY <1>6, AlignsUp
<1>8. a <= Chunk
  BY <1>2, <1>6, <1>7
<1>9. n + a <= AlignUp(size)
  <2>1. AlignUp(size) \in Nat /\ Aligned(AlignUp(size)) /\ size <= AlignUp(size)
    BY AlignsUp
  <2>2. Aligned(AlignUp(size) - n)
    BY <1>2, <2>1, AlignedSums
  <2>3. Len(b) <= AlignUp(size) - n
    BY <1>2, <1>6, <2>1
  <2>4. a <= AlignUp(size) - n
    BY <1>7, <2>2, <2>3
  <2> HIDE DEF a
  <2> QED BY <1>2, <1>7, <2>1, <2>4
<1>10. b = Part(name, size, n)
  BY DEF b, z, e, Part
<1> HIDE DEF a
<1>11. /\ Len(b) = e - n /\ Len(b) \in 1 .. Chunk
       /\ DOMAIN b = 1 .. Len(b) /\ \A j \in 1 .. Len(b) : b[j] = <<name, n + j>>
       /\ n + Len(b) <= size /\ (n + Chunk <= size => Len(b) = Chunk)
       /\ a \in Nat /\ Len(b) <= a /\ a <= Chunk /\ n + a <= AlignUp(size)
  <2>1. n + Chunk <= size => Len(b) = Chunk
    BY <1>2, <1>3, <1>4
  <2> QED BY <1>4, <1>5, <1>6, <1>7, <1>8, <1>9, <2>1
<1> QED BY <1>10, <1>11 DEF a, e


\* The addresses a write fills.
Extent(w) == w.addr .. w.addr + Len(w.bytes) - 1

\* The three kinds of writes of a plan.
CodeWrite(code, n) ==
  [addr |-> DramOrg - n - AlignUp(Len(Part("code", code, n))),
   bytes |-> ReverseBinary(Part("code", code, n))]
TrampWrite(code) ==
  [addr |-> DramOrg - AlignUp(code) - AlignUp(TrampSize),
   bytes |-> ReverseBinary(Section("tramp", TrampSize))]
DataWrite(data, n) == [addr |-> DramOrg + n, bytes |-> Align4(Part("data", data, n))]

\* The writes of a plan are these.
LEMMA PlanIs ==
  ASSUME NEW code \in Nat, NEW data \in Nat
  PROVE  PlanLoad(code, data).writes =
           {CodeWrite(code, n) : n \in Starts(code)} \cup {TrampWrite(code)}
             \cup {DataWrite(data, n) : n \in Starts(data)}
<1>1. Len(Section("code", code)) = code /\ Len(Section("data", data)) = data
  BY SectionIs
<1>2. PlanSection(Section("code", code), DramOrg, TRUE) = {CodeWrite(code, n) : n \in Starts(code)}
  BY <1>1 DEF PlanSection, CodeWrite, Starts, Part
<1>3. PlanSection(Section("data", data), DramOrg, FALSE) = {DataWrite(data, n) : n \in Starts(data)}
  BY <1>1 DEF PlanSection, DataWrite, Starts, Part
<1> QED BY <1>2, <1>3 DEF PlanLoad, TrampWrite

\* Padded bytes keep their places; both ways fill whole words.
LEMMA Padded ==
  ASSUME NEW bytes, Len(bytes) \in Nat
  PROVE  /\ Len(Align4(bytes)) = AlignUp(Len(bytes)) /\ Len(ReverseBinary(bytes)) = AlignUp(Len(bytes))
         /\ \A i \in 1 .. Len(bytes) : Align4(bytes)[i] = bytes[i]
<1>1. AlignUp(Len(bytes)) \in Nat /\ Len(bytes) <= AlignUp(Len(bytes))
  BY AlignsUp
<1>2. Len(Align4(bytes)) = AlignUp(Len(bytes))
  BY <1>1 DEF Align4
<1>3. Len(ReverseBinary(bytes)) = AlignUp(Len(bytes))
  BY <1>1 DEF ReverseBinary
<1>4. ASSUME NEW i \in 1 .. Len(bytes) PROVE Align4(bytes)[i] = bytes[i]
  <2>1. i \in 1 .. AlignUp(Len(bytes)) /\ i <= Len(bytes)
    BY <1>1
  <2> QED BY <2>1 DEF Align4
<1> QED BY <1>2, <1>3, <1>4

\* A code write lies below the meeting point, by the distance of its chunk, and above
\* the trampoline.
LEMMA CodeExtent ==
  ASSUME NEW code \in Nat, NEW n \in Starts(code)
  PROVE  LET a == AlignUp(Len(Part("code", code, n)))
         IN /\ a \in 1 .. Chunk /\ n + a <= AlignUp(code)
            /\ Extent(CodeWrite(code, n)) = DramOrg - n - a .. DramOrg - n - 1
<1> DEFINE a == AlignUp(Len(Part("code", code, n)))
<1>1. /\ Len(Part("code", code, n)) \in 1 .. Chunk /\ a \in Nat
      /\ Len(Part("code", code, n)) <= a /\ a <= Chunk /\ n + a <= AlignUp(code)
  BY PartIs
<1>2. Chunk \in Nat /\ DramOrg \in Nat /\ n \in Nat
  BY ImageAssumption, StartsAre
<1>3. CodeWrite(code, n).addr = DramOrg - n - a /\ Len(CodeWrite(code, n).bytes) = a
  BY <1>1, <1>2, Padded DEF CodeWrite
<1> HIDE DEF a
<1>4. DramOrg - n - a + a - 1 = DramOrg - n - 1
  BY <1>1, <1>2
<1>5. a \in 1 .. Chunk
  BY <1>1, <1>2
<1>6. Extent(CodeWrite(code, n)) = DramOrg - n - a .. DramOrg - n - 1
  BY <1>3, <1>4 DEF Extent
<1> QED BY <1>1, <1>5, <1>6 DEF a

\* The trampoline lies below the code.
LEMMA TrampExtent ==
  ASSUME NEW code \in Nat
  PROVE  /\ AlignUp(code) \in Nat /\ Aligned(AlignUp(code)) /\ AlignUp(TrampSize) \in Nat
         /\ Extent(TrampWrite(code))
              = DramOrg - AlignUp(code) - AlignUp(TrampSize) .. DramOrg - AlignUp(code) - 1
<1>1. TrampSize \in Nat /\ DramOrg \in Nat
  BY ImageAssumption
<1>2. Len(Section("tramp", TrampSize)) = TrampSize
  BY <1>1, SectionIs
<1>3. AlignUp(code) \in Nat /\ Aligned(AlignUp(code)) /\ AlignUp(TrampSize) \in Nat
  BY <1>1, AlignsUp
<1>4. Len(TrampWrite(code).bytes) = AlignUp(TrampSize)
  BY <1>1, <1>2, Padded DEF TrampWrite
<1>5. TrampWrite(code).addr = DramOrg - AlignUp(code) - AlignUp(TrampSize)
  BY DEF TrampWrite
<1>6. DramOrg - AlignUp(code) - AlignUp(TrampSize) + AlignUp(TrampSize) - 1 = DramOrg - AlignUp(code) - 1
  BY <1>1, <1>3
<1> QED BY <1>3, <1>4, <1>5, <1>6 DEF Extent

\* A data write lies at and above the meeting point, below the stack.
LEMMA DataExtent ==
  ASSUME NEW data \in Nat, NEW n \in Starts(data)
  PROVE  LET a == AlignUp(Len(Part("data", data, n)))
         IN /\ a \in 1 .. Chunk /\ n + a <= AlignUp(data)
            /\ Extent(DataWrite(data, n)) = DramOrg + n .. DramOrg + n + a - 1
<1> DEFINE a == AlignUp(Len(Part("data", data, n)))
<1>1. /\ Len(Part("data", data, n)) \in 1 .. Chunk /\ a \in Nat
      /\ Len(Part("data", data, n)) <= a /\ a <= Chunk /\ n + a <= AlignUp(data)
  BY PartIs
<1>2. Chunk \in Nat /\ DramOrg \in Nat /\ n \in Nat
  BY ImageAssumption, StartsAre
<1>3. DataWrite(data, n).addr = DramOrg + n /\ Len(DataWrite(data, n).bytes) = a
  BY <1>1, <1>2, Padded DEF DataWrite
<1> HIDE DEF a
<1>5. a \in 1 .. Chunk
  BY <1>1, <1>2
<1>6. Extent(DataWrite(data, n)) = DramOrg + n .. DramOrg + n + a - 1
  BY <1>3 DEF Extent
<1> QED BY <1>1, <1>5, <1>6 DEF a

\* No two writes of a plan meet.
Apart(v, w) == \A x \in Extent(v) : x \notin Extent(w)

LEMMA WritesApart ==
  ASSUME NEW code \in Nat, NEW data \in Nat,
         NEW v \in PlanLoad(code, data).writes, NEW w \in PlanLoad(code, data).writes, v # w
  PROVE  Apart(v, w)
<1>0. DramOrg \in Nat /\ Chunk \in Nat
  BY ImageAssumption
<1>1. ASSUME NEW n \in Starts(code), NEW m \in Starts(code), n # m
      PROVE  Apart(CodeWrite(code, n), CodeWrite(code, m))
  <2> DEFINE a == AlignUp(Len(Part("code", code, n)))
             b == AlignUp(Len(Part("code", code, m)))
  <2>1. /\ a \in 1 .. Chunk /\ Extent(CodeWrite(code, n)) = DramOrg - n - a .. DramOrg - n - 1
        /\ b \in 1 .. Chunk /\ Extent(CodeWrite(code, m)) = DramOrg - m - b .. DramOrg - m - 1
    BY CodeExtent
  <2> HIDE DEF a, b
  <2>2. n \in Nat /\ m \in Nat /\ (n < m => n + Chunk <= m) /\ (m < n => m + Chunk <= n)
    BY StartsAre
  <2> QED BY <1>0, <1>1, <2>1, <2>2 DEF Apart
<1>2. ASSUME NEW n \in Starts(code)
      PROVE  Apart(CodeWrite(code, n), TrampWrite(code)) /\ Apart(TrampWrite(code), CodeWrite(code, n))
  <2> DEFINE a == AlignUp(Len(Part("code", code, n)))
  <2>1. /\ a \in 1 .. Chunk /\ n + a <= AlignUp(code)
        /\ Extent(CodeWrite(code, n)) = DramOrg - n - a .. DramOrg - n - 1
    BY CodeExtent
  <2> HIDE DEF a
  <2>2. n \in Nat
    BY StartsAre
  <2>3. /\ AlignUp(code) \in Nat /\ AlignUp(TrampSize) \in Nat
        /\ Extent(TrampWrite(code))
             = DramOrg - AlignUp(code) - AlignUp(TrampSize) .. DramOrg - AlignUp(code) - 1
    BY TrampExtent
  <2> QED BY <1>0, <2>1, <2>2, <2>3 DEF Apart
<1>3. ASSUME NEW n \in Starts(data), NEW x \in Extent(DataWrite(data, n)) PROVE x >= DramOrg
  <2> DEFINE a == AlignUp(Len(Part("data", data, n)))
  <2>1. Extent(DataWrite(data, n)) = DramOrg + n .. DramOrg + n + a - 1
    BY DataExtent
  <2> HIDE DEF a
  <2>2. n \in Nat
    BY StartsAre
  <2> QED BY <1>0, <1>3, <2>1, <2>2
<1>4. ASSUME NEW n \in Starts(code), NEW x \in Extent(CodeWrite(code, n)) PROVE ~(x >= DramOrg)
  <2> DEFINE a == AlignUp(Len(Part("code", code, n)))
  <2>1. Extent(CodeWrite(code, n)) = DramOrg - n - a .. DramOrg - n - 1
    BY CodeExtent
  <2> HIDE DEF a
  <2>2. n \in Nat
    BY StartsAre
  <2> QED BY <1>0, <1>4, <2>1, <2>2
<1>5. ASSUME NEW x \in Extent(TrampWrite(code)) PROVE ~(x >= DramOrg)
  <2>1. /\ AlignUp(code) \in Nat /\ AlignUp(TrampSize) \in Nat
        /\ Extent(TrampWrite(code))
             = DramOrg - AlignUp(code) - AlignUp(TrampSize) .. DramOrg - AlignUp(code) - 1
    BY TrampExtent
  <2> QED BY <1>0, <1>5, <2>1
<1>6. ASSUME NEW n \in Starts(data), NEW m \in Starts(data), n # m
      PROVE  Apart(DataWrite(data, n), DataWrite(data, m))
  <2> DEFINE a == AlignUp(Len(Part("data", data, n)))
             b == AlignUp(Len(Part("data", data, m)))
  <2>1. /\ a \in 1 .. Chunk /\ Extent(DataWrite(data, n)) = DramOrg + n .. DramOrg + n + a - 1
        /\ b \in 1 .. Chunk /\ Extent(DataWrite(data, m)) = DramOrg + m .. DramOrg + m + b - 1
    BY DataExtent
  <2> HIDE DEF a, b
  <2>2. n \in Nat /\ m \in Nat /\ (n < m => n + Chunk <= m) /\ (m < n => m + Chunk <= n)
    BY StartsAre
  <2> QED BY <1>0, <1>6, <2>1, <2>2 DEF Apart
<1> DEFINE cs == {CodeWrite(code, n) : n \in Starts(code)}
           ds == {DataWrite(data, n) : n \in Starts(data)}
           t == TrampWrite(code)
<1>7. v \in cs \cup {t} \cup ds /\ w \in cs \cup {t} \cup ds
  BY PlanIs
<1>8. \A x \in cs \cup {t}, y \in ds : Apart(x, y) /\ Apart(y, x)
  BY <1>3, <1>4, <1>5 DEF Apart
<1>9. \A x \in cs : Apart(x, t) /\ Apart(t, x)
  BY <1>2
<1>10. \A x, y \in cs : x # y => Apart(x, y)
  BY <1>1
<1>11. \A x, y \in ds : x # y => Apart(x, y)
  BY <1>6
<1> HIDE DEF cs, ds, t
<1> QED BY <1>7, <1>8, <1>9, <1>10, <1>11

\* What is at an address of a write is the write's.
LEMMA WrittenIs ==
  ASSUME NEW code \in Nat, NEW data \in Nat, NEW w \in PlanLoad(code, data).writes,
         NEW x \in Extent(w)
  PROVE  Written(PlanLoad(code, data)).at[x] = w.bytes[x - w.addr + 1]
<1> DEFINE p == PlanLoad(code, data)
<1>1. \A v \in p.writes : x \in Extent(v) => v = w
  BY WritesApart DEF Apart
<1> HIDE DEF p
<1>2. \A v \in p.writes : x \in v.addr .. v.addr + Len(v.bytes) - 1 <=> v = w
  BY <1>1 DEF Extent, p
<1> DEFINE u == CHOOSE v \in p.writes : x \in v.addr .. v.addr + Len(v.bytes) - 1
<1>3. u = w
  BY <1>2 DEF p
<1>4. x \in UNION {v.addr .. v.addr + Len(v.bytes) - 1 : v \in p.writes}
  BY DEF p, Extent
<1>5. Written(p).at[x] = u.bytes[x - u.addr + 1]
  BY <1>4 DEF Written
<1> QED BY <1>3, <1>5 DEF p


\* A stub that was loaded is seen by the core as it is: its code from the beginning of
\* instruction memory, then the trampoline, its data from the meeting point.
LEMMA StubSeen ==
  ASSUME NEW code \in Nat, NEW data \in Nat
  PROVE  SeesStub(Written(PlanLoad(code, data)))
<1> DEFINE p == PlanLoad(code, data)
           im == Written(p)
<1>0. DramOrg \in Nat /\ TrampSize \in Nat /\ StackSize \in Nat /\ Chunk \in Nat
  BY ImageAssumption
<1>1. /\ im.plan.code = code /\ im.plan.data = data /\ im.plan.tramp = AlignUp(code)
      /\ im.plan.stack = DramOrg + AlignUp(data) + StackSize
  BY DEF Written, PlanLoad
<1>2. ~im.twice
  <2>1. im.twice = \E v, w \in p.writes : v # w /\
                     (v.addr .. v.addr + Len(v.bytes) - 1)
                        \cap (w.addr .. w.addr + Len(w.bytes) - 1) # {}
    BY DEF Written
  <2>2. \A v, w \in p.writes : v # w => Extent(v) \cap Extent(w) = {}
    BY WritesApart DEF Apart
  <2> HIDE DEF p, im
  <2> QED BY <2>1, <2>2 DEF Extent
<1>3. \A w \in p.writes : \A x \in Extent(w) : im.at[x] = w.bytes[x - w.addr + 1]
  BY WrittenIs
<1>4. DOMAIN im.at = UNION {Extent(w) : w \in p.writes}
  BY DEF Written, Extent
<1>5. p.writes = {CodeWrite(code, n) : n \in Starts(code)} \cup {TrampWrite(code)}
                   \cup {DataWrite(data, n) : n \in Starts(data)}
  BY PlanIs
<1>6. \A n : FetchedAt(im, n) = im.at[Place(n)]
  BY DEF FetchedAt, Place
<1> HIDE DEF p, im
<1>7. ASSUME NEW n \in 0 .. code - 1 PROVE FetchedAt(im, n) = <<"code", n + 1>>
  <2>1. PICK c \in Starts(code) : c <= n /\ n < c + Chunk
    BY StartsAre
  <2> DEFINE b == Part("code", code, c)
             w == CodeWrite(code, c)
  <2>2. c \in Nat /\ Aligned(c)
    BY StartsAre
  <2>3. /\ Len(b) \in 1 .. Chunk /\ DOMAIN b = 1 .. Len(b)
        /\ \A j \in 1 .. Len(b) : b[j] = <<"code", c + j>>
        /\ (c + Chunk <= code => Len(b) = Chunk) /\ Len(b) = Smaller(c + Chunk, code) - c
    BY PartIs
  <2>4. w.addr = DramOrg - c - AlignUp(Len(b)) /\ w.bytes = ReverseBinary(b)
    BY DEF CodeWrite
  <2>5. Extent(w) = w.addr .. w.addr + AlignUp(Len(b)) - 1
    <3>1. Len(b) \in Nat
      BY <1>0, <2>3
    <3> HIDE DEF b, w
    <3> QED BY <2>4, <3>1, Padded DEF Extent
  <2>6. w \in p.writes
    BY <1>5
  <2> HIDE DEF b, w
  <2>7. n \in Nat /\ n < c + Len(b) /\ Len(b) \in Nat
    BY <1>0, <2>1, <2>2, <2>3 DEF Smaller
  <2>8. /\ Place(n) \in w.addr .. w.addr + AlignUp(Len(b)) - 1
        /\ ReverseBinary(b)[Place(n) - w.addr + 1] = b[n - c + 1]
    BY <2>1, <2>2, <2>3, <2>4, <2>7, Backwards, SMTT(30)
  <2>9. im.at[Place(n)] = b[n - c + 1]
    BY <1>3, <2>4, <2>5, <2>6, <2>8
  <2>10. n - c + 1 \in 1 .. Len(b) /\ c + (n - c + 1) = n + 1
    BY <2>1, <2>2, <2>7
  <2>11. b[n - c + 1] = <<"code", n + 1>>
    BY <2>3, <2>10
  <2> QED BY <1>6, <2>9, <2>11
<1>8. ASSUME NEW n \in 0 .. TrampSize - 1
      PROVE  FetchedAt(im, AlignUp(code) + n) = <<"tramp", n + 1>>
  <2> DEFINE b == Section("tramp", TrampSize)
             w == TrampWrite(code)
             c == AlignUp(code)
  <2>1. c \in Nat /\ Aligned(c) /\ AlignUp(TrampSize) \in Nat
    BY TrampExtent
  <2>2. Len(b) = TrampSize /\ \A i \in 1 .. TrampSize : b[i] = <<"tramp", i>>
    BY <1>0, SectionIs
  <2>3. DOMAIN b = 1 .. Len(b)
    BY <2>2 DEF Section
  <2>4. w.addr = DramOrg - c - AlignUp(Len(b)) /\ w.bytes = ReverseBinary(b)
    BY <2>2 DEF TrampWrite
  <2>5. w \in p.writes
    BY <1>5
  <2> HIDE DEF b, w, c
  <2>6. Extent(w) = w.addr .. w.addr + AlignUp(Len(b)) - 1
    BY <1>0, <2>2, <2>4, Padded DEF Extent
  <2> DEFINE m == c + n
  <2>7. m \in Nat /\ c <= m /\ m < c + Len(b) /\ m - c + 1 = n + 1 /\ n + 1 \in 1 .. TrampSize
    BY <1>0, <2>1, <2>2
  <2> HIDE DEF m
  <2>8. /\ Place(m) \in w.addr .. w.addr + AlignUp(Len(b)) - 1
        /\ ReverseBinary(b)[Place(m) - w.addr + 1] = b[m - c + 1]
    <3>1. Len(b) \in Nat /\ Aligned(c) /\ m \in Nat /\ c <= m /\ m < c + Len(b)
      BY <1>0, <2>1, <2>2, <2>7
    <3> QED BY <2>3, <2>4, <3>1, Backwards
  <2>9. im.at[Place(m)] = b[n + 1]
    BY <1>3, <2>4, <2>5, <2>6, <2>7, <2>8
  <2>10. FetchedAt(im, m) = <<"tramp", n + 1>>
    BY <1>6, <2>2, <2>7, <2>9
  <2> QED BY <2>10 DEF c, m
<1>9. ASSUME NEW n \in 0 .. data - 1 PROVE im.at[DramOrg + n] = <<"data", n + 1>>
  <2>1. PICK c \in Starts(data) : c <= n /\ n < c + Chunk
    BY StartsAre
  <2> DEFINE b == Part("data", data, c)
             w == DataWrite(data, c)
  <2>2. c \in Nat
    BY StartsAre
  <2>3. /\ Len(b) \in 1 .. Chunk
        /\ \A j \in 1 .. Len(b) : b[j] = <<"data", c + j>>
        /\ (c + Chunk <= data => Len(b) = Chunk) /\ Len(b) = Smaller(c + Chunk, data) - c
    BY PartIs
  <2>4. w.addr = DramOrg + c /\ w.bytes = Align4(b)
    BY DEF DataWrite
  <2>5. w \in p.writes
    BY <1>5
  <2>6. Extent(w) = DramOrg + c .. DramOrg + c + AlignUp(Len(b)) - 1
    BY DataExtent
  <2> HIDE DEF b, w
  <2>7. n < c + Len(b) /\ Len(b) \in Nat
    BY <1>0, <2>1, <2>2, <2>3 DEF Smaller
  <2>8. AlignUp(Len(b)) \in Nat /\ Len(b) <= AlignUp(Len(b))
    BY <2>7, AlignsUp
  <2>9. DramOrg + n \in Extent(w) /\ (DramOrg + n) - w.addr + 1 = n - c + 1
    BY <1>0, <2>1, <2>2, <2>4, <2>6, <2>7, <2>8
  <2>10. n - c + 1 \in 1 .. Len(b) /\ c + (n - c + 1) = n + 1
    BY <2>1, <2>2, <2>7
  <2>11. Align4(b)[n - c + 1] = b[n - c + 1]
    BY <2>7, <2>10, Padded
  <2>12. im.at[DramOrg + n] = b[n - c + 1]
    BY <1>3, <2>4, <2>5, <2>9, <2>11
  <2>13. b[n - c + 1] = <<"data", n + 1>>
    BY <2>3, <2>10
  <2> QED BY <2>12, <2>13
<1>10. ASSUME NEW x \in DOMAIN im.at PROVE x < im.plan.stack - StackSize
  <2>1. AlignUp(data) \in Nat
    BY AlignsUp
  <2>2. PICK w \in p.writes : x \in Extent(w)
    BY <1>4
  <2>3. x \in Int /\ x < DramOrg + AlignUp(data)
    <3>1. CASE w \in {CodeWrite(code, n) : n \in Starts(code)}
      <4>1. PICK n \in Starts(code) : w = CodeWrite(code, n)
        BY <3>1
      <4> DEFINE a == AlignUp(Len(Part("code", code, n)))
      <4>2. Extent(w) = DramOrg - n - a .. DramOrg - n - 1 /\ a \in 1 .. Chunk
        BY <4>1, CodeExtent
      <4> HIDE DEF a
      <4>3. n \in Nat
        BY StartsAre
      <4> QED BY <1>0, <2>1, <2>2, <4>2, <4>3
    <3>2. CASE w = TrampWrite(code)
      <4>1. /\ AlignUp(code) \in Nat /\ AlignUp(TrampSize) \in Nat
            /\ Extent(w) = DramOrg - AlignUp(code) - AlignUp(TrampSize) .. DramOrg - AlignUp(code) - 1
        BY <3>2, TrampExtent
      <4> QED BY <1>0, <2>1, <2>2, <4>1
    <3>3. CASE w \in {DataWrite(data, n) : n \in Starts(data)}
      <4>1. PICK n \in Starts(data) : w = DataWrite(data, n)
        BY <3>3
      <4> DEFINE a == AlignUp(Len(Part("data", data, n)))
      <4>2. Extent(w) = DramOrg + n .. DramOrg + n + a - 1 /\ a \in 1 .. Chunk /\ n + a <= AlignUp(data)
        BY <4>1, DataExtent
      <4> HIDE DEF a
      <4>3. n \in Nat
        BY StartsAre
      <4> QED BY <1>0, <2>1, <2>2, <4>2, <4>3
    <3> QED BY <1>5, <3>1, <3>2, <3>3
  <2> QED BY <1>0, <1>1, <2>1, <2>3
<1>11. SeesStub(im)
  <2>1. \A n \in 0 .. im.plan.code - 1 : FetchedAt(im, n) = <<"code", n + 1>>
    BY <1>1, <1>7
  <2>2. \A n \in 0 .. TrampSize - 1 : FetchedAt(im, im.plan.tramp + n) = <<"tramp", n + 1>>
    BY <1>1, <1>8
  <2>3. \A n \in 0 .. im.plan.data - 1 : im.at[DramOrg + n] = <<"data", n + 1>>
    BY <1>1, <1>9
  <2> QED BY <1>2, <1>10, <2>1, <2>2, <2>3 DEF SeesStub
<1> QED BY <1>11 DEF p, im

\* LoadedImage: after a load the core fetches and reads the stub, for every word, write
\* and section size, whether or not a section fills its last word or its last write.
THEOREM LoadsAreSeen == Spec => LoadedImage
<1> DEFINE A == image' # image => SeesStub(image')
<1>1. ASSUME [Next]_vars PROVE [A]_vars
  <2>1. CASE Load
    <3>1. PICK code \in CodeSizes, data \in DataSizes : image' = Written(PlanLoad(code, data))
      BY <2>1 DEF Load
    <3>2. code \in Nat /\ data \in Nat
      BY ImageAssumption
    <3> QED BY <3>1, <3>2, StubSeen
  <2>2. CASE XtensaResume \/ XtensaDoStep \/ StepStopped \/ StepTimesOut
    BY <2>2 DEF XtensaResume, XtensaDoStep, StepStopped, StepTimesOut
  <2>3. CASE HaltRequest \/ HaltSeen \/ HaltGivesUp \/ ClearDebugInterrupt \/ Resume \/ Fetch \/ Access
    BY <2>3 DEF HaltRequest, HaltSeen, HaltGivesUp, ClearDebugInterrupt, Resume, Fetch, Access
  <2>4. CASE AddBreakpoint \/ RemoveBreakpoint \/ AddWatchpoint \/ RemoveWatchpoint
    BY <2>4 DEF AddBreakpoint, RemoveBreakpoint, AddWatchpoint, RemoveWatchpoint
  <2>5. CASE StartAlgorithm \/ AlgorithmStopped \/ AlgorithmTimesOut \/ AlgorithmLost
    BY <2>5 DEF StartAlgorithm, AlgorithmStopped, AlgorithmTimesOut, AlgorithmLost
  <2>6. CASE CallFunction \/ CallReturned \/ CallTimesOut
    BY <2>6 DEF CallFunction, CallReturned, CallTimesOut
  <2>7. CASE ProgramStops \/ ProgramRuns \/ StubStops
    BY <2>7 DEF ProgramStops, ProgramRuns, StubStops
  <2>8. CASE UNCHANGED vars
    BY <2>8 DEF vars
  <2> QED BY <1>1, <2>1, <2>2, <2>3, <2>4, <2>5, <2>6, <2>7, <2>8 DEF Next
<1> QED BY <1>1, PTL DEF Spec, LoadedImage
=============================================================================
