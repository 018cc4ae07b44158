----------------------------- MODULE TriggersProofs -----------------------------
(***************************************************************************)
(* Proofs about Triggers, for every number of triggers and handles, every  *)
(* program, and every watch.                                               *)
(***************************************************************************)
EXTENDS Triggers, FiniteSetTheorems, WellFoundedInduction, TLAPS

Handles == 0..MaxHandles - 1
Configs ==
  [style: {"off", "program", "range", "first", "second", "eq"}, watch: SUBSET Nat]

\* What a pending step over holds, as far as types go.
PendingType ==
  /\ pending.handle \in Handles /\ pending.marked \subseteq Trig
  /\ \A i \in Trig : i \in DOMAIN pending.saved => pending.saved[i] \in Configs

VarsInv ==
  /\ uid \in [Trig -> Handles \cup {None}]
  /\ enumerated \in BOOLEAN /\ running \in BOOLEAN /\ fallback \in BOOLEAN
  /\ count \in 0..NTrig
  /\ pending = None \/ PendingType
  /\ nextId \in 0..MaxHandles /\ fails \in 0..MaxFails
  /\ hw \in [Trig -> Configs] /\ hits \subseteq Trig
  /\ pc \in Pc /\ timing \in {"before", "after"}
  /\ cause \in {"none", "haltreq", "step", "trigger"}
  /\ asked \in [Handles -> SUBSET Nat] /\ dropped \in BOOLEAN

\* A handle in use, or with a step over pending, has been given out, for one of the
\* watches; before the enumeration there is none.
HandlesInv ==
  /\ pending # None => pending.handle < nextId
  /\ \A i \in Trig : uid[i] # None => uid[i] < nextId /\ asked[uid[i]] \in Watches
  /\ ~enumerated => pending = None /\ \A i \in Trig : uid[i] = None

\* No trigger of the table is armed for nobody, and the triggers of every handle are as
\* it needs them; or all off, once a step over one of its hits has failed.
HartInv ==
  enumerated /\ ~dropped =>
    /\ Ghosts = {}
    /\ \A k \in Live : Served(k) \/ (fails > 0 /\ \A i \in Own(k) : hw[i] = Off)

\* A trigger of no handle is off, the program's, or one an earlier session left armed on
\* an address: whether it fires depends on itself alone.
UnownedInv ==
  ~dropped => \A i \in Trig : uid[i] = None => hw[i].style \in {"off", "program", "eq"}

\* What a pending step over is going to arm again is what is armed now.
PendingInv ==
  pending # None /\ ~dropped =>
    /\ ~running /\ enumerated /\ timing = "before"
    /\ DOMAIN pending.saved = Own(pending.handle)
    /\ \A i \in Own(pending.handle) : pending.saved[i] = hw[i]

TriggersInv == VarsInv /\ HandlesInv /\ HartInv /\ UnownedInv /\ PendingInv

\* On a hart that fires before the instruction and marks no first half of a chain: a
\* hit bit of a handle is that of the instruction the hart is at, and so is the hit
\* that is pending.
HitsInv ==
  ~dropped /\ timing = "before" =>
    /\ \A i \in hits : uid[i] # None => i \in Firing(hw, Touches[pc])
    /\ pending # None => /\ pending.marked = {}
                         /\ Own(pending.handle) \cap Firing(hw, Touches[pc]) # {}

-----------------------------------------------------------------------------
\* The least of a set of indices is one of them.
LEMMA MinIs == ASSUME NEW S, S \subseteq Nat, S # {} PROVE Min(S) \in S
<1> DEFINE R == OpToRel(<, Nat)
<1>1. \E x \in S : \A y \in S : ~ (<<y, x>> \in R)
  BY NatLessThanWellFounded, WFMin, Zenon
<1>2. \A y, x \in S : ~ (<<y, x>> \in R) => x <= y
  <2>1. R = {ss \in Nat \X Nat : ss[1] < ss[2]}
    BY DEF OpToRel
  <2> HIDE DEF R
  <2> QED BY <2>1
<1> HIDE DEF R
<1>3. \E x \in S : \A y \in S : x <= y
  BY <1>1, <1>2
<1> QED BY <1>3 DEF Min

\* The next instruction is one of the program, and another one if there are two.
LEMMA NextInstruction ==
  ASSUME NEW p \in Pc
  PROVE  Next1(p) \in Pc /\ (Cardinality(Pc) > 1 => Next1(p) # p)
<1>1. Cardinality(Pc) \in Nat /\ Pc = 0..Cardinality(Pc) - 1
  BY TriggerAssumption, FS_CardinalityType
<1> QED BY <1>1 DEF Next1

\* The fields of a configuration.
LEMMA StyleIs == ASSUME NEW style, NEW w PROVE Config(style, w).style = style /\ Config(style, w).watch = w
BY DEF Config

\* The cleared configuration is one, and it stops nothing.
LEMMA OffIs == Off \in Configs /\ Off.style = "off" /\ ~DebugMode(Off)
BY DEF Off, Configs, DebugMode

(***************************************************************************)
(* Which triggers fire                                                     *)
(***************************************************************************)
\* A handle one of whose triggers fires is served.
LEMMA FiringLive ==
  ASSUME VarsInv, HartInv, enumerated, ~dropped, NEW t, NEW j \in Firing(hw, t), uid[j] # None
  PROVE  Served(uid[j])
<1>1. j \in Trig /\ hw[j].style \in {"range", "eq", "second"}
  BY DEF Firing
<1>2. uid[j] \in Live /\ j \in Own(uid[j])
  BY <1>1 DEF Live, Own
<1>3. hw[j] # Off
  BY <1>1, OffIs
<1> QED BY <1>2, <1>3 DEF HartInv

\* The triggers of a handle that is served, one by one.
LEMMA ServedIs ==
  ASSUME VarsInv, NEW k, Served(k), NEW j \in Own(k)
  PROVE  \/ hw[j] = Config("range", asked[k]) /\ Own(k) = {j}
         \/ /\ hw[j] = Config("eq", {Min(asked[k])}) /\ Own(k) = {j}
            /\ Cardinality(asked[k]) > 1 => fallback
         \/ hw[j] = Config("first", asked[k]) /\ Own(k) = {j, j + 1}
            /\ hw[j + 1] = Config("second", asked[k]) /\ j + 1 \in Trig
         \/ /\ j > 0 /\ j - 1 \in Own(k) /\ Own(k) = {j - 1, j}
            /\ hw[j] = Config("second", asked[k]) /\ hw[j - 1] = Config("first", asked[k])
<1>1. j \in Nat /\ NTrig \in Nat /\ Trig = 0..NTrig - 1
  BY TriggerAssumption DEF Own, Trig
<1>2. CASE \E i \in Trig : /\ Own(k) = {i}
                           /\ \/ hw[i] = Config("range", asked[k])
                              \/ /\ hw[i] = Config("eq", {Min(asked[k])})
                                 /\ Cardinality(asked[k]) > 1 => fallback
  BY <1>2
<1>3. CASE \E i \in Trig : /\ Own(k) = {i, i + 1}
                           /\ hw[i] = Config("first", asked[k])
                           /\ hw[i + 1] = Config("second", asked[k])
  <2>1. PICK i \in Trig : /\ Own(k) = {i, i + 1}
                          /\ hw[i] = Config("first", asked[k])
                          /\ hw[i + 1] = Config("second", asked[k])
    BY <1>3
  <2>2. i \in Nat /\ i + 1 \in Trig
    BY <1>1, <2>1 DEF Own
  <2>3. CASE j = i
    BY <2>1, <2>2, <2>3
  <2>4. CASE j = i + 1
    <3>1. j - 1 = i /\ j > 0
      BY <2>2, <2>4
    <3> QED BY <2>1, <2>2, <2>4, <3>1
  <2> QED BY <2>1, <2>3, <2>4
<1> QED BY <1>2, <1>3 DEF Served

\* A trigger of a handle fires or not by what is armed for its handle.
LEMMA FiringKept ==
  ASSUME VarsInv, HartInv, enumerated, ~dropped, NEW j \in Trig, uid[j] # None,
         NEW h, \A i \in Own(uid[j]) : h[i] = hw[i], NEW t
  PROVE  j \in Firing(h, t) <=> j \in Firing(hw, t)
<1>1. uid[j] \in Live /\ j \in Own(uid[j])
  BY DEF Live, Own
<1>2. h[j] = hw[j]
  BY <1>1
<1>3. CASE hw[j] = Off
  BY <1>2, <1>3, OffIs DEF Firing
<1>4. CASE Served(uid[j])
  <2>1. \/ hw[j].style \in {"range", "eq", "first"}
        \/ j > 0 /\ j - 1 \in Own(uid[j])
    <3> DEFINE k == uid[j]
    <3>1. \/ hw[j] = Config("range", asked[k])
          \/ hw[j] = Config("eq", {Min(asked[k])})
          \/ hw[j] = Config("first", asked[k])
          \/ j > 0 /\ j - 1 \in Own(k)
      <4> HIDE DEF k
      <4> QED BY <1>1, <1>4, ServedIs, Zenon DEF k
    <3> QED BY <3>1, StyleIs
  <2>2. CASE hw[j].style \in {"range", "eq", "first"}
    BY <1>2, <2>2 DEF Firing
  <2>3. CASE j > 0 /\ j - 1 \in Own(uid[j])
    <3>1. h[j - 1] = hw[j - 1]
      BY <2>3
    <3> QED BY <1>2, <2>3, <3>1 DEF Firing
  <2> QED BY <2>1, <2>2, <2>3
<1> QED BY <1>1, <1>3, <1>4 DEF HartInv

\* With the triggers of one handle off, the others fire as before.
LEMMA FiringWithout ==
  ASSUME VarsInv, HartInv, UnownedInv, enumerated, ~dropped, NEW k \in Handles, NEW t
  PROVE  Firing([i \in Trig |-> IF i \in Own(k) THEN Off ELSE hw[i]], t) = Firing(hw, t) \ Own(k)
<1> DEFINE h == [i \in Trig |-> IF i \in Own(k) THEN Off ELSE hw[i]]
<1>1. ASSUME NEW j \in Own(k) PROVE j \notin Firing(h, t)
  <2>1. j \in Trig /\ h[j] = Off
    BY <1>1 DEF Own
  <2> QED BY <2>1, OffIs DEF Firing
<1>2. ASSUME NEW j \in Trig, uid[j] = None
      PROVE  j \notin Own(k) /\ (j \in Firing(h, t) <=> j \in Firing(hw, t))
  <2>1. j \notin Own(k)
    BY <1>2, TriggerAssumption DEF Own, Handles
  <2>2. h[j] = hw[j] /\ hw[j].style \in {"off", "program", "eq"}
    BY <1>2, <2>1 DEF UnownedInv
  <2> HIDE DEF h
  <2> QED BY <2>1, <2>2 DEF Firing
<1>3. ASSUME NEW j \in Trig, uid[j] # None, j \notin Own(k)
      PROVE  j \in Firing(h, t) <=> j \in Firing(hw, t)
  <2>1. \A i \in Own(uid[j]) : h[i] = hw[i]
    BY <1>3 DEF Own
  <2> HIDE DEF h
  <2> QED BY <1>3, <2>1, FiringKept
<1>4. Firing(h, t) \subseteq Trig /\ Firing(hw, t) \subseteq Trig
  BY DEF Firing
<1> HIDE DEF h
<1>5. Firing(h, t) = Firing(hw, t) \ Own(k)
  BY <1>1, <1>2, <1>3, <1>4
<1> QED BY <1>5 DEF h

\* At most one trigger of a handle fires: a pair fires as its second.
LEMMA OneFires ==
  ASSUME VarsInv, HartInv, enumerated, ~dropped, NEW t,
         NEW i \in Firing(hw, t), NEW j \in Firing(hw, t), uid[i] = uid[j], uid[i] # None
  PROVE  i = j
<1>1. i \in Own(uid[i]) /\ j \in Own(uid[i]) /\ Served(uid[i])
  BY FiringLive DEF Firing, Own
<1>2. hw[i].style # "first" /\ hw[j].style # "first"
  BY DEF Firing
<1>3. i \in Nat /\ j \in Nat
  BY TriggerAssumption DEF Firing, Trig
<1>4. Own(uid[i]) = {i} \/ (Own(uid[i]) = {i - 1, i} /\ hw[i - 1].style = "first")
  <2> DEFINE k == uid[i]
  <2>1. \/ Own(k) = {i}
        \/ hw[i] = Config("first", asked[k])
        \/ Own(k) = {i - 1, i} /\ hw[i - 1] = Config("first", asked[k])
    BY <1>1, ServedIs, Zenon
  <2> QED BY <1>2, <2>1, StyleIs
<1> QED BY <1>1, <1>2, <1>4

\* An instruction that touches what a handle watches makes it fire, unless only the
\* first of several addresses is watched.
LEMMA Fires ==
  ASSUME VarsInv, HandlesInv, NEW k \in Live, Served(k), ~fallback, NEW t, asked[k] \cap t # {}
  PROVE  \E j \in Own(k) : j \in Firing(hw, t)
<1>1. Own(k) # {} /\ Own(k) \subseteq Trig
  BY DEF Live, Own
<1>2. asked[k] \in Watches
  BY DEF HandlesInv, Live
<1>3. Cardinality(asked[k]) > 1 \/ asked[k] = {Min(asked[k])}
  <2>1. IsFiniteSet(asked[k]) /\ asked[k] # {} /\ asked[k] \subseteq Nat
    BY <1>2, TriggerAssumption
  <2>2. Cardinality(asked[k]) \in Nat /\ Cardinality(asked[k]) # 0
    BY <2>1, FS_CardinalityType, FS_EmptySet
  <2>3. CASE Cardinality(asked[k]) = 1
    <3>1. \E x : asked[k] = {x}
      BY <2>1, <2>3, FS_Singleton
    <3> QED BY <2>1, <3>1, MinIs
  <2> QED BY <2>2, <2>3
<1>4. PICK j \in Own(k) : TRUE
  BY <1>1
<1>5. CASE hw[j] = Config("range", asked[k])
  BY <1>1, <1>5 DEF Firing, Config
<1>6. CASE hw[j] = Config("eq", {Min(asked[k])}) /\ (Cardinality(asked[k]) > 1 => fallback)
  BY <1>1, <1>3, <1>6 DEF Firing, Config
<1>7. CASE hw[j] = Config("first", asked[k]) /\ Own(k) = {j, j + 1}
           /\ hw[j + 1] = Config("second", asked[k]) /\ j + 1 \in Trig
  <2>1. j \in Nat /\ j + 1 > 0 /\ (j + 1) - 1 = j
    BY <1>1, TriggerAssumption DEF Trig
  <2>2. j + 1 \in Firing(hw, t)
    BY <1>7, <2>1 DEF Firing, Config
  <2> QED BY <1>7, <2>2
<1>8. CASE /\ j > 0 /\ j - 1 \in Own(k)
           /\ hw[j] = Config("second", asked[k]) /\ hw[j - 1] = Config("first", asked[k])
  BY <1>1, <1>8 DEF Firing, Config
<1> QED BY <1>5, <1>6, <1>7, <1>8, ServedIs

-----------------------------------------------------------------------------
(***************************************************************************)
(* The steps                                                               *)
(***************************************************************************)
LEMMA InitTriggers == Init => TriggersInv /\ HitsInv
<1> SUFFICES ASSUME Init PROVE TriggersInv /\ HitsInv
  OBVIOUS
<1> USE DEF Init
<1>1. hw \in [Trig -> Configs] /\ \A i \in Trig : hw[i].style \in {"off", "program", "eq"}
  <2>1. PICK left \in {Off} \cup {Config("eq", {Min(w)}) : w \in Watches},
             mine \in {Off, Config("program", {})} :
          hw = [i \in Trig |-> CASE i = NTrig - 1 -> left [] i = 0 -> mine [] OTHER -> Off]
    OBVIOUS
  <2>2. \A w \in Watches : Min(w) \in Nat
    BY TriggerAssumption, MinIs
  <2>3. /\ left \in Configs /\ left.style \in {"off", "eq"}
        /\ mine \in Configs /\ mine.style \in {"off", "program"}
    BY <2>2, OffIs DEF Config, Configs
  <2> QED BY <2>1, <2>3, OffIs
<1>2. NTrig \in Nat /\ MaxHandles \in Nat /\ MaxFails \in Nat /\ 0 \in Pc
  <2>1. Cardinality(Pc) \in Nat /\ Pc # {} /\ Pc = 0..Cardinality(Pc) - 1
    BY TriggerAssumption, FS_CardinalityType
  <2> QED BY <2>1, TriggerAssumption
<1>3. asked \in [Handles -> SUBSET Nat]
  BY DEF Handles
<1>4. VarsInv
  <2>1. /\ uid \in [Trig -> Handles \cup {None}] /\ enumerated = FALSE /\ pending = None /\ nextId = 0
        /\ fallback = FALSE /\ hits = {} /\ pc = 0 /\ running = TRUE /\ cause = "none"
        /\ timing \in {"before", "after"} /\ dropped = FALSE /\ fails = 0 /\ count = 0
    OBVIOUS
  <2> HIDE DEF Init
  <2>2. enumerated \in BOOLEAN /\ fallback \in BOOLEAN /\ running \in BOOLEAN /\ dropped \in BOOLEAN
    BY <2>1, Zenon
  <2>3. /\ nextId \in 0..MaxHandles /\ fails \in 0..MaxFails /\ hits \subseteq Trig
        /\ pc \in Pc /\ cause \in {"none", "haltreq", "step", "trigger"} /\ count \in 0..NTrig
    BY <1>2, <2>1
  <2> QED BY <1>1, <1>3, <2>1, <2>2, <2>3, Zenon DEF VarsInv
<1>5. HandlesInv /\ HartInv /\ UnownedInv /\ PendingInv /\ HitsInv
  BY <1>1 DEF HandlesInv, HartInv, UnownedInv, PendingInv, HitsInv
<1> QED BY <1>4, <1>5 DEF TriggersInv

\* What no call but an add or a remove touches.
LEMMA SameHandles ==
  ASSUME TriggersInv, UNCHANGED <<uid, enumerated, count, nextId, fallback, hw, asked, dropped, fails>>
  PROVE  /\ HartInv' /\ UnownedInv'
         /\ pending' = pending => HandlesInv'
         /\ \A k : Own(k)' = Own(k)
<1>1. \A k : Own(k)' = Own(k) /\ (Served(k)' <=> Served(k))
  BY DEF Own, Served
<1>2. HartInv'
  BY <1>1 DEF TriggersInv, HartInv, Ghosts, ArmedForNone, Live
<1>3. UnownedInv'
  BY DEF TriggersInv, UnownedInv
<1> QED BY <1>1, <1>2, <1>3 DEF TriggersInv, HandlesInv

\* Which hit bits a firing sets: triggers, and exactly those that fired unless the marks chain.
LEMMA MarksAre ==
  ASSUME NEW h, NEW t, NEW marks \in Marks(h, Firing(h, t))
  PROVE  marks \subseteq Trig /\ (MarksChain = FALSE => marks = Firing(h, t))
BY TriggerAssumption DEF Marks, Firing

\* Letting the hart run keeps it.
LEMMA RunTriggers == ASSUME TriggersInv, Run PROVE TriggersInv'
<1>1. VarsInv'
  BY NextInstruction DEF Run, TriggersInv, VarsInv, PendingType, host
<1>2. HandlesInv' /\ HartInv' /\ UnownedInv'
  BY SameHandles DEF Run, host
<1>3. PendingInv'
  BY DEF Run, host, TriggersInv, PendingInv
<1> QED BY <1>1, <1>2, <1>3 DEF TriggersInv

\* A trigger that fires keeps it.
LEMMA FireTriggers == ASSUME TriggersInv, Fire PROVE TriggersInv'
<1>1. hits' \subseteq Trig
  BY MarksAre DEF Fire, TriggersInv, VarsInv
<1>2. VarsInv'
  BY <1>1, NextInstruction DEF Fire, TriggersInv, VarsInv, PendingType, host
<1>3. HandlesInv' /\ HartInv' /\ UnownedInv'
  BY SameHandles DEF Fire, host
<1>4. PendingInv'
  BY DEF Fire, host, TriggersInv, PendingInv
<1> QED BY <1>2, <1>3, <1>4 DEF TriggersInv

\* A single step keeps it.
LEMMA StepTriggers == ASSUME TriggersInv, Step PROVE TriggersInv'
<1>1. hits' \subseteq Trig
  BY MarksAre DEF Step, StepWith, TriggersInv, VarsInv
<1>2. pc' \in Pc /\ cause' \in {"none", "haltreq", "step", "trigger"}
  BY NextInstruction DEF Step, StepWith, TriggersInv, VarsInv
<1>3. VarsInv'
  BY <1>1, <1>2 DEF Step, TriggersInv, VarsInv, PendingType, host
<1>4. HandlesInv' /\ HartInv' /\ UnownedInv'
  BY SameHandles DEF Step, host
<1>5. PendingInv'
  BY DEF Step, host, TriggersInv, PendingInv, Own
<1> QED BY <1>3, <1>4, <1>5 DEF TriggersInv

\* What is noted of a hit: the handle of one of the triggers whose bit is set, and
\* what is armed for it.
LEMMA NotedIs ==
  ASSUME VarsInv, NEW why, Noted(why)
  PROVE  \/ UNCHANGED <<hits, pending>>
         \/ /\ enumerated /\ why = "trigger"
            /\ \E m \in hits :
                 /\ uid[m] # None /\ hits' = hits \ {m}
                 /\ \/ timing # "before" /\ UNCHANGED pending
                    \/ /\ timing = "before"
                       /\ pending' = [handle |-> uid[m],
                                      saved  |-> [i \in Own(uid[m]) |-> hw[i]],
                                      marked |-> {j \in hits' : uid[j] = uid[m]}]
<1> DEFINE hit == {i \in hits : uid[i] # None}  m == Min(hit)
<1>1. CASE enumerated /\ why = "trigger" /\ hit # {}
  <2>1. hit \subseteq Nat
    BY TriggerAssumption DEF VarsInv, Trig
  <2>2. m \in hit
    BY <1>1, <2>1, MinIs
  <2>3. /\ hits' = hits \ {m}
        /\ IF timing = "before"
           THEN pending' = [handle |-> uid[m],
                            saved  |-> [i \in {j \in Trig : uid[j] = uid[m]} |-> hw[i]],
                            marked |-> {j \in hits' : uid[j] = uid[m]}]
           ELSE UNCHANGED pending
    BY <1>1 DEF Noted
  <2>4. Own(uid[m]) = {j \in Trig : uid[j] = uid[m]}
    BY DEF Own
  <2> HIDE DEF m
  <2>5. m \in hits /\ uid[m] # None
    BY <2>2
  <2> HIDE DEF hit
  <2> QED BY <1>1, <2>3, <2>4, <2>5
<1>2. CASE ~(enumerated /\ why = "trigger" /\ hit # {})
  BY <1>2 DEF Noted
<1> QED BY <1>1, <1>2

\* A halt keeps it.
LEMMA HaltTriggers == ASSUME TriggersInv, Halt PROVE TriggersInv'
<1>1. /\ running' = FALSE /\ cause' = (IF running THEN "haltreq" ELSE cause) /\ Noted(cause')
      /\ UNCHANGED <<uid, enumerated, count, nextId, fallback, hw, pc, timing, asked, dropped, fails>>
  BY DEF Halt
<1>2. VarsInv
  BY DEF TriggersInv
<1>3. cause' \in {"none", "haltreq", "step", "trigger"}
  BY <1>1, <1>2 DEF VarsInv
<1>4. HartInv' /\ UnownedInv' /\ \A k : Own(k)' = Own(k)
  BY <1>1, SameHandles
<1>5. CASE UNCHANGED <<hits, pending>>
  <2>1. VarsInv'
    BY <1>1, <1>2, <1>3, <1>5 DEF VarsInv, PendingType
  <2>2. HandlesInv'
    BY <1>1, <1>5, SameHandles
  <2>3. PendingInv'
    BY <1>1, <1>4, <1>5 DEF TriggersInv, PendingInv
  <2> QED BY <1>4, <2>1, <2>2, <2>3 DEF TriggersInv
<1>6. CASE /\ enumerated
           /\ \E m \in hits :
                /\ uid[m] # None /\ hits' = hits \ {m}
                /\ \/ timing # "before" /\ UNCHANGED pending
                   \/ /\ timing = "before"
                      /\ pending' = [handle |-> uid[m],
                                     saved  |-> [i \in Own(uid[m]) |-> hw[i]],
                                     marked |-> {j \in hits' : uid[j] = uid[m]}]
  <2>1. PICK m \in hits :
                /\ uid[m] # None /\ hits' = hits \ {m}
                /\ \/ timing # "before" /\ UNCHANGED pending
                   \/ /\ timing = "before"
                      /\ pending' = [handle |-> uid[m],
                                     saved  |-> [i \in Own(uid[m]) |-> hw[i]],
                                     marked |-> {j \in hits' : uid[j] = uid[m]}]
    BY <1>6
  <2>2. hits' \subseteq Trig /\ uid[m] \in Handles /\ uid[m] < nextId
    BY <1>2, <2>1 DEF VarsInv, TriggersInv, HandlesInv
  <2>3. HandlesInv'
    <3>1. pending' = pending \/ pending'.handle = uid[m]
      BY <2>1
    <3>2. pending' # None => pending'.handle < nextId'
      BY <1>1, <2>2, <3>1 DEF TriggersInv, HandlesInv
    <3> QED BY <1>1, <1>6, <3>2 DEF TriggersInv, HandlesInv
  <2>4. CASE timing # "before" /\ UNCHANGED pending
    <3>1. VarsInv'
      BY <1>1, <1>2, <1>3, <2>2, <2>4 DEF VarsInv, PendingType
    <3>2. PendingInv'
      BY <1>1, <1>4, <2>4 DEF TriggersInv, PendingInv
    <3> QED BY <1>4, <2>3, <3>1, <3>2 DEF TriggersInv
  <2>5. CASE /\ timing = "before"
             /\ pending' = [handle |-> uid[m],
                            saved  |-> [i \in Own(uid[m]) |-> hw[i]],
                            marked |-> {j \in hits' : uid[j] = uid[m]}]
    <3>1. /\ pending'.handle = uid[m] /\ pending'.marked \subseteq Trig
          /\ DOMAIN pending'.saved = Own(uid[m])
          /\ \A i \in Own(uid[m]) : pending'.saved[i] = hw[i]
      BY <2>2, <2>5
    <3>2. PendingType'
      BY <1>1, <1>2, <2>2, <3>1 DEF PendingType, VarsInv, Own
    <3>3. VarsInv'
      BY <1>1, <1>2, <1>3, <2>2, <3>2 DEF VarsInv
    <3>4. PendingInv'
      BY <1>1, <1>4, <1>6, <2>5, <3>1 DEF PendingInv
    <3> QED BY <1>4, <2>3, <3>3, <3>4 DEF TriggersInv
  <2> QED BY <2>1, <2>4, <2>5
<1> QED BY <1>1, <1>2, <1>5, <1>6, NotedIs

\* A handle whose triggers stay as they are is served as before.
LEMMA ServedKept ==
  ASSUME VarsInv, NEW k \in Handles, Served(k), Own(k)' = Own(k),
         \A i \in Own(k) : hw'[i] = hw[i], asked'[k] = asked[k], fallback => fallback'
  PROVE  Served(k)'
<1>1. CASE \E i \in Trig : /\ Own(k) = {i}
                           /\ \/ hw[i] = Config("range", asked[k])
                              \/ /\ hw[i] = Config("eq", {Min(asked[k])})
                                 /\ Cardinality(asked[k]) > 1 => fallback
  <2>1. PICK i \in Trig : /\ Own(k) = {i}
                          /\ \/ hw[i] = Config("range", asked[k])
                             \/ /\ hw[i] = Config("eq", {Min(asked[k])})
                                /\ Cardinality(asked[k]) > 1 => fallback
    BY <1>1
  <2>2. hw'[i] = hw[i] /\ Own(k)' = {i}
    BY <2>1
  <2> QED BY <2>1, <2>2 DEF Served
<1>2. CASE \E i \in Trig : /\ Own(k) = {i, i + 1}
                           /\ hw[i] = Config("first", asked[k])
                           /\ hw[i + 1] = Config("second", asked[k])
  <2>1. PICK i \in Trig : /\ Own(k) = {i, i + 1}
                          /\ hw[i] = Config("first", asked[k])
                          /\ hw[i + 1] = Config("second", asked[k])
    BY <1>2
  <2>2. hw'[i] = hw[i] /\ hw'[i + 1] = hw[i + 1] /\ Own(k)' = {i, i + 1}
    BY <2>1
  <2> QED BY <2>1, <2>2 DEF Served
<1> QED BY <1>1, <1>2 DEF Served

\* So does an enumeration that fails.
LEMMA EnumerationFailsTriggers == ASSUME TriggersInv, EnumerationFails PROVE TriggersInv'
<1>1. /\ ~enumerated /\ enumerated' = enumerated /\ nextId < MaxHandles /\ nextId' = nextId + 1
      /\ \E n \in 0..NTrig : hw' = LeftOversOff(n)
      /\ UNCHANGED <<uid, count, pending, fallback, hits, pc, running, timing, cause, asked, dropped, fails>>
  BY DEF EnumerationFails
<1>2. VarsInv /\ pending = None
  BY <1>1 DEF TriggersInv, HandlesInv
<1>3. hw' \in [Trig -> Configs]
  BY <1>1, <1>2, OffIs DEF LeftOversOff, VarsInv
<1>4. nextId' \in 0..MaxHandles
  BY <1>1, <1>2, TriggerAssumption DEF VarsInv
<1>5. VarsInv'
  BY <1>1, <1>2, <1>3, <1>4 DEF VarsInv
<1>6. HandlesInv' /\ HartInv' /\ PendingInv'
  BY <1>1, <1>2 DEF TriggersInv, HandlesInv, HartInv, PendingInv
<1>7. UnownedInv'
  BY <1>1, <1>2, OffIs DEF TriggersInv, UnownedInv, LeftOversOff, VarsInv
<1> QED BY <1>5, <1>6, <1>7 DEF TriggersInv

\* Removing a watch clears what it held, and nothing else.
LEMMA RemoveTriggers == ASSUME TriggersInv, NEW k \in Handles, Remove(k) PROVE TriggersInv'
<1>1. /\ ~running /\ enumerated
      /\ uid' = [i \in Trig |-> IF uid[i] = k THEN None ELSE uid[i]]
      /\ hw' = [i \in Trig |-> IF uid[i] = k THEN Off ELSE hw[i]]
      /\ hits' = {i \in hits : uid[i] # k}
      /\ dropped' = (dropped \/ (pending # None /\ pending.handle = k))
      /\ UNCHANGED <<enumerated, count, pending, nextId, fallback, pc, running, cause, timing, asked, fails>>
  BY DEF Remove
<1>2. VarsInv /\ k # None
  BY TriggerAssumption DEF TriggersInv, Handles
<1>3. uid' \in [Trig -> Handles \cup {None}] /\ hw' \in [Trig -> Configs] /\ hits' \subseteq Trig
      /\ dropped' \in BOOLEAN
  BY <1>1, <1>2, OffIs DEF VarsInv
<1>4. VarsInv'
  BY <1>1, <1>2, <1>3 DEF VarsInv, PendingType
<1>5. HandlesInv'
  BY <1>1, <1>2 DEF TriggersInv, HandlesInv
<1>6. \A j \in Handles : j # k => Own(j)' = Own(j) /\ \A i \in Own(j) : hw'[i] = hw[i]
  <2>1. ASSUME NEW j \in Handles, j # k PROVE Own(j)' = Own(j) /\ \A i \in Own(j) : hw'[i] = hw[i]
    <3>1. j # None
      BY TriggerAssumption DEF Handles
    <3> QED BY <1>1, <2>1, <3>1 DEF Own
  <2> QED BY <2>1
<1>7. HartInv'
  <2> SUFFICES ASSUME ~dropped'
               PROVE  Ghosts' = {} /\ \A j \in Live' : Served(j)' \/ (fails' > 0 /\ \A i \in Own(j)' : hw'[i] = Off)
    BY DEF HartInv
  <2>1. ~dropped /\ Ghosts = {} /\ \A j \in Live : Served(j) \/ (fails > 0 /\ \A i \in Own(j) : hw[i] = Off)
    BY <1>1 DEF TriggersInv, HartInv
  <2>2. Ghosts' = {}
    BY <1>1, <1>2, <2>1, OffIs DEF Ghosts, ArmedForNone
  <2>3. ASSUME NEW j \in Live'
        PROVE  Served(j)' \/ (fails' > 0 /\ \A i \in Own(j)' : hw'[i] = Off)
    <3>1. j \in Live /\ j # k /\ j \in Handles
      BY <1>1, <1>2 DEF Live, VarsInv
    <3>2. Own(j)' = Own(j) /\ (\A i \in Own(j) : hw'[i] = hw[i]) /\ asked'[j] = asked[j]
          /\ fallback' = fallback /\ fails' = fails
      BY <1>1, <1>6, <3>1
    <3>3. CASE Served(j)
      BY <1>2, <3>1, <3>2, <3>3, ServedKept
    <3>4. CASE fails > 0 /\ \A i \in Own(j) : hw[i] = Off
      BY <3>2, <3>4
    <3> QED BY <2>1, <3>1, <3>3, <3>4
  <2> QED BY <2>2, <2>3
<1>8. PendingInv'
  <2> SUFFICES ASSUME pending # None, ~dropped' PROVE PendingInv'
    BY <1>1 DEF PendingInv
  <2>1. ~dropped /\ pending.handle # k /\ pending.handle \in Handles
    BY <1>1, <1>2 DEF VarsInv, PendingType
  <2>2. Own(pending.handle)' = Own(pending.handle) /\ \A i \in Own(pending.handle) : hw'[i] = hw[i]
    <3>1. \A j : pending' = pending => Own(pending.handle)' = {i \in Trig : uid'[i] = pending.handle}
      BY DEF Own
    <3>2. ASSUME NEW j \in Handles, j # k
          PROVE  {i \in Trig : uid'[i] = j} = Own(j) /\ \A i \in Own(j) : hw'[i] = hw[i]
      BY <1>6, <3>2 DEF Own
    <3> QED BY <1>1, <2>1, <3>1, <3>2
  <2> QED BY <1>1, <2>1, <2>2 DEF TriggersInv, PendingInv
<1>9. UnownedInv'
  BY <1>1, <1>2, OffIs DEF TriggersInv, UnownedInv
<1> QED BY <1>4, <1>5, <1>7, <1>8, <1>9 DEF TriggersInv

\* A resume that has nothing to step over keeps it.
LEMMA ResumeAtOnceTriggers == ASSUME TriggersInv, ResumeAtOnce PROVE TriggersInv'
<1>1. VarsInv'
  BY DEF ResumeAtOnce, TriggersInv, VarsInv, PendingType, host
<1>2. HandlesInv' /\ HartInv' /\ UnownedInv'
  BY SameHandles DEF ResumeAtOnce, host
<1>3. PendingInv'
  BY DEF ResumeAtOnce, host, PendingInv
<1> QED BY <1>1, <1>2, <1>3 DEF TriggersInv

\* What is armed with the pending handle's triggers off, and on again.
LEMMA SavedIs ==
  ASSUME TriggersInv, pending # None, ~dropped
  PROVE  /\ pending.handle \in Handles
         /\ Disarmed = [i \in Trig |-> IF i \in Own(pending.handle) THEN Off ELSE hw[i]]
         /\ Rearmed = hw
<1>1. /\ DOMAIN pending.saved = Own(pending.handle)
      /\ \A i \in Own(pending.handle) : pending.saved[i] = hw[i]
  BY DEF TriggersInv, PendingInv
<1>2. \A i \in Trig : Saved(i) <=> i \in Own(pending.handle)
  BY <1>1 DEF Saved
<1>3. pending.handle \in Handles /\ hw \in [Trig -> Configs]
  BY DEF TriggersInv, VarsInv, PendingType
<1>4. Disarmed = [i \in Trig |-> IF i \in Own(pending.handle) THEN Off ELSE hw[i]]
  BY <1>2 DEF Disarmed
<1>5. Rearmed = hw
  BY <1>1, <1>2, <1>3 DEF Rearmed
<1> QED BY <1>3, <1>4, <1>5

\* A resume that steps over a trigger puts back what it cleared.
LEMMA ResumeOverTriggers == ASSUME TriggersInv, ResumeOver PROVE TriggersInv'
<1>1. /\ pending # None /\ pending' = None /\ hw' = Rearmed /\ running' = TRUE /\ cause' = "none"
      /\ UNCHANGED <<uid, enumerated, count, nextId, fallback, timing, asked, dropped, fails>>
  BY DEF ResumeOver
<1>2. VarsInv /\ PendingType
  BY <1>1 DEF TriggersInv, VarsInv
<1>3. pc' \in Pc
  BY <1>2, NextInstruction DEF ResumeOver, VarsInv
<1>4. hits' \subseteq Trig
  <2>1. PICK marks \in Marks(Disarmed, Firing(Disarmed, Touches[pc])) :
          hits' = ((hits \cup marks) \ DOMAIN pending.saved) \cup pending.marked
    BY DEF ResumeOver
  <2> QED BY <1>2, <2>1, MarksAre DEF VarsInv, PendingType
<1>5. hw' \in [Trig -> Configs]
  BY <1>1, <1>2 DEF Rearmed, Saved, VarsInv, PendingType
<1>6. VarsInv'
  BY <1>1, <1>2, <1>3, <1>4, <1>5 DEF VarsInv
<1>7. HandlesInv' /\ PendingInv'
  BY <1>1 DEF TriggersInv, HandlesInv, PendingInv
<1>8. HartInv'
  <2>1. CASE dropped
    BY <1>1, <2>1 DEF HartInv
  <2>2. CASE ~dropped
    <3>1. hw' = hw
      BY <1>1, <2>2, SavedIs
    <3> QED BY <1>1, <3>1, SameHandles
  <2> QED BY <2>1, <2>2
<1>9. UnownedInv'
  <2> SUFFICES ASSUME ~dropped PROVE UnownedInv'
    BY <1>1 DEF UnownedInv
  <2>1. hw' = hw
    BY <1>1, SavedIs
  <2> QED BY <1>1, <2>1, SameHandles
<1> QED BY <1>6, <1>7, <1>8, <1>9 DEF TriggersInv

\* A resume that fails on its way leaves handles and hart in agreement.
LEMMA ResumeFailsTriggers == ASSUME TriggersInv, ResumeFails PROVE TriggersInv'
<1>1. /\ pending # None /\ pending' = None /\ hw' = Disarmed /\ running' = TRUE /\ cause' = "none"
      /\ fails < MaxFails /\ fails' = fails + 1 /\ hits' = hits \ DOMAIN pending.saved
      /\ UNCHANGED <<uid, enumerated, count, nextId, fallback, pc, timing, asked, dropped>>
  BY DEF ResumeFails
<1>2. VarsInv
  BY DEF TriggersInv
<1>3. hw' \in [Trig -> Configs] /\ hits' \subseteq Trig
  BY <1>1, <1>2, OffIs DEF Disarmed, VarsInv
<1>4. fails' \in 0..MaxFails /\ fails' > 0
  BY <1>1, <1>2, TriggerAssumption DEF VarsInv
<1>5. VarsInv'
  BY <1>1, <1>2, <1>3, <1>4 DEF VarsInv
<1>6. HandlesInv' /\ PendingInv'
  BY <1>1 DEF TriggersInv, HandlesInv, PendingInv
<1>7. HartInv'
  <2> SUFFICES ASSUME enumerated, ~dropped
               PROVE  Ghosts' = {} /\ \A j \in Live' : Served(j)' \/ (fails' > 0 /\ \A i \in Own(j)' : hw'[i] = Off)
    BY <1>1 DEF HartInv
  <2>1. Ghosts = {} /\ \A j \in Live : Served(j) \/ (fails > 0 /\ \A i \in Own(j) : hw[i] = Off)
    BY DEF TriggersInv, HartInv
  <2>2. hw' = [i \in Trig |-> IF i \in Own(pending.handle) THEN Off ELSE hw[i]]
    BY <1>1, SavedIs
  <2>3. Ghosts' = {}
    BY <1>1, <2>1, <2>2, OffIs DEF Ghosts, ArmedForNone
  <2>4. ASSUME NEW j \in Live'
        PROVE  Served(j)' \/ (fails' > 0 /\ \A i \in Own(j)' : hw'[i] = Off)
    <3>1. j \in Live /\ j \in Handles /\ Own(j)' = Own(j) /\ Own(j) \subseteq Trig
      BY <1>1, <1>2 DEF Live, VarsInv, Own
    <3>2. CASE j = pending.handle
      BY <1>4, <2>2, <3>1, <3>2
    <3>3. CASE j # pending.handle
      <4>1. \A i \in Own(j) : hw'[i] = hw[i]
        BY <2>2, <3>1, <3>3 DEF Own
      <4>2. CASE Served(j)
        BY <1>1, <1>2, <3>1, <4>1, <4>2, ServedKept
      <4>3. CASE \A i \in Own(j) : hw[i] = Off
        BY <1>4, <3>1, <4>1, <4>3
      <4> QED BY <2>1, <3>1, <4>2, <4>3
    <3> QED BY <3>2, <3>3
  <2> QED BY <2>3, <2>4
<1>8. UnownedInv'
  BY <1>1, <1>2, OffIs DEF TriggersInv, UnownedInv, Disarmed
<1> QED BY <1>5, <1>6, <1>7, <1>8 DEF TriggersInv

\* What every add comes down to: triggers nobody had become the new handle's, the
\* others keep their owner, and those that are armed for a handle stay as they are.
Adds(used, w) ==
  /\ ~running /\ nextId < MaxHandles /\ nextId' = nextId + 1 /\ enumerated' = TRUE
  /\ UNCHANGED <<pending, pc, running, cause, timing, dropped, fails>>
  /\ hits' \subseteq hits \ used
  /\ hw' \in [Trig -> Configs] /\ fallback' \in BOOLEAN /\ (fallback => fallback')
  /\ count' \in 0..NTrig
  /\ \A j \in used : uid[j] = None
  /\ uid' = [j \in Trig |-> IF j \in used THEN nextId ELSE uid[j]]
  /\ \A j \in Trig : uid[j] # None => hw'[j] = hw[j]
  /\ ~dropped => \A j \in Trig \ used :
       uid[j] = None => /\ hw'[j].style \in {"off", "program", "eq"}
                        /\ j < count' => ~DebugMode(hw'[j])
  /\ asked' = asked \/ asked' = [asked EXCEPT ![nextId] = w]
  /\ used # {} => /\ asked' = [asked EXCEPT ![nextId] = w]
                  /\ \A k \in Handles : k = nextId => Served(k)'

\* The handles given out before an add keep their triggers.
LEMMA AddLeaves ==
  ASSUME TriggersInv, NEW used \in SUBSET Trig, NEW w \in Watches, Adds(used, w), NEW k \in Handles,
         k # nextId
  PROVE  {i \in Trig : uid'[i] = k} = Own(k) /\ \A i \in Own(k) : hw'[i] = hw[i]
<1>1. k # None
  BY TriggerAssumption DEF Handles
<1> QED BY <1>1 DEF Own, Adds

\* Adding a watch keeps handles and hart in agreement.
LEMMA AddKeeps ==
  ASSUME TriggersInv, NEW used \in SUBSET Trig, NEW w \in Watches, Adds(used, w)
  PROVE  TriggersInv'
<1> USE DEF Adds
<1>1. VarsInv /\ nextId \in Handles /\ nextId \in Nat /\ w \subseteq Nat
  <2>1. nextId \in Nat /\ MaxHandles \in Nat
    BY TriggerAssumption DEF TriggersInv, VarsInv
  <2> QED BY <2>1, TriggerAssumption DEF TriggersInv, Handles
<1>2. asked' \in [Handles -> SUBSET Nat] /\ (\A k \in Handles : k # nextId => asked'[k] = asked[k])
      /\ (used # {} => asked'[nextId] = w)
  BY <1>1 DEF VarsInv
<1>3. uid' \in [Trig -> Handles \cup {None}] /\ nextId' \in 0..MaxHandles /\ hits' \subseteq Trig
  BY <1>1, TriggerAssumption DEF VarsInv
<1>4. VarsInv'
  BY <1>1, <1>2, <1>3 DEF VarsInv, PendingType
\* The handles given out before are not the new one, and keep their triggers.
<1>5. \A j \in Trig : uid[j] # None => uid[j] \in Handles /\ uid[j] < nextId /\ uid[j] # nextId
  BY <1>1 DEF TriggersInv, HandlesInv, VarsInv, Handles
<1>6. nextId # None
  BY <1>1, TriggerAssumption
<1>7. \A k \in Handles : k # nextId => Own(k)' = Own(k) /\ \A i \in Own(k) : hw'[i] = hw[i]
  BY AddLeaves DEF Own
<1>8. HandlesInv'
  <2>1. ASSUME NEW i \in Trig, uid'[i] # None PROVE uid'[i] < nextId' /\ asked'[uid'[i]] \in Watches
    <3>1. CASE i \in used
      BY <1>1, <1>2, <3>1
    <3>2. CASE i \notin used
      <4>1. uid'[i] = uid[i] /\ uid[i] # None /\ asked[uid[i]] \in Watches
        BY <2>1, <3>2 DEF TriggersInv, HandlesInv
      <4>2. uid[i] \in Handles /\ uid[i] < nextId /\ uid[i] # nextId /\ uid[i] \in Nat
        BY <1>5, <4>1 DEF Handles
      <4>3. uid[i] < nextId + 1
        BY <1>1, <4>2
      <4> QED BY <1>2, <4>1, <4>2, <4>3
    <3> QED BY <3>1, <3>2
  <2>2. pending' # None => pending'.handle < nextId'
    BY <1>1 DEF TriggersInv, HandlesInv, VarsInv, PendingType, Handles
  <2> QED BY <2>1, <2>2 DEF HandlesInv
<1>9. HartInv'
  <2> SUFFICES ASSUME ~dropped
               PROVE  Ghosts' = {} /\ \A k \in Live' : Served(k)' \/ (fails' > 0 /\ \A i \in Own(k)' : hw'[i] = Off)
    BY DEF HartInv
  <2>1. Ghosts' = {}
    BY <1>6 DEF Ghosts, ArmedForNone
  <2>2. ASSUME NEW k \in Live'
        PROVE  Served(k)' \/ (fails' > 0 /\ \A i \in Own(k)' : hw'[i] = Off)
    <3>1. CASE k = nextId
      <4>1. used # {}
        BY <1>5, <3>1, <1>6 DEF Live
      <4> QED BY <1>1, <3>1, <4>1
    <3>2. CASE k # nextId
      <4>1. k \in Live /\ k \in Handles
        BY <1>5, <3>2 DEF Live
      <4>2. /\ Own(k)' = Own(k) /\ (\A i \in Own(k) : hw'[i] = hw[i])
            /\ asked'[k] = asked[k] /\ fails' = fails
        BY <1>2, <1>7, <3>2, <4>1
      <4>3. enumerated
        BY <4>1 DEF TriggersInv, HandlesInv, Live
      <4>4. Served(k) \/ (fails > 0 /\ \A i \in Own(k) : hw[i] = Off)
        BY <4>1, <4>3 DEF TriggersInv, HartInv
      <4>5. CASE Served(k)
        BY <1>1, <4>1, <4>2, <4>5, ServedKept
      <4>6. CASE fails > 0 /\ \A i \in Own(k) : hw[i] = Off
        <5>1. \A i \in Own(k)' : hw'[i] = Off
          BY <4>2, <4>6
        <5> QED BY <4>2, <4>6, <5>1
      <4> QED BY <4>4, <4>5, <4>6
    <3> QED BY <3>1, <3>2
  <2> QED BY <2>1, <2>2
<1>10. PendingInv'
  <2> SUFFICES ASSUME pending # None, ~dropped PROVE PendingInv'
    BY DEF PendingInv
  <2>1. /\ enumerated /\ timing = "before" /\ DOMAIN pending.saved = Own(pending.handle)
        /\ \A i \in Own(pending.handle) : pending.saved[i] = hw[i]
        /\ pending.handle \in Handles
    BY <1>1 DEF TriggersInv, PendingInv, VarsInv, PendingType
  <2>2. CASE pending.handle # nextId
    <3>1. Own(pending.handle)' = Own(pending.handle) /\ \A i \in Own(pending.handle) : hw'[i] = hw[i]
      <4>1. Own(pending.handle)' = {i \in Trig : uid'[i] = pending.handle}
        BY DEF Own
      <4> QED BY <2>1, <2>2, <4>1, AddLeaves
    <3> QED BY <2>1, <3>1 DEF PendingInv
  <2>3. pending.handle # nextId
    BY <1>1, <2>1 DEF TriggersInv, HandlesInv, Handles
  <2> QED BY <2>2, <2>3
<1>11. UnownedInv'
  BY <1>6 DEF UnownedInv
<1> QED BY <1>4, <1>8, <1>9, <1>10, <1>11 DEF TriggersInv

\* The styles an add tries, and the triggers one of them can start at.
LEMMA PlacesAre ==
  ASSUME NEW u \in [Trig -> Handles \cup {None}], NEW n, NEW style, NEW i \in Places(u, n, style)
  PROVE  /\ i \in Trig /\ u[i] = None
         /\ style = "pair" => i + 1 \in Trig /\ u[i + 1] = None
BY DEF Places, Free

\* The styles the search tries are the three there are.
LEMMA StylesAre ==
  ASSUME NEW w, NEW isExecute, NEW k \in DOMAIN Styles(w, isExecute)
  PROVE  k \in Nat /\ Styles(w, isExecute)[k] \in {"range", "pair", "eq"}
BY DEF Styles

\* A successful search is the addition of one watch over the triggers it used.
LEMMA AddIs ==
  ASSUME TriggersInv, NEW w \in Watches, NEW isExecute \in BOOLEAN, Add(w, isExecute)
  PROVE  \E used \in SUBSET Trig : Adds(used, w)
<1> DEFINE u      == Enumerated(count')[1]
           h      == Enumerated(count')[2]
           styles == Styles(w, isExecute)
           usable == {k \in DOMAIN styles : Places(u, count', styles[k]) # {}}
           style  == styles[Min(usable)]
           i      == Min(Places(u, count', style))
           used   == IF usable = {} THEN {} ELSE IF style = "pair" THEN {i, i + 1} ELSE {i}
<1>1. /\ ~running /\ nextId < MaxHandles /\ nextId' = nextId + 1 /\ enumerated' = TRUE
      /\ UNCHANGED <<pending, pc, running, cause, timing, dropped, fails>> /\ count' \in Counts
  BY DEF Add
<1>2. PICK probed \in SUBSET {j \in Trig \ used : Free(u, count', j)} :
        /\ hits' = hits \ (used \cup probed)
        /\ uid' = [j \in Trig |-> IF j \in used THEN nextId ELSE u[j]]
        /\ IF usable = {}
           THEN /\ hw' = [j \in Trig |-> IF j \in probed THEN Off ELSE h[j]]
                /\ UNCHANGED <<fallback, asked>>
           ELSE /\ hw' = Armed([j \in Trig |-> IF j \in probed THEN Off ELSE h[j]], style, i, w)
                /\ fallback' = (fallback \/ (style = "eq" /\ Cardinality(w) > 1))
                /\ asked' = [asked EXCEPT ![nextId] = w]
  BY DEF Add
<1>3. VarsInv /\ nextId \in Handles /\ nextId \in Nat /\ w \subseteq Nat /\ w # {}
  <2>1. nextId \in Nat /\ MaxHandles \in Nat
    BY TriggerAssumption DEF TriggersInv, VarsInv
  <2> QED BY <1>1, <2>1, TriggerAssumption DEF TriggersInv, Handles
\* After the enumeration: what was armed for a handle still is, and nothing else.
<1>4. /\ u = uid /\ h \in [Trig -> Configs]
      /\ \A j \in Trig : uid[j] # None => h[j] = hw[j]
      /\ ~dropped => \A j \in Trig :
           uid[j] = None => /\ h[j].style \in {"off", "program", "eq"}
                            /\ j < count' => ~DebugMode(h[j])
      /\ count' \in 0..NTrig
  <2>1. CASE enumerated
    <3>1. u = uid /\ h = hw /\ count' = count
      BY <1>1, <2>1 DEF Enumerated, Counts
    <3>2. ~dropped => \A j \in Trig :
            uid[j] = None => /\ hw[j].style \in {"off", "program", "eq"}
                             /\ j < count => ~DebugMode(hw[j])
      BY <2>1 DEF TriggersInv, HartInv, UnownedInv, Ghosts, ArmedForNone
    <3> QED BY <1>3, <3>1, <3>2 DEF VarsInv
  <2>2. CASE ~enumerated
    <3>1. u = [j \in Trig |-> None] /\ h = LeftOversOff(count') /\ count' \in 0..NTrig
      BY <1>1, <2>2 DEF Enumerated, Counts
    <3>2. \A j \in Trig : uid[j] = None
      BY <2>2 DEF TriggersInv, HandlesInv
    <3>3. u = uid
      BY <1>3, <3>1, <3>2 DEF VarsInv
    <3>4. h = [j \in Trig |-> IF j < count' /\ DebugMode(hw[j]) THEN Off ELSE hw[j]]
      BY <3>1 DEF LeftOversOff
    <3>5. h \in [Trig -> Configs] /\ \A j \in Trig : j < count' => ~DebugMode(h[j])
      BY <1>3, <3>4, OffIs DEF VarsInv
    <3>6. ~dropped => \A j \in Trig : h[j].style \in {"off", "program", "eq"}
      BY <3>2, <3>4, OffIs DEF TriggersInv, UnownedInv
    <3> QED BY <3>1, <3>2, <3>3, <3>5, <3>6
  <2> QED BY <2>1, <2>2
<1>5. ASSUME usable # {}
      PROVE  /\ style \in {"range", "pair", "eq"} /\ i \in Trig /\ uid[i] = None
             /\ style = "pair" => i + 1 \in Trig /\ uid[i + 1] = None
  <2>1. usable \subseteq Nat
    BY StylesAre
  <2>2. Min(usable) \in usable
    BY <1>5, <2>1, MinIs
  <2>3. style \in {"range", "pair", "eq"} /\ Places(u, count', style) # {}
    BY <2>2, StylesAre
  <2>4. Places(u, count', style) \subseteq Nat
    BY TriggerAssumption DEF Places, Trig
  <2>5. i \in Places(u, count', style)
    BY <2>3, <2>4, MinIs
  <2>6. u = uid /\ uid \in [Trig -> Handles \cup {None}]
    BY <1>3, <1>4 DEF VarsInv
  <2> HIDE DEF u, i, style
  <2>7. i \in Trig /\ u[i] = None /\ (style = "pair" => i + 1 \in Trig /\ u[i + 1] = None)
    BY <2>5, <2>6, PlacesAre
  <2> QED BY <2>3, <2>6, <2>7
<1> HIDE DEF u, h, usable, style, i, styles
<1>6. used \subseteq Trig /\ \A j \in used : uid[j] = None
  BY <1>5
<1> DEFINE clear == [j \in Trig |-> IF j \in probed THEN Off ELSE h[j]]
<1>7. /\ clear \in [Trig -> Configs]
      /\ \A j \in Trig : uid[j] # None => clear[j] = hw[j]
      /\ ~dropped => \A j \in Trig :
           uid[j] = None => /\ clear[j].style \in {"off", "program", "eq"}
                            /\ j < count' => ~DebugMode(clear[j])
  <2>1. \A j \in probed : uid[j] = None
    BY <1>2, <1>4 DEF Free
  <2> QED BY <1>4, <2>1, OffIs
<1>8. uid' = [j \in Trig |-> IF j \in used THEN nextId ELSE uid[j]] /\ hits' \subseteq hits \ used
  BY <1>2, <1>4
<1>9. fallback \in BOOLEAN
  BY <1>3 DEF VarsInv
<1>10. CASE usable = {}
  <2>1. used = {} /\ hw' = clear /\ fallback' = fallback /\ asked' = asked
    BY <1>2, <1>10
  <2> HIDE DEF clear, used
  <2>2. Adds(used, w)
    BY <1>1, <1>4, <1>6, <1>7, <1>8, <1>9, <2>1 DEF Adds
  <2> QED BY <1>6, <2>2
<1>11. CASE usable # {}
  <2>1. /\ hw' = Armed(clear, style, i, w)
        /\ fallback' = (fallback \/ (style = "eq" /\ Cardinality(w) > 1))
        /\ asked' = [asked EXCEPT ![nextId] = w]
        /\ used = IF style = "pair" THEN {i, i + 1} ELSE {i}
    BY <1>2, <1>11
  <2>2. /\ style \in {"range", "pair", "eq"} /\ i \in Trig /\ i \in Nat /\ i # i + 1
        /\ style = "pair" => i + 1 \in Trig
    BY <1>5, <1>11, TriggerAssumption DEF Trig
  <2> HIDE DEF clear, used
  <2>3. /\ hw' \in [Trig -> Configs] /\ \A j \in Trig \ used : hw'[j] = clear[j]
        /\ style = "pair" => hw'[i] = Config("first", w) /\ hw'[i + 1] = Config("second", w)
        /\ style = "eq" => hw'[i] = Config("eq", {Min(w)})
        /\ style = "range" => hw'[i] = Config("range", w)
    <3>1. /\ Config("first", w) \in Configs /\ Config("second", w) \in Configs
          /\ Config("eq", {Min(w)}) \in Configs /\ Config("range", w) \in Configs
      BY <1>3, MinIs DEF Config, Configs
    <3>2. CASE style = "pair"
      <4>1. hw' = [clear EXCEPT ![i] = Config("first", w), ![i + 1] = Config("second", w)]
        BY <2>1, <3>2 DEF Armed
      <4> QED BY <1>7, <2>1, <2>2, <3>1, <3>2, <4>1
    <3>3. CASE style = "eq"
      <4>1. hw' = [clear EXCEPT ![i] = Config("eq", {Min(w)})]
        BY <2>1, <3>3 DEF Armed
      <4> QED BY <1>7, <2>1, <2>2, <3>1, <3>3, <4>1
    <3>4. CASE style = "range"
      <4>1. hw' = [clear EXCEPT ![i] = Config("range", w)]
        BY <2>1, <3>4 DEF Armed
      <4> QED BY <1>7, <2>1, <2>2, <3>1, <3>4, <4>1
    <3> QED BY <2>2, <3>2, <3>3, <3>4
  <2>4. (\A j \in Trig : uid[j] # None => hw'[j] = hw[j])
        /\ (~dropped => \A j \in Trig \ used :
              uid[j] = None => /\ hw'[j].style \in {"off", "program", "eq"}
                               /\ j < count' => ~DebugMode(hw'[j]))
    BY <1>6, <1>7, <2>3
  <2>5. \A k \in Handles : k = nextId => Served(k)'
    <3>1. ASSUME NEW k \in Handles, k = nextId PROVE Served(k)'
      <4>1. \A j \in Trig : uid[j] # nextId
        BY <1>3, TriggerAssumption DEF TriggersInv, HandlesInv, Handles, VarsInv
      <4>2. Own(k)' = used
        BY <1>6, <1>8, <3>1, <4>1 DEF Own
      <4>3. asked'[k] = w
        BY <1>3, <2>1, <3>1 DEF VarsInv
      <4>4. CASE style = "pair"
        BY <2>1, <2>2, <2>3, <4>2, <4>3, <4>4 DEF Served
      <4>5. CASE style = "eq"
        <5>1. Cardinality(w) > 1 => fallback'
          BY <2>1, <4>5
        <5> QED BY <2>1, <2>2, <2>3, <4>2, <4>3, <4>5, <5>1 DEF Served
      <4>6. CASE style = "range"
        BY <2>1, <2>2, <2>3, <4>2, <4>3, <4>6 DEF Served
      <4> QED BY <2>2, <4>4, <4>5, <4>6
    <3> QED BY <3>1
  <2>6. fallback' \in BOOLEAN /\ (fallback => fallback')
    BY <1>9, <2>1
  <2>7. Adds(used, w)
    BY <1>1, <1>4, <1>6, <1>8, <2>1, <2>3, <2>4, <2>5, <2>6 DEF Adds
  <2> QED BY <1>6, <2>7
<1> QED BY <1>10, <1>11

\* So does the whole search for triggers, whichever style it ends with.
LEMMA AddTriggers ==
  ASSUME TriggersInv, NEW w \in Watches, NEW isExecute \in BOOLEAN, Add(w, isExecute)
  PROVE  TriggersInv'
BY AddIs, AddKeeps

\* A stuttering step keeps the invariant.
LEMMA StutterTriggers == ASSUME TriggersInv, UNCHANGED vars PROVE TriggersInv'
<1>1. /\ UNCHANGED <<uid, enumerated, count, pending, nextId, fallback>>
      /\ UNCHANGED <<hw, hits, pc, running, timing, cause, asked, dropped, fails>>
  BY DEF vars, host, hart
<1>2. VarsInv'
  BY <1>1 DEF TriggersInv, VarsInv, PendingType
<1>3. HandlesInv' /\ HartInv' /\ UnownedInv' /\ PendingInv'
  BY <1>1, SameHandles DEF TriggersInv, PendingInv
<1> QED BY <1>2, <1>3 DEF TriggersInv

\* Every step keeps handles and hart in agreement: one lemma per action.
LEMMA NextTriggers == TriggersInv /\ [Next]_vars => TriggersInv'
<1> SUFFICES ASSUME TriggersInv, [Next]_vars PROVE TriggersInv'
  OBVIOUS
<1>1. CASE Run
  BY <1>1, RunTriggers
<1>2. CASE Fire
  BY <1>2, FireTriggers
<1>3. CASE \E w \in Watches : Add(w, FALSE) \/ (Cardinality(w) = 1 /\ Add(w, TRUE))
  BY <1>3, AddTriggers
<1>4. CASE EnumerationFails
  BY <1>4, EnumerationFailsTriggers
<1>5. CASE \E handle \in 0..MaxHandles - 1 : Remove(handle)
  BY <1>5, RemoveTriggers DEF Handles
<1>6. CASE Halt
  BY <1>6, HaltTriggers
<1>7. CASE Step
  BY <1>7, StepTriggers
<1>8. CASE ResumeAtOnce
  BY <1>8, ResumeAtOnceTriggers
<1>9. CASE ResumeOver
  BY <1>9, ResumeOverTriggers
<1>10. CASE ResumeFails
  BY <1>10, ResumeFailsTriggers
<1>11. CASE UNCHANGED vars
  BY <1>11, StutterTriggers
<1> QED BY <1>1, <1>2, <1>3, <1>4, <1>5, <1>6, <1>7, <1>8, <1>9, <1>10, <1>11 DEF Next

\* Handles and hart agree in every reachable state.
LEMMA TriggersInvariant == Spec => []TriggersInv
BY InitTriggers, NextTriggers, PTL DEF Spec

-----------------------------------------------------------------------------
(***************************************************************************)
(* The hit bits                                                            *)
(***************************************************************************)
\* A hit of a handle needs the enumeration, and what is pending a halted hart.
LEMMA HitsNeed ==
  ASSUME TriggersInv
  PROVE  /\ VarsInv /\ HartInv /\ UnownedInv /\ hits \subseteq Trig
         /\ \A i \in Trig : uid[i] # None => enumerated /\ uid[i] \in Handles
         /\ pending # None => enumerated /\ pending.handle \in Handles /\ pending.handle # None
         /\ pending # None /\ ~dropped => ~running
BY TriggerAssumption DEF TriggersInv, HandlesInv, PendingInv, VarsInv, PendingType, Handles

\* Where the hart is and what the handles have armed stays, and bits are only cleared.
LEMMA SameHits ==
  ASSUME TriggersInv, HitsInv, ~dropped, timing = "before", hits' \subseteq hits, pc' = pc,
         \A i \in hits' : uid'[i] # None => uid'[i] = uid[i],
         \A j \in Trig : uid'[j] = uid[j] /\ uid[j] # None => \A i \in Own(uid[j]) : hw'[i] = hw[i]
  PROVE  \A i \in hits' : uid'[i] # None => i \in Firing(hw', Touches[pc'])
<1> SUFFICES ASSUME NEW i \in hits', uid'[i] # None PROVE i \in Firing(hw', Touches[pc])
  OBVIOUS
<1>1. i \in Trig /\ uid[i] # None /\ enumerated /\ \A j \in Own(uid[i]) : hw'[j] = hw[j]
  BY HitsNeed
<1>2. i \in Firing(hw, Touches[pc])
  BY <1>1 DEF HitsInv
<1> QED BY <1>1, <1>2, HitsNeed, FiringKept

\* Adding a watch keeps the hit bits those of the instruction the hart is at.
LEMMA AddHits ==
  ASSUME TriggersInv, HitsInv, NEW used \in SUBSET Trig, NEW w \in Watches, Adds(used, w)
  PROVE  HitsInv'
<1> SUFFICES ASSUME ~dropped, timing = "before"
             PROVE  /\ \A i \in hits' : uid'[i] # None => i \in Firing(hw', Touches[pc'])
                    /\ pending # None =>
                         /\ pending.marked = {}
                         /\ Own(pending.handle)' \cap Firing(hw', Touches[pc']) # {}
  BY DEF HitsInv, Adds
<1>1. \A i \in hits' : uid'[i] # None => i \in Firing(hw', Touches[pc'])
  <2>1. hits' \subseteq hits /\ pc' = pc
    BY DEF Adds
  <2>2. \A i \in hits' : uid'[i] = uid[i]
    BY HitsNeed DEF Adds
  <2>3. \A j \in Trig : uid[j] # None => \A i \in Own(uid[j]) : hw'[i] = hw[i]
    BY DEF Adds, Own
  <2> QED BY <2>1, <2>2, <2>3, SameHits
<1>2. ASSUME pending # None
      PROVE  pending.marked = {} /\ Own(pending.handle)' \cap Firing(hw', Touches[pc']) # {}
  <2>1. PICK j \in Own(pending.handle) : j \in Firing(hw, Touches[pc])
    BY <1>2 DEF HitsInv
  <2>2. /\ pending.handle \in Handles /\ pending.handle # nextId /\ enumerated /\ pending.marked = {}
        /\ pending.handle # None
    BY <1>2, HitsNeed DEF HitsInv, TriggersInv, HandlesInv, VarsInv, Handles
  <2>3. {i \in Trig : uid'[i] = pending.handle} = Own(pending.handle)
        /\ \A i \in Own(pending.handle) : hw'[i] = hw[i]
    BY <2>2, AddLeaves
  <2>4. j \in Trig /\ uid[j] = pending.handle
    BY <2>1 DEF Own
  <2>5. j \in Firing(hw', Touches[pc])
    BY <2>1, <2>2, <2>3, <2>4, HitsNeed, FiringKept
  <2>6. Own(pending.handle)' = Own(pending.handle) /\ pc' = pc
    BY <2>3 DEF Own, Adds
  <2> QED BY <2>1, <2>2, <2>5, <2>6
<1> QED BY <1>1, <1>2

\* So does removing one.
LEMMA RemoveHits == ASSUME TriggersInv, HitsInv, NEW k \in Handles, Remove(k) PROVE HitsInv'
<1>1. /\ enumerated /\ hits' = {i \in hits : uid[i] # k}
      /\ uid' = [i \in Trig |-> IF uid[i] = k THEN None ELSE uid[i]]
      /\ hw' = [i \in Trig |-> IF uid[i] = k THEN Off ELSE hw[i]]
      /\ dropped' = (dropped \/ (pending # None /\ pending.handle = k))
      /\ UNCHANGED <<pending, pc, timing>>
  BY DEF Remove
<1> SUFFICES ASSUME ~dropped', timing = "before"
             PROVE  /\ \A i \in hits' : uid'[i] # None => i \in Firing(hw', Touches[pc'])
                    /\ pending # None =>
                         /\ pending.marked = {}
                         /\ Own(pending.handle)' \cap Firing(hw', Touches[pc']) # {}
  BY <1>1 DEF HitsInv
<1>2. ~dropped /\ (pending # None => pending.handle # k)
  BY <1>1
<1>3. \A i \in hits' : uid'[i] # None => i \in Firing(hw', Touches[pc'])
  <2>1. hits' \subseteq hits /\ pc' = pc /\ \A i \in hits' : uid'[i] = uid[i]
    BY <1>1, HitsNeed
  <2>2. \A j \in Trig : uid'[j] = uid[j] /\ uid[j] # None => \A i \in Own(uid[j]) : hw'[i] = hw[i]
    BY <1>1, TriggerAssumption DEF Own, Handles
  <2> QED BY <1>2, <2>1, <2>2, SameHits
<1>4. ASSUME pending # None
      PROVE  pending.marked = {} /\ Own(pending.handle)' \cap Firing(hw', Touches[pc']) # {}
  <2>1. PICK j \in Own(pending.handle) : j \in Firing(hw, Touches[pc])
    BY <1>2, <1>4 DEF HitsInv
  <2>2. j \in Trig /\ uid[j] = pending.handle /\ pending.handle # None /\ pending.handle # k
    BY <1>2, <1>4, <2>1, HitsNeed DEF Own
  <2>3. \A i \in Own(uid[j]) : hw'[i] = hw[i]
    BY <1>1, <2>2 DEF Own
  <2>4. j \in Firing(hw', Touches[pc])
    BY <1>1, <1>2, <2>1, <2>2, <2>3, HitsNeed, FiringKept
  <2>5. uid'[j] = pending'.handle
    BY <1>1, <2>2
  <2>6. j \in Own(pending.handle)'
    BY <2>2, <2>5 DEF Own
  <2> QED BY <1>1, <1>2, <1>4, <2>4, <2>6 DEF HitsInv
<1> QED BY <1>3, <1>4

\* And a halt.
LEMMA HaltHits == ASSUME TriggersInv, HitsInv, Halt PROVE HitsInv'
<1>1. /\ Noted(cause')
      /\ UNCHANGED <<uid, enumerated, count, nextId, fallback, hw, pc, timing, asked, dropped, fails>>
  BY DEF Halt
<1> SUFFICES ASSUME ~dropped, timing = "before" PROVE HitsInv'
  BY <1>1 DEF HitsInv
<1>2. CASE UNCHANGED <<hits, pending>>
  BY <1>1, <1>2 DEF HitsInv, Own
<1>3. CASE \E m \in hits :
             /\ uid[m] # None /\ hits' = hits \ {m}
             /\ pending' = [handle |-> uid[m],
                            saved  |-> [i \in Own(uid[m]) |-> hw[i]],
                            marked |-> {j \in hits' : uid[j] = uid[m]}]
  <2>1. PICK m \in hits :
             /\ uid[m] # None /\ hits' = hits \ {m}
             /\ pending' = [handle |-> uid[m],
                            saved  |-> [i \in Own(uid[m]) |-> hw[i]],
                            marked |-> {j \in hits' : uid[j] = uid[m]}]
    BY <1>3
  <2>2. pending'.handle = uid[m] /\ pending'.marked = {j \in hits' : uid[j] = uid[m]}
    BY <2>1
  <2>3. m \in Trig /\ enumerated /\ m \in Firing(hw, Touches[pc])
    BY <2>1, HitsNeed DEF HitsInv
  <2>4. pending'.marked = {}
    <3>1. ASSUME NEW j \in hits', uid[j] = uid[m] PROVE FALSE
      <4>1. j \in Firing(hw, Touches[pc]) /\ j # m
        BY <2>1, <3>1 DEF HitsInv
      <4> QED BY <2>1, <2>3, <3>1, <4>1, HitsNeed, OneFires
    <3> QED BY <2>2, <3>1
  <2>5. m \in Own(pending.handle)'
    BY <1>1, <2>2, <2>3 DEF Own
  <2>6. \A i \in hits' : uid'[i] # None => i \in Firing(hw, Touches[pc])'
    BY <1>1, <2>1 DEF HitsInv
  <2>7. m \in Firing(hw, Touches[pc])'
    BY <1>1, <2>3
  <2> QED BY <2>4, <2>5, <2>6, <2>7 DEF HitsInv
<1> QED BY <1>1, <1>2, <1>3, NotedIs, HitsNeed

\* A single step leaves the hit bits of the instruction it comes to.
LEMMA StepHits == ASSUME MarksChain = FALSE, TriggersInv, HitsInv, Step PROVE HitsInv'
<1> DEFINE F == Firing(hw, Touches[pc])
<1>1. /\ ~running /\ UNCHANGED <<uid, pending, hw, timing, dropped>>
      /\ pc' = IF F # {} /\ timing = "before" THEN pc ELSE Next1(pc)
      /\ \E marks \in Marks(hw, F) : hits' = hits \cup marks
  BY DEF Step, StepWith, host
<1>2. hits' = hits \cup F
  BY <1>1, MarksAre
<1> SUFFICES ASSUME ~dropped, timing = "before" PROVE HitsInv'
  BY <1>1 DEF HitsInv
<1>3. /\ \A i \in hits : uid[i] # None => i \in F
      /\ pending # None => pending.marked = {} /\ Own(pending.handle) \cap F # {}
  BY DEF HitsInv
<1>4. Own(pending.handle)' = Own(pending.handle)
  BY <1>1 DEF Own
<1>5. CASE F # {}
  BY <1>1, <1>2, <1>3, <1>4, <1>5 DEF HitsInv
<1>6. CASE F = {}
  <2>1. pending = None /\ \A i \in hits' : uid[i] = None
    BY <1>2, <1>3, <1>6
  <2> QED BY <1>1, <2>1 DEF HitsInv
<1> QED BY <1>5, <1>6

\* So does a resume that steps first.
LEMMA ResumeOverHits == ASSUME MarksChain = FALSE, TriggersInv, HitsInv, ResumeOver PROVE HitsInv'
<1> DEFINE F == Firing(hw, Touches[pc])  own == Own(pending.handle)
<1>1. /\ pending # None /\ pending' = None /\ hw' = Rearmed
      /\ UNCHANGED <<uid, enumerated, count, nextId, fallback, timing, asked, dropped, fails>>
  BY DEF ResumeOver
<1> SUFFICES ASSUME ~dropped, timing = "before" PROVE HitsInv'
  BY <1>1 DEF HitsInv
<1>2. enumerated /\ pending.handle \in Handles /\ DOMAIN pending.saved = own /\ pending.marked = {}
  BY <1>1, HitsNeed DEF TriggersInv, PendingInv, HitsInv
<1>3. hw' = hw /\ Firing(Disarmed, Touches[pc]) = F \ own
  BY <1>1, <1>2, SavedIs, HitsNeed, FiringWithout
<1>4. pc' = IF F \ own # {} THEN pc ELSE Next1(pc)
  BY <1>3 DEF ResumeOver
<1>5. hits' = (hits \cup (F \ own)) \ own
  <2>1. PICK marks \in Marks(Disarmed, Firing(Disarmed, Touches[pc])) :
          hits' = ((hits \cup marks) \ DOMAIN pending.saved) \cup pending.marked
    BY DEF ResumeOver
  <2>2. marks = F \ own
    BY <1>3, <2>1, MarksAre
  <2> QED BY <1>2, <2>1, <2>2
<1>6. \A i \in hits : uid[i] # None => i \in F
  BY DEF HitsInv
<1>7. CASE F \ own # {}
  BY <1>1, <1>3, <1>4, <1>5, <1>6, <1>7 DEF HitsInv
<1>8. CASE F \ own = {}
  <2>1. \A i \in hits' : uid'[i] = None
    BY <1>1, <1>5, <1>6, <1>8
  <2> QED BY <1>1, <2>1 DEF HitsInv
<1> QED BY <1>7, <1>8

\* And one that fails.
LEMMA ResumeFailsHits == ASSUME TriggersInv, HitsInv, ResumeFails PROVE HitsInv'
<1>1. /\ pending # None /\ pending' = None /\ hw' = Disarmed /\ hits' = hits \ DOMAIN pending.saved
      /\ UNCHANGED <<uid, timing, pc, dropped>>
  BY DEF ResumeFails
<1> SUFFICES ASSUME ~dropped, timing = "before" PROVE HitsInv'
  BY <1>1 DEF HitsInv
<1>2. /\ enumerated /\ pending.handle \in Handles /\ DOMAIN pending.saved = Own(pending.handle)
  BY <1>1, HitsNeed DEF TriggersInv, PendingInv
<1>3. Firing(hw', Touches[pc]) = Firing(hw, Touches[pc]) \ Own(pending.handle)
  BY <1>1, <1>2, SavedIs, HitsNeed, FiringWithout
<1>4. \A i \in hits' : uid'[i] # None => i \in Firing(hw', Touches[pc'])
  BY <1>1, <1>2, <1>3 DEF HitsInv
<1> QED BY <1>1, <1>4 DEF HitsInv

\* Every step keeps the hit bits those of the instruction the hart is at.
LEMMA NextHits == ASSUME MarksChain = FALSE, TriggersInv, HitsInv, [Next]_vars PROVE HitsInv'
<1>1. CASE Run
  <2>1. /\ running /\ Firing(hw, Touches[pc]) = {}
        /\ UNCHANGED <<uid, pending, hits, timing, dropped, hw>>
    BY <1>1 DEF Run, host
  <2>2. ~dropped /\ timing = "before" => pending = None /\ \A i \in hits : uid[i] = None
    BY <2>1, HitsNeed DEF HitsInv
  <2> QED BY <2>1, <2>2 DEF HitsInv
<1>2. CASE Fire
  <2>1. /\ running /\ UNCHANGED <<uid, pending, timing, dropped, hw>>
        /\ timing = "before" => pc' = pc
        /\ \E marks \in Marks(hw, Firing(hw, Touches[pc])) : hits' = hits \cup marks
    BY <1>2 DEF Fire, host
  <2>2. hits' = hits \cup Firing(hw, Touches[pc])
    BY <2>1, MarksAre
  <2>3. ~dropped => pending = None
    BY <2>1, HitsNeed
  <2> QED BY <2>1, <2>2, <2>3 DEF HitsInv
<1>3. CASE \E w \in Watches : Add(w, FALSE) \/ (Cardinality(w) = 1 /\ Add(w, TRUE))
  BY <1>3, AddIs, AddHits
<1>4. CASE EnumerationFails
  <2>1. ~enumerated /\ UNCHANGED <<uid, pending, hits>>
    BY <1>4 DEF EnumerationFails
  <2>2. pending = None /\ \A i \in hits : uid[i] = None
    BY <2>1, HitsNeed
  <2> QED BY <2>1, <2>2 DEF HitsInv
<1>5. CASE \E handle \in 0..MaxHandles - 1 : Remove(handle)
  BY <1>5, RemoveHits DEF Handles
<1>6. CASE Halt
  BY <1>6, HaltHits
<1>7. CASE Step
  BY <1>7, StepHits
<1>8. CASE ResumeAtOnce
  BY <1>8 DEF ResumeAtOnce, HitsInv, host
<1>9. CASE ResumeOver
  BY <1>9, ResumeOverHits
<1>10. CASE ResumeFails
  BY <1>10, ResumeFailsHits
<1>11. CASE UNCHANGED vars
  BY <1>11 DEF HitsInv, Own, vars, host, hart
<1> QED BY <1>1, <1>2, <1>3, <1>4, <1>5, <1>6, <1>7, <1>8, <1>9, <1>10, <1>11 DEF Next
-----------------------------------------------------------------------------
\* The host's tables and the hart's triggers keep their types, the handles theirs.
THEOREM TriggersTypeCorrect == Spec => []TypeOK
<1>1. TriggersInv => TypeOK
  BY DEF TriggersInv, VarsInv, PendingType, TypeOK, Handles, Configs
<1> QED BY <1>1, TriggersInvariant, PTL

\* For every number of triggers, whatever styles each accepts, whatever an earlier
\* session left armed on an address and wherever a failed access cut the enumeration
\* short: once the triggers are enumerated, those of the table are armed as the handles
\* given out need them, and none of them for nobody.
THEOREM HandlesMatch == Spec => []HandlesMatchHart
<1>1. TriggersInv => HandlesMatchHart
  <2> SUFFICES ASSUME TriggersInv, enumerated, ~dropped, fails = 0
               PROVE  Ghosts = {} /\ \A handle \in Live : Served(handle)
    BY DEF HandlesMatchHart
  <2> QED BY DEF TriggersInv, HartInv
<1> QED BY <1>1, TriggersInvariant, PTL

\* A handle that watches what this instruction touches has a trigger that fires on it.
LEMMA HandleFires ==
  ASSUME TriggersInv, enumerated, ~dropped, fails = 0, ~fallback,
         NEW handle \in Live, asked[handle] \cap Touches[pc] # {}
  PROVE  \E j \in Own(handle) : j \in Firing(hw, Touches[pc])
<1>1. Served(handle)
  BY DEF TriggersInv, HartInv
<1> QED BY <1>1, Fires DEF TriggersInv

\* Stepping over a hit gets past the instruction only if all the triggers that fire on
\* it are of the handle that is stepped over.
LEMMA ResumeOverMoves ==
  ASSUME TriggersInv, ResumeOver, ~dropped
  PROVE  LET others == Firing(hw, Touches[pc]) \ Own(pending.handle)
         IN  pc' = IF others # {} THEN pc ELSE Next1(pc)
<1>1. pending # None
  BY DEF ResumeOver
<1>2. enumerated /\ VarsInv /\ HartInv /\ UnownedInv
  BY <1>1 DEF TriggersInv, PendingInv
<1>3. Firing(Disarmed, Touches[pc]) = Firing(hw, Touches[pc]) \ Own(pending.handle)
  BY <1>1, <1>2, SavedIs, FiringWithout
<1> QED BY <1>3 DEF ResumeOver

\* For every program and every watch: no instruction that touches what a handle
\* watches is executed without being reported, other than by the step over its hit.
THEOREM NoMissed == Spec => NoMissedHit
<1> DEFINE Reported ==
      pc' # pc /\ enumerated /\ ~dropped /\ fails = 0 /\ ~fallback =>
        \A handle \in Live :
          \/ asked[handle] \cap Touches[pc] = {}
          \/ pending # None /\ pending.handle = handle
          \/ cause' = "trigger"
<1>1. TriggersInv /\ [Next]_vars => [Reported]_vars
  <2> SUFFICES ASSUME TriggersInv, Next, pc' # pc, enumerated, ~dropped, fails = 0, ~fallback,
                      NEW handle \in Live, asked[handle] \cap Touches[pc] # {}
               PROVE  (pending # None /\ pending.handle = handle) \/ cause' = "trigger"
    OBVIOUS
  <2>1. PICK j \in Own(handle) : j \in Firing(hw, Touches[pc])
    BY HandleFires
  <2>2. CASE Run
    BY <2>1, <2>2 DEF Run
  <2>3. CASE Fire
    BY <2>3 DEF Fire
  <2>4. CASE Step
    BY <2>1, <2>4 DEF Step, StepWith
  <2>5. CASE ResumeOver
    <3>1. Firing(hw, Touches[pc]) \subseteq Own(pending.handle) /\ pending # None
      BY <2>5, ResumeOverMoves DEF ResumeOver
    <3> QED BY <2>1, <3>1 DEF Own
  <2>6. CASE \E w \in Watches : Add(w, FALSE) \/ (Cardinality(w) = 1 /\ Add(w, TRUE))
    BY <2>6 DEF Add
  <2>7. CASE EnumerationFails
    BY <2>7 DEF EnumerationFails
  <2>8. CASE \E k \in 0..MaxHandles - 1 : Remove(k)
    BY <2>8 DEF Remove
  <2>9. CASE Halt \/ ResumeAtOnce \/ ResumeFails
    BY <2>9 DEF Halt, ResumeAtOnce, ResumeFails
  <2> QED BY <2>2, <2>3, <2>4, <2>5, <2>6, <2>7, <2>8, <2>9 DEF Next
<1> QED BY <1>1, TriggersInvariant, PTL DEF Spec, NoMissedHit

\* They are in every reachable state.
LEMMA HitsInvariant == ASSUME MarksChain = FALSE PROVE Spec => [](TriggersInv /\ HitsInv)
<1>1. TriggersInv /\ HitsInv /\ [Next]_vars => (TriggersInv /\ HitsInv)'
  BY NextTriggers, NextHits
<1> QED BY <1>1, InitTriggers, PTL DEF Spec

\* For every program of two instructions or more, on a hart that sets the hit bit of
\* the trigger that fired and no other: a resume after a reported hit gets past the
\* instruction, when the triggers that watch it are all of one handle.
THEOREM ResumeLeaves ==
  ASSUME MarksChain = FALSE, Cardinality(Pc) > 1
  PROVE  Spec => ResumeLeavesHit
<1> DEFINE F == Firing(hw, Touches[pc])
           Leaves == ResumeOver /\ ~dropped /\ Cardinality({uid[i] : i \in F}) <= 1 => pc' # pc
<1>1. TriggersInv /\ HitsInv /\ [Next]_vars => [Leaves]_vars
  <2> SUFFICES ASSUME TriggersInv, HitsInv, ResumeOver, ~dropped,
                      Cardinality({uid[i] : i \in F}) <= 1
               PROVE  pc' # pc
    BY DEF F
  <2>1. pending # None /\ timing = "before" /\ pc \in Pc
    BY DEF ResumeOver, TriggersInv, PendingInv, VarsInv
  <2>2. PICK j \in Own(pending.handle) : j \in F
    BY <2>1 DEF HitsInv
  <2> DEFINE H == {uid[i] : i \in F}
  <2>3. IsFiniteSet(H)
    <3>1. H \subseteq Handles \cup {None}
      BY DEF TriggersInv, VarsInv, Firing
    <3>2. IsFiniteSet(Handles)
      <4>1. MaxHandles - 1 \in Int /\ 0 \in Int
        BY TriggerAssumption
      <4> QED BY <4>1, FS_Interval DEF Handles
    <3>3. IsFiniteSet(Handles \cup {None})
      BY <3>2, FS_AddElement
    <3> QED BY <3>1, <3>3, FS_Subset
  <2>4. \A i \in F : uid[i] = pending.handle
    <3>1. pending.handle \in H
      BY <2>2 DEF Own
    <3>2. \A i \in F : uid[i] \in H
      OBVIOUS
    <3> HIDE DEF H
    <3>3. Cardinality(H) \in Nat /\ Cardinality(H) # 0
      BY <2>3, <3>1, FS_CardinalityType, FS_EmptySet
    <3>4. Cardinality(H) = 1
      BY <3>3 DEF H
    <3>5. \E x : H = {x}
      BY <2>3, <3>4, FS_Singleton
    <3> QED BY <3>1, <3>2, <3>5
  <2>5. F \ Own(pending.handle) = {}
    BY <2>4 DEF Own, Firing
  <2>6. pc' = Next1(pc)
    BY <2>5, ResumeOverMoves
  <2> QED BY <2>1, <2>6, NextInstruction
<1> QED BY <1>1, HitsInvariant, PTL DEF Spec, ResumeLeavesHit
=============================================================================
