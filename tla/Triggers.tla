------------------------------- MODULE Triggers -------------------------------
(***************************************************************************)
(* Hardware watchpoints and breakpoints of espjtag/debug.py: add, remove,  *)
(* halt with the scan for the trigger that hit, resume with the step over  *)
(* that trigger, and step.  The hart runs between the calls; while it is   *)
(* halted a call is one action, its register accesses included.  Addresses *)
(* are numbers, an instruction is the set of addresses it touches, its own *)
(* one included when a breakpoint may sit there.                           *)
(***************************************************************************)
EXTENDS Naturals, FiniteSets, FiniteSetsExt

CONSTANTS
  NTrig,       \* triggers of the hart
  Accepts,     \* match styles each trigger accepts: "range", "first", "second", "eq"
  Watches,     \* bound: address sets to watch; a breakpoint watches one address
  Napot,       \* the address sets that are aligned powers of two
  Touches,     \* the program: <<addresses touched>> per instruction, from 0
  MarksChain,  \* whether a chain that fires may mark its first trigger, too
  MaxHandles,  \* bound: watchpoints and breakpoints added
  MaxFails,    \* bound: steps after which the hart does not halt again
  None

Trig == 0..NTrig - 1
Pc == DOMAIN Touches

ASSUME TriggerAssumption ==
  /\ NTrig \in Nat \ {0} /\ MaxHandles \in Nat /\ MaxFails \in Nat
  /\ Accepts \in [Trig -> SUBSET {"range", "first", "second", "eq"}]
  /\ MarksChain \in BOOLEAN
  /\ \A w \in Watches : w # {} /\ w \subseteq Nat /\ IsFiniteSet(w)
  /\ IsFiniteSet(Pc) /\ Pc # {} /\ Pc = 0..Cardinality(Pc) - 1
  /\ \A p \in Pc : Touches[p] \subseteq Nat
  /\ None \notin Nat

VARIABLES
  uid,         \* self.trigger_unique_id: the handle each trigger serves, or None
  enumerated,  \* self.triggers_enumerated
  count,       \* self.trigger_count: the triggers 0..count - 1 are in the table
  pending,     \* self._pending_step_over: [handle, saved] or None
  nextId,      \* self._next_unique_id
  fallback,    \* self.range_trigger_fallback_encountered
  hw,          \* hart: tdata1/tdata2 of each trigger, or Off
  hits,        \* hart: triggers whose hit bit is set
  pc, running, \* hart: the next instruction, and whether it runs
  timing,      \* hart: its triggers fire "before" or "after" the instruction commits
  cause,       \* hart: dcsr.cause: "none", "haltreq", "step" or "trigger"
  asked,       \* history: what each handle was to watch
  dropped,     \* history: a handle was removed while its hit was pending
  fails        \* history: steps that failed

host == <<uid, enumerated, count, pending, nextId, fallback>>
hart == <<hw, hits, pc, running, timing, cause>>
vars == <<host, hart, asked, dropped, fails>>

Off == [style |-> "off", watch |-> {}]
Config(style, w) == [style |-> style, watch |-> w]
Next1(p) == IF p + 1 = Cardinality(Pc) THEN 0 ELSE p + 1

(***************************************************************************)
(* The hart                                                                *)
(***************************************************************************)
\* Triggers that fire on these addresses: a chain takes its second's action, and a
\* second whose first is gone compares against one bound only.
Firing(h, touched) ==
  {i \in Trig :
     \/ h[i].style \in {"range", "eq"} /\ h[i].watch \cap touched # {}
     \/ /\ h[i].style = "second"
        /\ IF i > 0 /\ h[i - 1].style = "first"
           THEN h[i].watch \cap touched # {} ELSE touched # {}}

\* The hit bits these triggers leave.
Marks(h, firing) ==
  {firing} \cup IF MarksChain
                THEN {firing \cup {i \in Trig : h[i].style = "first" /\ i + 1 \in firing}}
                ELSE {}

Run ==
  /\ running
  /\ Firing(hw, Touches[pc]) = {}
  /\ pc' = Next1(pc)
  /\ UNCHANGED <<host, hw, hits, running, cause, timing, asked, dropped, fails>>

Fire ==
  /\ running
  /\ Firing(hw, Touches[pc]) # {}
  /\ \E marks \in Marks(hw, Firing(hw, Touches[pc])) : hits' = hits \cup marks
  /\ pc' = IF timing = "before" THEN pc ELSE Next1(pc)
  /\ running' = FALSE
  /\ cause' = "trigger"
  /\ UNCHANGED <<host, hw, timing, asked, dropped, fails>>

(***************************************************************************)
(* add_watchpoint, add_breakpoint, remove_watchpoint                       *)
(***************************************************************************)
Free(u, n, i) == i \in Trig /\ i < n /\ u[i] = None

\* The triggers of the table a style can start at, the lowest of which is taken.  A
\* trigger that rejects a configuration is off before and after.
Places(u, n, style) ==
  IF style = "pair"
  THEN {i \in Trig : /\ Free(u, n, i) /\ Free(u, n, i + 1)
                     /\ "first" \in Accepts[i] /\ "second" \in Accepts[i + 1]}
  ELSE {i \in Trig : Free(u, n, i) /\ style \in Accepts[i]}

\* Range match, chained pair, equality on the first address: in this order.
Styles(w, isExecute) ==
  IF isExecute THEN <<"eq">>
  ELSE IF w \in Napot THEN <<"range", "pair", "eq">> ELSE <<"pair", "eq">>

\* Mutant of Armed: the mask of the range match is one bit short.
ArmedShort(h, style, i, w) ==
  CASE style = "pair" ->
         [h EXCEPT ![i] = Config("first", w), ![i + 1] = Config("second", w)]
    [] style = "eq" -> [h EXCEPT ![i] = Config("eq", {Min(w)})]
    [] OTHER -> [h EXCEPT ![i] = Config("range", w \ {Max(w)})]

Armed(h, style, i, w) ==
  CASE style = "pair" ->
         [h EXCEPT ![i] = Config("first", w), ![i + 1] = Config("second", w)]
    [] style = "eq" -> [h EXCEPT ![i] = Config("eq", {Min(w)})]
    [] OTHER -> [h EXCEPT ![i] = Config("range", w)]

\* dmode: armed by a debugger.  A trigger the program has set for itself is not: it
\* raises an exception of the program and never halts the hart.
DebugMode(config) == config.style \notin {"off", "program"}
LeftOversOff(n) == [i \in Trig |-> IF i < n /\ DebugMode(hw[i]) THEN Off ELSE hw[i]]

\* _enumerate_triggers, when its table comes to n triggers: what an earlier session
\* left armed in them is switched off.  The table is short when a trigger could not be
\* selected or had no type to read, and empty when TSELECT could not be read: the
\* enumeration counts as done, and the triggers beyond stay as they are.
Enumerated(n) == IF enumerated THEN <<uid, hw>>
                 ELSE <<[i \in Trig |-> None], LeftOversOff(n)>>
Counts == IF enumerated THEN {count} ELSE 0..NTrig

\* Any other register access of the enumeration fails: n triggers are done, the add
\* raises, and the next one begins again.
EnumerationFails ==
  /\ ~running /\ ~enumerated
  /\ nextId < MaxHandles
  /\ nextId' = nextId + 1
  /\ \E n \in 0..NTrig : hw' = LeftOversOff(n)
  /\ UNCHANGED <<uid, enumerated, count, pending, fallback, hits, pc, running, timing, cause,
                 asked, dropped, fails>>

Add(w, isExecute) ==
  /\ ~running
  /\ nextId < MaxHandles
  /\ nextId' = nextId + 1
  /\ enumerated' = TRUE
  /\ count' \in Counts
  /\ LET u      == Enumerated(count')[1]
         h      == Enumerated(count')[2]
         styles == Styles(w, isExecute)
         usable == {k \in DOMAIN styles : Places(u, count', styles[k]) # {}}
         style  == styles[Min(usable)]
         i      == Min(Places(u, count', style))
         used   == IF usable = {} THEN {}
                   ELSE IF style = "pair" THEN {i, i + 1} ELSE {i}
     IN  \* every free trigger that was probed and refused is off
         \E probed \in SUBSET {j \in Trig \ used : Free(u, count', j)} :
           LET clear == [j \in Trig |-> IF j \in probed THEN Off ELSE h[j]] IN
           /\ hits' = hits \ (used \cup probed)
           /\ uid' = [j \in Trig |-> IF j \in used THEN nextId ELSE u[j]]
           /\ IF usable = {}                                      \* RuntimeError
              THEN hw' = clear /\ UNCHANGED <<fallback, asked>>
              ELSE /\ hw' = Armed(clear, style, i, w)
                   /\ fallback' = (fallback \/ (style = "eq" /\ Cardinality(w) > 1))
                   /\ asked' = [asked EXCEPT ![nextId] = w]
  /\ UNCHANGED <<pending, pc, running, cause, timing, dropped, fails>>

\* Every trigger of the handle; a pending step over it stays pending.
Remove(handle) ==
  /\ ~running /\ enumerated
  /\ \E i \in Trig : uid[i] = handle
  /\ uid' = [i \in Trig |-> IF uid[i] = handle THEN None ELSE uid[i]]
  /\ hw' = [i \in Trig |-> IF uid[i] = handle THEN Off ELSE hw[i]]
  /\ hits' = {i \in hits : uid[i] # handle}
  /\ dropped' = (dropped \/ (pending # None /\ pending.handle = handle))
  /\ UNCHANGED <<enumerated, count, pending, nextId, fallback, pc, running, cause, timing, asked,
                 fails>>

(***************************************************************************)
(* halt, resume, step                                                      *)
(***************************************************************************)
\* _note_trigger_hit_for_step_over: the first armed trigger with its hit bit set,
\* that bit cleared, and everything its handle has armed saved as it is now.
Noted(why) ==
  LET hit == {i \in hits : uid[i] # None} IN
  IF enumerated /\ why = "trigger" /\ hit # {}
  THEN /\ hits' = hits \ {Min(hit)}
       /\ LET handle == uid[Min(hit)] IN
          IF timing = "before"
          THEN pending' = [handle |-> handle,
                           saved  |-> [i \in {j \in Trig : uid[j] = handle} |-> hw[i]],
                           marked |-> {j \in hits' : uid[j] = handle}]
          ELSE UNCHANGED pending
  ELSE UNCHANGED <<hits, pending>>

Halt ==
  /\ running' = FALSE
  /\ cause' = IF running THEN "haltreq" ELSE cause
  /\ Noted(cause')
  /\ UNCHANGED <<uid, enumerated, count, nextId, fallback, hw, pc, timing, asked, dropped, fails>>

\* One instruction with these triggers armed, and its hit bits.
StepWith(h) ==
  LET firing == Firing(h, Touches[pc]) IN
  /\ pc' = IF firing # {} /\ timing = "before" THEN pc ELSE Next1(pc)
  /\ cause' = IF firing # {} THEN "trigger" ELSE "step"
  /\ \E marks \in Marks(h, firing) : hits' = hits \cup marks

Step ==
  /\ ~running
  /\ StepWith(hw)
  /\ UNCHANGED <<host, hw, running, timing, asked, dropped, fails>>

\* Nothing to step over: the hart just runs.
ResumeAtOnce ==
  /\ ~running /\ pending = None
  /\ running' = TRUE
  /\ cause' = "none"
  /\ UNCHANGED <<host, hw, hits, pc, timing, asked, dropped, fails>>

Saved(i) == pending # None /\ i \in DOMAIN pending.saved
Disarmed == [i \in Trig |-> IF Saved(i) THEN Off ELSE hw[i]]
Rearmed == [i \in Trig |-> IF Saved(i) THEN pending.saved[i] ELSE hw[i]]

\* Mutant of ResumeOver: steps with the trigger still armed.
ResumeStillArmed ==
  /\ ~running /\ pending # None
  /\ pending' = None
  /\ LET firing == Firing(hw, Touches[pc]) IN
       pc' = IF firing # {} THEN pc ELSE Next1(pc)
  /\ running' = TRUE
  /\ cause' = "none"
  /\ UNCHANGED <<uid, enumerated, count, nextId, fallback, hw, hits, timing, asked, dropped, fails>>

\* Mutant of ResumeOver: does not arm the trigger again.
ResumeStaysDisarmed ==
  /\ ~running /\ pending # None
  /\ pending' = None
  /\ pc' = Next1(pc)
  /\ hw' = Disarmed
  /\ running' = TRUE
  /\ cause' = "none"
  /\ UNCHANGED <<uid, enumerated, count, nextId, fallback, hits, timing, asked, dropped, fails>>

\* The trigger that hit is switched off, the hart stepped, the trigger armed again
\* with what was saved, and the hart resumed.
ResumeOver ==
  /\ ~running /\ pending # None
  /\ pending' = None
  /\ LET firing == Firing(Disarmed, Touches[pc]) IN
     /\ pc' = IF firing # {} THEN pc ELSE Next1(pc)
     /\ \E marks \in Marks(Disarmed, firing) :
          hits' = ((hits \cup marks) \ DOMAIN pending.saved) \cup pending.marked
  /\ hw' = Rearmed
  /\ running' = TRUE
  /\ cause' = "none"
  /\ UNCHANGED <<uid, enumerated, count, nextId, fallback, timing, asked, dropped, fails>>

\* The step does not halt again: resume raises, and the trigger stays off.
ResumeFails ==
  /\ ~running /\ pending # None
  /\ fails < MaxFails
  /\ fails' = fails + 1
  /\ pending' = None
  /\ hw' = Disarmed
  /\ hits' = hits \ DOMAIN pending.saved
  /\ running' = TRUE
  /\ cause' = "none"
  /\ UNCHANGED <<uid, enumerated, count, nextId, fallback, pc, timing, asked, dropped>>

Init ==
  /\ uid = [i \in Trig |-> None] /\ enumerated = FALSE /\ count = 0
  /\ pending = None /\ nextId = 0 /\ fallback = FALSE
  /\ \E left \in {Off} \cup {Config("eq", {Min(w)}) : w \in Watches} :
       \E mine \in {Off, Config("program", {})} :
         hw = [i \in Trig |-> CASE i = NTrig - 1 -> left [] i = 0 -> mine [] OTHER -> Off]
  /\ hits = {} /\ pc = 0 /\ running = TRUE /\ cause = "none"
  /\ timing \in {"before", "after"}
  /\ asked = [k \in 0..MaxHandles - 1 |-> {}]
  /\ dropped = FALSE /\ fails = 0

Next ==
  \/ Run \/ Fire
  \/ \E w \in Watches : Add(w, FALSE) \/ (Cardinality(w) = 1 /\ Add(w, TRUE))
  \/ EnumerationFails
  \/ \E handle \in 0..MaxHandles - 1 : Remove(handle)
  \/ Halt \/ Step \/ ResumeAtOnce \/ ResumeOver \/ ResumeFails

Spec == Init /\ [][Next]_vars
-----------------------------------------------------------------------------
TypeOK ==
  /\ uid \in [Trig -> 0..MaxHandles - 1 \cup {None}]
  /\ enumerated \in BOOLEAN /\ running \in BOOLEAN /\ fallback \in BOOLEAN
  /\ pending = None \/ pending.handle \in 0..MaxHandles - 1
  /\ nextId \in 0..MaxHandles /\ fails \in 0..MaxFails /\ count \in 0..NTrig
  /\ \A i \in Trig : hw[i].style \in {"off", "program", "range", "first", "second", "eq"}
  /\ hits \subseteq Trig /\ pc \in Pc /\ timing \in {"before", "after"}
  /\ cause \in {"none", "haltreq", "step", "trigger"}

Live == {uid[i] : i \in Trig} \ {None}
Own(handle) == {i \in Trig : uid[i] = handle}
ArmedForNone == {i \in Trig : uid[i] = None /\ DebugMode(hw[i])}
Ghosts == {i \in ArmedForNone : i < count}

\* The triggers of a handle watch what it was asked to, or its first address.
Served(handle) ==
  \/ \E i \in Trig : /\ Own(handle) = {i}
                     /\ \/ hw[i] = Config("range", asked[handle])
                        \/ /\ hw[i] = Config("eq", {Min(asked[handle])})
                           /\ Cardinality(asked[handle]) > 1 => fallback
  \/ \E i \in Trig : /\ Own(handle) = {i, i + 1}
                     /\ hw[i] = Config("first", asked[handle])
                     /\ hw[i + 1] = Config("second", asked[handle])

\* Once the triggers are enumerated, the triggers of the table are those of the handles
\* given out: none of them is armed for nobody but the program, a pair is complete and
\* in order, and each watches what its handle was asked to, or its first address when
\* the fallback is on record.  Stepping over a hit leaves that as it was.  (Unless a
\* handle was removed with its hit pending, or a step has failed.  Nothing is said of
\* the triggers a table cut short does not reach: see LeftOversGone.)
HandlesMatchHart ==
  enumerated /\ ~dropped /\ fails = 0 => Ghosts = {} /\ \A handle \in Live : Served(handle)

\* No instruction that touches what a handle watches is executed unreported, except
\* the one whose hit was reported and is now being stepped over.
NoMissedHit ==
  [][pc' # pc /\ enumerated /\ ~dropped /\ fails = 0 /\ ~fallback =>
       \A handle \in Live :
         \/ asked[handle] \cap Touches[pc] = {}
         \/ pending # None /\ pending.handle = handle
         \/ cause' = "trigger"]_vars

\* A resume after a reported hit gets past the instruction, when the triggers that
\* watch it are all of one handle.
ResumeLeavesHit ==
  [][ResumeOver /\ ~dropped /\ Cardinality({uid[i] : i \in Firing(hw, Touches[pc])}) <= 1
       => pc' # pc]_vars

\* remove_watchpoint: "Clear every trigger carrying `handle`": no trigger is armed
\* for a handle that is gone.  Not so when its hit was pending.
RemovedStaysRemoved == enumerated => Ghosts = {}

\* _enumerate_triggers: "Disables any hardware trigger left with dmode set (maybe from a
\* killed session)".  Not so when a failed access has cut the table short: the
\* enumeration is done for good, and a trigger beyond the table goes on stopping the
\* hart for no handle.
LeftOversGone == enumerated /\ ~dropped => ArmedForNone = {}

\* resume: after a reported hit, disable it and step past the watched instruction,
\* "otherwise this resume just re-fires at the identical PC forever".  Not so when
\* another handle is on the same instruction.
ResumeAlwaysLeaves == [][ResumeOver /\ ~dropped => pc' # pc]_vars
=============================================================================
