------------------------------ MODULE FlashArray ------------------------------
(***************************************************************************)
(* What programming the flash promises, whichever way it is done: within   *)
(* the sectors of the job, sectors are erased and words are programmed     *)
(* with the words of the image, which can only clear bits; nothing else    *)
(* changes, and a verified job that ends well leaves the image in place.   *)
(***************************************************************************)
EXTENDS Naturals

CONSTANTS
  Sectors,   \* the flash has sectors 0 .. Sectors - 1
  W,         \* words of a sector: 1024
  Bits,      \* bits of a word; a word is the set of its bits that are 1
  Jobs,      \* records: sectors, a set of them; image, a function from addresses to words;
             \* verify, whether the job looks at what it has written
  None

VARIABLES flash, job, outcome
vars == <<flash, job, outcome>>

Addr == 0..(Sectors * W - 1)
Word == SUBSET Bits
SectorOf(a) == a \div W

Holds(f, j) == \A a \in DOMAIN j.image : f[a] = j.image[a]

Init == flash \in [Addr -> Word] /\ job = None /\ outcome = None

Start == job = None /\ job' \in Jobs /\ outcome' = None /\ UNCHANGED flash

Unchanged(a) == flash'[a] = flash[a]

\* Some sectors are erased, whole.
Erase ==
  \A s \in 0..(Sectors - 1) :
    LET words == (s * W)..(s * W + W - 1)
    IN  (\A a \in words : Unchanged(a)) \/ (s \in job.sectors /\ \A a \in words : flash'[a] = Bits)

\* Some words of the image are programmed.
Program ==
  \A a \in Addr :
    \/ Unchanged(a)
    \/ /\ a \in DOMAIN job.image /\ SectorOf(a) \in job.sectors
       /\ flash'[a] = flash[a] \cap job.image[a]

\* The last change may come with the end of the job.
Finish(how) ==
  /\ how = "ok" /\ job.verify => Holds(flash', job)
  /\ job' = None /\ outcome' = how

Work ==
  /\ job # None
  /\ flash' \in [Addr -> Word] /\ (UNCHANGED flash \/ Erase \/ Program)
  /\ \/ UNCHANGED <<job, outcome>>
     \/ \E how \in {"ok", "raised"} : Finish(how)

Next == Start \/ Work

Spec == Init /\ [][Next]_vars
===============================================================================
