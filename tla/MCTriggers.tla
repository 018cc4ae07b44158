------------------------------ MODULE MCTriggers ------------------------------
(* Instances of Triggers for TLC. *)
EXTENDS Triggers, TLC

\* Trigger 2 matches single addresses only; the watch {1, 2} is not aligned.
MCAccepts == (0 :> {"range", "first", "eq"}) @@ (1 :> {"first", "second", "eq"}) @@ (2 :> {"eq"})
MCWatches == {{0}, {1}, {0, 1}, {1, 2}}
MCNapot == {{0, 1}}
MCTouches == (0 :> {0}) @@ (1 :> {}) @@ (2 :> {1, 3})
=============================================================================
