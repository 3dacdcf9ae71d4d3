---------------------------- MODULE MCScheduler ----------------------------
(* Small instances of Scheduler for TLC.                                   *)
EXTENDS Scheduler, TLC

\* Identifiers and rooms are interchangeable in the safety properties.
Symmetric == Permutations(Ids) \cup Permutations(Rooms)
=============================================================================
