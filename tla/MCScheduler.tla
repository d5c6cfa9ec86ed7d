----------------------------- MODULE MCScheduler -----------------------------
(* Scheduler on small instances. *)
EXTENDS Scheduler, TLC

\* Rows and rooms are interchangeable.
Symmetry == Permutations(Broadcast) \cup Permutations(RoomName)
==============================================================================
