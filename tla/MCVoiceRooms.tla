----------------------------- MODULE MCVoiceRooms -----------------------------
(* VoiceRooms on small instances. *)
EXTENDS VoiceRooms, TLC

\* Users, rooms and objects are interchangeable.
Symmetry == Permutations(User) \cup Permutations(RoomName) \cup Permutations(Object)
==============================================================================
