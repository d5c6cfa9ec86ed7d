---------------------------- MODULE MCRoomService ----------------------------
(* Model checking of RoomService: users, and rooms clients create, are       *)
(* interchangeable.                                                          *)
EXTENDS RoomService, TLC

Symmetry == Permutations(User) \cup Permutations(ClientRoom) \cup Permutations(PoolRoom)
==============================================================================
