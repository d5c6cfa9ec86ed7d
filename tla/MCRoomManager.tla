---------------------------- MODULE MCRoomManager ----------------------------
(* Model checking of RoomManager: the names of users are                    *)
(* interchangeable.                                                          *)
EXTENDS RoomManager, TLC

Symmetry == Permutations(User)
==============================================================================
