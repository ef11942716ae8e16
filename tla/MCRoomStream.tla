---------------------------- MODULE MCRoomStream ----------------------------
(* RoomStream on small instances. *)
EXTENDS RoomStream

CONSTANTS a, b
=============================================================================
