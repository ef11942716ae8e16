----------------------------- MODULE MCRoomLog -----------------------------
(* RoomLog on a small instance. *)
EXTENDS RoomLog

CONSTANTS a, b
=============================================================================
