--------------------------- MODULE MCDeviceSeats ---------------------------
(* DeviceSeats on a small door: two phones and the room over one or two slots. *)
EXTENDS DeviceSeats, TLC

Symmetry == Permutations(Workers) \union Permutations(Devices \ {Room})
=============================================================================
