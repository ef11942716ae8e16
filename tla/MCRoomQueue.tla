---------------------------- MODULE MCRoomQueue ----------------------------
(* RoomQueue on small instances. *)
EXTENDS RoomQueue, TLC

CONSTANTS a, b

Alike == Permutations(Messages)

\* With one epoch a request stamped with it and a bare one are answered alike, and
\* a late one that lands twice lands once: states that differ in stamps only are one
\* (MCRoomQueue.cfg: MaxEpoch = 0).
Stampless ==
  <<logVars, shelf, session,
    [s \in Slots |-> <<flights[s].pc, flights[s].msg, flights[s].answer>>],
    rerun, timer, owed, {r.msg : r \in late}, paired, member, pastVars>>
=============================================================================
