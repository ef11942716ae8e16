----------------------------- MODULE MCChatTier -----------------------------
(* Small instances of ChatTier for TLC: the host's window and one or two other devices. *)
EXTENDS ChatTier, TLC

CONSTANTS window, phone, tablet

Fault == {"refused", "silent"}
Same == Permutations(Chats) \union Permutations(Threads)
NoFault == {}
Refused == {"refused"}
OneWindow == {window}
WindowAndPhone == {window, phone}
WindowAndTwo == {window, phone, tablet}
=============================================================================
