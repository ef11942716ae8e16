----------------------------- MODULE Transcript -----------------------------
(***************************************************************************)
(* What the room promises whoever reads it (desktop/crates/kalsa-room).    *)
(*                                                                         *)
(* Entries are numbered from one within an epoch. In an epoch a number     *)
(* names one entry for ever: the transcript of the epoch only grows, at    *)
(* its end, and no message lands in it twice. When entries that were       *)
(* served are gone, a new epoch starts, and the numbers mean nothing new   *)
(* until it does. The room may serve less than the epoch holds (it came    *)
(* back read-only from a damaged file), and then nothing lands.            *)
(*                                                                         *)
(* RoomLog is the store that keeps this promise; RoomStream is a phone     *)
(* that reads a room which does.                                           *)
(***************************************************************************)
EXTENDS Integers, Sequences

CONSTANTS
  Messages,   \* what may be said: a message carries its author and its client_msg_id
  MaxEpoch    \* bound: how many times the numbering starts over

ASSUME TranscriptAssumption == MaxEpoch \in Nat

VARIABLES
  epoch,   \* the epoch the room serves
  book,    \* epoch -> the entries it ever served, in order
  served   \* the entries of the epoch that the room serves now

transcriptVars == <<epoch, book, served>>

Epochs == 0 .. MaxEpoch
Said(ms) == {ms[i] : i \in 1 .. Len(ms)}
Unrepeated(ms) == \A i, j \in 1 .. Len(ms) : ms[i] = ms[j] => i = j

TranscriptInit ==
  /\ epoch = 0
  /\ book = [e \in Epochs |-> <<>>]
  /\ served = <<>>

\* a message lands at the end of a transcript served whole
Land(m) ==
  /\ served = book[epoch]
  /\ m \notin Said(book[epoch])
  /\ book' = [book EXCEPT ![epoch] = Append(@, m)]
  /\ served' = Append(served, m)
  /\ UNCHANGED epoch

\* the room came back and serves a part of what the epoch holds
Show(n) ==
  /\ served' = SubSeq(book[epoch], 1, n)
  /\ UNCHANGED <<epoch, book>>

\* what a recovery may leave: a prefix, and an entry more that nobody was told of
Left ==
  LET kept == {SubSeq(book[epoch], 1, n) : n \in 0 .. Len(book[epoch])}
  IN kept \union {Append(ms, m) : ms \in kept, m \in Messages}

\* the numbering starts over with what was left
StartOver(ms) ==
  /\ epoch < MaxEpoch
  /\ Unrepeated(ms)
  /\ epoch' = epoch + 1
  /\ book' = [book EXCEPT ![epoch + 1] = ms]
  /\ served' = ms

TranscriptNext ==
  \/ \E m \in Messages : Land(m)
  \/ \E n \in 0 .. Len(book[epoch]) : Show(n)
  \/ \E ms \in Left : StartOver(ms)

TranscriptSpec == TranscriptInit /\ [][TranscriptNext]_transcriptVars
=============================================================================
