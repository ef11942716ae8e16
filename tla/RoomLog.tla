------------------------------ MODULE RoomLog -------------------------------
(***************************************************************************)
(* The room's transcript on disk: append.rs, log.rs, recovery.rs,          *)
(* identity.rs and Room::open of desktop/crates/kalsa-room/src.            *)
(*                                                                         *)
(* A post holds the write lock from the check to the wake, so it is one    *)
(* step; what may come between is a crash. An append whose fate is unknown *)
(* is settled by asking the file. A file found damaged is cut back to its  *)
(* longest valid prefix, and when complete lines go, so does the epoch.    *)
(* The phone joined an empty room: its floor is the first entry.           *)
(***************************************************************************)
EXTENDS Integers, Sequences

CONSTANTS
  Messages,    \* what may be posted: author and client_msg_id, the words with them
  Nothing,     \* what a line that does not parse says
  MaxEpoch,    \* bound: how many epochs are minted
  MaxFaults    \* bound: damaged lines and repairs that could not be written

ASSUME RoomLogAssumption ==
  /\ Nothing \notin Messages
  /\ MaxEpoch \in Nat /\ MaxFaults \in Nat

VARIABLES
  lines,     \* the complete lines of the file
  tail,      \* the bytes after the last newline, as at most one line
  stored,    \* the epoch in the identity file
  running,   \* whether the room is open
  messages,  \* memory: the entries served, or served last
  epoch,     \* memory: the epoch they are numbered in
  writable,  \* memory: whether the room appends
  book,      \* history: epoch -> the entries ever served under it
  faults     \* how many faults happened

diskVars == <<lines, tail, stored>>
roomVars == <<running, messages, epoch, writable, book>>
logVars == <<diskVars, roomVars, faults>>

Epochs == 0 .. MaxEpoch
Garbage == [msg |-> Nothing, seq |-> 0]
Line(m) == [msg |-> m, seq |-> Len(messages) + 1]
Said(ms) == {ms[i] : i \in 1 .. Len(ms)}

LogInit ==
  /\ lines = <<>> /\ tail = <<>> /\ stored = 0
  /\ running = TRUE /\ messages = <<>> /\ epoch = 0 /\ writable = TRUE
  /\ book = [e \in Epochs |-> <<>>]
  /\ faults = 0

\* what a room serves under an epoch is never taken back from its readers
Serve(ms, e) ==
  /\ messages' = ms /\ epoch' = e
  /\ book' = [book EXCEPT ![e] = IF Len(ms) > Len(@) THEN ms ELSE @]

-----------------------------------------------------------------------------
(* The file.                                                               *)

\* `Checker::check`: the numbering, and one key on one entry
Fits(line, before) ==
  /\ line.msg # Nothing /\ line.seq = Len(before) + 1
  /\ \A i \in 1 .. Len(before) : before[i].msg # line.msg

\* `parse_prefix`: accept lines until the first that breaks a rule
Accepted(ls) ==
  {n \in 0 .. Len(ls) :
     /\ \A i \in 1 .. n : Fits(ls[i], SubSeq(ls, 1, i - 1))
     /\ n < Len(ls) => ~Fits(ls[n + 1], SubSeq(ls, 1, n))}

Read(ls, n) == [i \in 1 .. n |-> ls[i].msg]

\* `log::open`: the file as found, or cut back to its valid prefix, or mended.
\* What could not be written leaves the file as found and the room read-only.
Found(ls, tl, n, w) == [messages |-> Read(ls, n), lines |-> ls, tail |-> tl,
                        writable |-> w, recovery |-> "none"]
Cut(ls, n, what) == [messages |-> Read(ls, n), lines |-> SubSeq(ls, 1, n), tail |-> <<>>,
                     writable |-> TRUE, recovery |-> what]
Mended(ls, tl, n) == [messages |-> Append(Read(ls, n), tl[1].msg), lines |-> Append(ls, tl[1]),
                      tail |-> <<>>, writable |-> TRUE, recovery |-> "none"]

FromPrefix(ls, tl, n) ==
  IF n < Len(ls) THEN {Cut(ls, n, "middle"), Found(ls, tl, n, FALSE)}
  ELSE IF tl = <<>> THEN {Found(ls, tl, n, TRUE)}
  ELSE IF tl[1] = Garbage THEN {Cut(ls, n, "tail"), Found(ls, tl, n, FALSE)}
  ELSE IF Fits(tl[1], ls) THEN {Mended(ls, tl, n), Found(ls, tl, n, FALSE)}
  ELSE {Cut(ls, n, "middle"), Found(ls, tl, n, FALSE)}

Opened(ls, tl) == UNION {FromPrefix(ls, tl, n) : n \in Accepted(ls)}

\* the bytes an interrupted append left: none, a part, all but the newline, all;
\* after a fragment they are one garbage line with it
Landing(line) == IF tail = <<>> THEN line ELSE Garbage
Wrote(line) ==
  {[lines |-> lines, tail |-> tail],
   [lines |-> lines, tail |-> <<Garbage>>],
   [lines |-> lines, tail |-> <<Landing(line)>>],
   [lines |-> Append(lines, Landing(line)), tail |-> <<>>]}

Faulted(cost) == faults' = faults + cost /\ faults' <= MaxFaults

-----------------------------------------------------------------------------
(* Posting.                                                                *)

\* `land`, after the append (slip: the line may not have reached the disk)
LandsUnsynced(m) ==
  /\ running /\ writable /\ m \notin Said(messages)
  /\ lines' \in {lines, Append(lines, Landing(Line(m)))} /\ tail' = <<>>
  /\ Serve(Append(messages, m), epoch)
  /\ UNCHANGED <<stored, running, writable, faults>>
Lands(m) ==
  /\ running /\ writable /\ m \notin Said(messages)
  /\ lines' = Append(lines, Landing(Line(m))) /\ tail' = <<>>
  /\ Serve(Append(messages, m), epoch)
  /\ UNCHANGED <<stored, running, writable, faults>>

\* a retry of what landed is answered with the entry, and changes nothing
Repeats(m) ==
  /\ running /\ writable /\ m \in Said(messages)
  /\ UNCHANGED logVars

Refuses ==
  /\ running /\ ~writable
  /\ UNCHANGED logVars

\* `after_failed_append` once the file was read: exactly one entry more than memory,
\* and ours, has landed; what memory holds says nothing did; anything else is a
\* transcript the room cannot explain, and it stops writing.
Settles(m, o, answer) ==
  LET ours == Len(o.messages) = Len(messages) + 1 /\ o.messages[Len(o.messages)] = m
      same == Len(o.messages) = Len(messages)
  IN /\ o.recovery # "middle"
     /\ lines' = o.lines /\ tail' = o.tail
     /\ Serve(IF ours THEN Append(messages, m) ELSE messages, epoch)
     /\ writable' = (o.writable /\ (ours \/ same))
     /\ answer = IF ours THEN "ok" ELSE IF writable' THEN "internal" ELSE "read_only"
     /\ Faulted(IF o.writable THEN 0 ELSE 1)
     /\ UNCHANGED <<stored, running>>

\* the append fails and the file is asked
AppendFails(m, answer) ==
  /\ running /\ writable /\ m \notin Said(messages)
  /\ \E d \in Wrote(Line(m)) : \E o \in Opened(d.lines, d.tail) : Settles(m, o, answer)

\* `Room::post`, and what it answers
Post(m, answer) ==
  \/ Lands(m) /\ answer = "ok"
  \/ Repeats(m) /\ answer = "ok"
  \/ Refuses /\ answer = "read_only"
  \/ AppendFails(m, answer)

-----------------------------------------------------------------------------
(* Crashes, damage, and opening.                                           *)

Crash ==
  /\ running /\ running' = FALSE
  /\ UNCHANGED <<diskVars, messages, epoch, writable, book, faults>>

CrashInPost(m) ==
  /\ running /\ writable /\ m \notin Said(messages)
  /\ \E d \in Wrote(Line(m)) : lines' = d.lines /\ tail' = d.tail
  /\ running' = FALSE
  /\ UNCHANGED <<stored, messages, epoch, writable, book, faults>>

Damage(i) ==
  /\ lines[i] # Garbage
  /\ lines' = [lines EXCEPT ![i] = Garbage]
  /\ Faulted(1)
  /\ UNCHANGED <<tail, stored, roomVars>>

\* a transcript that lost complete lines is numbered anew (slip: the epoch stays)
EpochKept(o) == stored
EpochAfter(o) == IF o.recovery = "middle" THEN stored + 1 ELSE stored

\* `Room::open`: the file first, then the epoch
Open ==
  /\ ~running
  /\ \E o \in Opened(lines, tail) :
       LET e == EpochAfter(o)
       IN /\ e \in Epochs
          /\ lines' = o.lines /\ tail' = o.tail /\ stored' = e
          /\ Serve(o.messages, e) /\ writable' = o.writable
          /\ Faulted(IF o.writable THEN 0 ELSE 1)
  /\ running' = TRUE

Happens ==
  \/ Crash
  \/ \E m \in Messages : CrashInPost(m)
  \/ \E i \in 1 .. Len(lines) : Damage(i)
  \/ Open

Answers == {"ok", "internal", "read_only"}

LogNext ==
  \/ \E m \in Messages, answer \in Answers : Post(m, answer)
  \/ Happens

LogSpec == LogInit /\ [][LogNext]_logVars

-----------------------------------------------------------------------------
(* Failures at which the store's code does not keep its promise: LogSpec leaves them *)
(* out, ShakenSpec is the store with them.                                 *)

\* the append fails and the file cannot be read: the room writes on
AskFails(m) ==
  /\ running /\ writable /\ m \notin Said(messages)
  /\ \E d \in Wrote(Line(m)) : lines' = d.lines /\ tail' = d.tail
  /\ Faulted(1)
  /\ UNCHANGED <<stored, roomVars>>

\* `after_failed_append` once the file turned out to have lost complete lines: an epoch
\* is minted, or the writes stop, and memory keeps every entry it had (and its epoch:
\* the new one may be on disk already when the roster's publishing fails)
SettlesDamaged(m, o) ==
  /\ o.recovery = "middle"
  /\ lines' = o.lines /\ tail' = o.tail
  /\ \/ /\ stored + 1 \in Epochs
        /\ stored' = stored + 1 /\ Serve(messages, stored + 1)
        /\ writable' = (Len(o.messages) = Len(messages))
     \/ /\ stored' \in Epochs \intersect {stored, stored + 1} /\ Serve(messages, epoch)
        /\ writable' = FALSE
  /\ UNCHANGED <<running, faults>>

\* a failed append finds that older lines are damaged
AppendFindsDamage(m) ==
  /\ running /\ writable /\ m \notin Said(messages)
  /\ \E d \in Wrote(Line(m)) : \E o \in Opened(d.lines, d.tail) : SettlesDamaged(m, o)

\* `Room::open` cuts the file back, and goes down before the new epoch is on disk
OpenStopsShort ==
  /\ ~running
  /\ \E o \in Opened(lines, tail) :
       /\ o.recovery = "middle"
       /\ lines' = o.lines /\ tail' = o.tail
  /\ UNCHANGED <<stored, roomVars, faults>>

ShakenNext ==
  \/ LogNext
  \/ OpenStopsShort
  \/ \E m \in Messages : AskFails(m) \/ AppendFindsDamage(m)

ShakenSpec == LogInit /\ [][ShakenNext]_logVars

-----------------------------------------------------------------------------
(* What it must do.                                                        *)

\* Under one epoch a number names one entry, whoever read it when: what the room
\* serves now begins what it ever served under this epoch.
OneEntryPerNumber ==
  running => /\ Len(messages) <= Len(book[epoch])
             /\ \A i \in 1 .. Len(messages) : messages[i] = book[epoch][i]

\* The store keeps the room's promise.
Promise == INSTANCE Transcript WITH served <- messages
KeepsPromise == Promise!TranscriptSpec
=============================================================================
