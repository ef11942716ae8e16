----------------------------- MODULE RoomStream -----------------------------
(***************************************************************************)
(* A phone that reads the room (phone/src/room: roomStream.ts,             *)
(* roomStreamDispatch.ts, roomStreamWire.ts, roomStreamRefetch.ts,         *)
(* roomFeed.ts, and the first read of useRoom.ts), and the door's event    *)
(* stream (kalsa-door/src/room/stream.rs, kalsa-room/src/events.rs).       *)
(*                                                                         *)
(* The room is any room that keeps the promise of Transcript. The screen   *)
(* reads info and a history page once, and folds what the stream delivers; *)
(* the stream resumes after its floor, and rebuilds from a page when the   *)
(* epoch or its cursor died. A post of the phone's own is shown from its   *)
(* ack, and the stream skips the copy. A read's request and the door's     *)
(* answer are one step; a history page is heard later than it was read.    *)
(* The model's pages hold the whole transcript.                            *)
(***************************************************************************)
EXTENDS Transcript, FiniteSets

CONSTANTS
  Mine,       \* the messages this phone posts
  MaxResync,  \* MAX_CONSECUTIVE_RESYNC
  MaxUpsets   \* bound: cuts, failed reads, shorter restarts, pauses, reloads

ASSUME RoomStreamAssumption ==
  /\ Mine \subseteq Messages
  /\ MaxResync \in Nat \ {0} /\ MaxUpsets \in Nat

VARIABLES
  cached,   \* the epoch this phone last read (roomEpochs.ts)
  stream,   \* the session: phase, floor, acked seqs, and what it owes
  conn,     \* the door's side of the wire: epoch, next seq, where it was cut
  feed,     \* the screen: its epoch, its entries, and rows built from acks
  read,     \* the screen's first read: step, the info's epoch, the page
  news,     \* whether a reconnect's info is on its way
  acks,     \* acks on their way to the queue, with the epoch they are from
  past,     \* history: since when the floor is whole, the known mix-ups, the acks heard
  upsets    \* how many upsets happened

phoneVars == <<stream, conn, feed, read, news>>
streamVars == <<transcriptVars, cached, phoneVars, acks, past, upsets>>

NoEpoch == -1
Live == -1                                  \* a wire nobody cut
Seqs(rows) == {row.seq : row \in rows}
PageRows == {[seq |-> i, msg |-> served[i]] : i \in 1 .. Len(served)}

NewStream == [phase |-> "dial", floor |-> 0, acked |-> {}, resync |-> FALSE,
              streak |-> 0, fresh |-> TRUE, info |-> NoEpoch]
NoWire == [epoch |-> 0, next |-> 1, end |-> 0]
NewFeed == [epoch |-> NoEpoch, entries |-> {}, sent |-> {}]
NewRead == [at |-> "info", tries |-> 0, info |-> NoEpoch, epoch |-> NoEpoch, rows |-> {}]
NoPast == [from |-> 0, epoch |-> NoEpoch, strayed |-> FALSE, crossed |-> FALSE, heard |-> {}]

StreamInit ==
  /\ TranscriptInit /\ cached = NoEpoch
  /\ stream = NewStream /\ conn = NoWire /\ feed = NewFeed /\ read = NewRead
  /\ news = FALSE /\ acks = {} /\ past = NoPast /\ upsets = 0

Upset == upsets < MaxUpsets /\ upsets' = upsets + 1

\* the door's guard: a phone that cached another epoch is refused
Admitted == cached \in {NoEpoch, epoch}

-----------------------------------------------------------------------------
(* The screen: roomFeed.ts.                                                *)

FoldInfo(f, e) == IF f.epoch \in {NoEpoch, e} THEN [f EXCEPT !.epoch = e] ELSE f

\* what a read brings does not move a row that is shown, nor does it cross epochs
\* (slip: the page replaces the rows)
FoldPageOnly(f, e, rows) ==
  IF rows # {} /\ f.epoch \notin {NoEpoch, e} THEN f ELSE [f EXCEPT !.entries = rows]
FoldHistory(f, e, rows) ==
  IF rows # {} /\ f.epoch \notin {NoEpoch, e} THEN f
  ELSE LET kept == f.entries \union {row \in rows : row.seq \notin Seqs(f.entries)}
       IN [f EXCEPT !.entries = kept, !.sent = {p \in @ : p.seq \notin Seqs(kept)}]

\* (slip: the entry's epoch is not looked at)
FoldAnyEntry(f, e, row) ==
  LET held == row.seq \in Seqs(f.entries)
  IN [epoch   |-> IF f.epoch = NoEpoch THEN e ELSE f.epoch,
      entries |-> IF held THEN f.entries ELSE f.entries \union {row},
      sent    |-> IF held THEN f.sent ELSE {p \in f.sent : p.seq # row.seq}]
FoldEntry(f, e, row) ==
  IF f.epoch \notin {NoEpoch, e} THEN f ELSE FoldAnyEntry(f, e, row)

FoldResync(e, rows) == [epoch |-> e, entries |-> rows, sent |-> {}]

FoldSent(f, ack) ==
  IF \E p \in f.sent : p.msg = ack.msg THEN f ELSE [f EXCEPT !.sent = @ \union {ack}]

\* `roomRows`: an ack's row gives way to the entry
Shown == Seqs(feed.entries) \union Seqs(feed.sent)

-----------------------------------------------------------------------------
(* The screen's first read: useRoom.ts.                                    *)

\* a refused epoch is forgotten and the read is made once more, bare
ReadRefused ==
  /\ ~Admitted /\ cached' = NoEpoch
  /\ read' = IF read.tries = 0 THEN [NewRead EXCEPT !.tries = 1] ELSE [NewRead EXCEPT !.at = "failed"]

ReadInfo ==
  /\ read.at = "info"
  /\ \/ Admitted /\ cached' = epoch /\ read' = [read EXCEPT !.at = "page", !.info = epoch]
     \/ ReadRefused
  /\ UNCHANGED <<transcriptVars, stream, conn, feed, news, acks, past, upsets>>

ReadPage ==
  /\ read.at = "page"
  /\ \/ /\ Admitted /\ UNCHANGED cached
        /\ read' = [read EXCEPT !.at = "back", !.epoch = epoch, !.rows = PageRows]
     \/ ReadRefused
  /\ UNCHANGED <<transcriptVars, stream, conn, feed, news, acks, past, upsets>>

ReadFolds ==
  /\ read.at = "back"
  /\ feed' = FoldHistory(FoldInfo(feed, read.info), read.epoch, read.rows)
  /\ read' = [NewRead EXCEPT !.at = "done"]
  /\ UNCHANGED <<transcriptVars, cached, stream, conn, news, acks, past, upsets>>

ReadFails ==
  /\ read.at \in {"info", "page"} /\ Upset
  /\ read' = [NewRead EXCEPT !.at = "failed"]
  /\ UNCHANGED <<transcriptVars, cached, stream, conn, feed, news, acks, past>>

-----------------------------------------------------------------------------
(* The stream's session: roomStream.ts.                                    *)

\* `beginResync`: the epoch is forgotten, the wire dropped, and the backoff waited out
BeginsResync ==
  /\ stream' = [stream EXCEPT !.resync = TRUE, !.phase = "wait"]
  /\ cached' = NoEpoch

\* `cycle`
Cycles(s) == [s EXCEPT !.phase = IF s.resync THEN "info" ELSE "dial"]

TimerFires ==
  /\ stream.phase = "wait" /\ stream' = Cycles(stream)
  /\ UNCHANGED <<transcriptVars, cached, conn, feed, read, news, acks, past, upsets>>

\* `runResync`: info, then the page that becomes the floor
ResyncInfo ==
  /\ stream.phase = "info"
  /\ IF Admitted
     THEN cached' = epoch /\ stream' = [stream EXCEPT !.phase = "page", !.info = epoch]
     ELSE cached' = NoEpoch /\ stream' = [stream EXCEPT !.phase = "wait"]
  /\ UNCHANGED <<transcriptVars, conn, feed, read, news, acks, past, upsets>>

\* `setFloor`: the acks of the dead floor go with it
SetFloor(s) == [s EXCEPT !.floor = Len(served), !.acked = {}]

Resynced ==
  /\ stream' = [SetFloor(stream) EXCEPT !.resync = FALSE, !.fresh = TRUE, !.phase = "dial",
                                        !.streak = @ + 1, !.info = NoEpoch]
  /\ feed' = FoldResync(stream.info, PageRows)
  /\ past' = [past EXCEPT !.from = IF served = <<>> THEN 0 ELSE 1, !.epoch = epoch,
                          !.crossed = @ \/ stream.info # epoch]

\* so many rounds without an entry between them are the end (slip: they never end)
GoesOn == FALSE
GivesUp == stream.streak + 1 >= MaxResync

ResyncPage ==
  /\ stream.phase = "page"
  /\ \/ /\ Admitted /\ ~GivesUp
        /\ Resynced /\ UNCHANGED cached
     \/ /\ Admitted /\ GivesUp
        /\ stream' = [stream EXCEPT !.phase = "stopped", !.streak = @ + 1]
        /\ UNCHANGED <<cached, feed, past>>
     \/ /\ ~Admitted /\ cached' = NoEpoch
        /\ stream' = [stream EXCEPT !.phase = "wait"]
        /\ UNCHANGED <<feed, past>>
  /\ UNCHANGED <<transcriptVars, conn, read, news, acks, upsets>>

\* `resume_after_seq`; without a cursor the door starts from now (slip: it always does)
FromNow == Len(served) + 1
ResumesAt == IF stream.floor > 0 THEN stream.floor + 1 ELSE Len(served) + 1

\* The request claims the floor. A refused epoch, and a floor above the newest entry,
\* are answered and not streamed.
DoorAccepts ==
  /\ Admitted /\ stream.floor <= Len(served)
  /\ conn' = [epoch |-> epoch, next |-> ResumesAt, end |-> Live]
  /\ stream' = [stream EXCEPT !.phase = "head"]
  /\ UNCHANGED cached

Dial ==
  /\ stream.phase = "dial"
  /\ \/ DoorAccepts
     \/ (~Admitted \/ stream.floor > Len(served)) /\ BeginsResync /\ UNCHANGED conn
  /\ UNCHANGED <<transcriptVars, feed, read, news, acks, past, upsets>>

\* `onOpen`
HeadArrives ==
  /\ stream.phase = "head"
  /\ \/ /\ cached \notin {NoEpoch, conn.epoch}
        /\ BeginsResync /\ UNCHANGED news
     \/ /\ cached \in {NoEpoch, conn.epoch} /\ cached' = conn.epoch
        /\ stream' = [stream EXCEPT !.phase = "open", !.fresh = FALSE]
        /\ news' = (news \/ ~stream.fresh)
  /\ UNCHANGED <<transcriptVars, conn, feed, read, acks, past, upsets>>

\* the info a reconnect reads, beside the stream
NewsArrives ==
  /\ news /\ news' = FALSE
  /\ \/ /\ Admitted /\ cached' = epoch
        /\ feed' = IF stream.phase = "open" THEN FoldInfo(feed, epoch) ELSE feed
     \/ ~Admitted /\ cached' = NoEpoch /\ UNCHANGED feed
  /\ UNCHANGED <<transcriptVars, stream, conn, read, acks, past, upsets>>

-----------------------------------------------------------------------------
(* Frames: roomStreamDispatch.ts.                                          *)

Reaches == IF conn.end = Live THEN Len(served) ELSE conn.end

\* the floor moves to an entry of this epoch
FloorAt(e, seq) ==
  [past EXCEPT !.from = IF past.epoch = e /\ past.from > 0 THEN @ ELSE seq, !.epoch = e]

\* our own post's copy is skipped, and moves the floor only as the very next entry
SkipsOwn(e, seq) ==
  LET next == seq = stream.floor + 1
      mine == {a \in stream.acked : a.seq = seq}
      lost == \E a \in mine : a.epoch # e
  IN /\ stream' = IF next THEN [stream EXCEPT !.floor = seq, !.acked = @ \ mine] ELSE stream
     /\ past' = [IF next THEN FloorAt(e, seq) ELSE past EXCEPT !.strayed = @ \/ lost]
     /\ UNCHANGED feed

Delivers(e, seq) ==
  /\ stream' = [stream EXCEPT !.floor = seq, !.streak = 0]
  /\ feed' = FoldEntry(feed, e, [seq |-> seq, msg |-> book[e][seq]])
  /\ past' = FloorAt(e, seq)

Dispatches(e, seq) ==
  \/ /\ cached \notin {NoEpoch, e}
     /\ BeginsResync /\ UNCHANGED <<feed, past>>
  \/ /\ cached \in {NoEpoch, e} /\ cached' = e
     /\ \/ seq <= stream.floor /\ UNCHANGED <<stream, feed, past>>
        \/ seq > stream.floor /\ seq \in Seqs(stream.acked) /\ SkipsOwn(e, seq)
        \/ seq > stream.floor /\ seq \notin Seqs(stream.acked) /\ Delivers(e, seq)

FrameArrives ==
  /\ stream.phase = "open" /\ conn.next <= Reaches
  /\ Dispatches(conn.epoch, conn.next)
  /\ conn' = [conn EXCEPT !.next = @ + 1]
  /\ UNCHANGED <<transcriptVars, read, news, acks, upsets>>

\* `markDelivered` (slip: the ack raises the floor)
RaisesFloor(s, ack) ==
  IF ack.seq <= s.floor THEN s ELSE [s EXCEPT !.floor = ack.seq]
MarkDelivered(s, ack) ==
  IF ack.seq <= s.floor THEN s
  ELSE [s EXCEPT !.acked = @ \union {[seq |-> ack.seq, epoch |-> ack.epoch]}]

\* the queue's "sent", heard by the stream and by the screen
AckArrives(ack) ==
  /\ ack \in acks /\ acks' = acks \ {ack}
  /\ stream' = MarkDelivered(stream, ack)
  /\ feed' = FoldSent(feed, ack)
  /\ past' = [past EXCEPT !.heard = @ \union {ack.msg}]
  /\ UNCHANGED <<transcriptVars, cached, conn, read, news, upsets>>

-----------------------------------------------------------------------------
(* Endings.                                                                *)

\* the wire of a room that went down is found closed
WireEnds ==
  /\ stream.phase \in {"head", "open"} /\ conn.end # Live
  /\ stream' = [stream EXCEPT !.phase = "wait"]
  /\ UNCHANGED <<transcriptVars, cached, conn, feed, read, news, acks, past, upsets>>

\* a dial, a read or the wire fails, or the wire is silent for too long
Fails ==
  /\ stream.phase \in {"info", "page", "dial", "head", "open"} /\ Upset
  /\ stream' = [stream EXCEPT !.phase = "wait"]
  /\ UNCHANGED <<transcriptVars, cached, conn, feed, read, news, acks, past>>

Pause ==
  /\ stream.phase \notin {"paused", "stopped"} /\ Upset
  /\ stream' = [stream EXCEPT !.phase = "paused"]
  /\ UNCHANGED <<transcriptVars, cached, conn, feed, read, news, acks, past>>

Resume ==
  /\ stream.phase = "paused" /\ stream' = Cycles(stream)
  /\ UNCHANGED <<transcriptVars, cached, conn, feed, read, news, acks, past, upsets>>

\* the room refuses this phone for good
Removed ==
  /\ stream.phase \in {"info", "page", "dial"} /\ Upset
  /\ stream' = [stream EXCEPT !.phase = "stopped"] /\ cached' = NoEpoch
  /\ UNCHANGED <<transcriptVars, conn, feed, read, news, acks, past>>

\* the screen is left and opened again: a new feed, read and session
Reload ==
  /\ Upset
  /\ stream' = NewStream /\ conn' = NoWire /\ feed' = NewFeed /\ read' = NewRead
  /\ news' = FALSE /\ past' = [NoPast EXCEPT !.heard = past.heard]
  /\ UNCHANGED <<transcriptVars, cached, acks>>

-----------------------------------------------------------------------------
(* The room.                                                               *)

\* a post of the phone's own is acked once; in a new epoch a retry may land again, and
\* so may a late request whose ack nobody waits for
RoomLands(m) ==
  /\ Land(m)
  /\ acks' = IF m \in Mine \ past.heard
             THEN {ack \in acks : ack.msg # m}
                    \union {[msg |-> m, seq |-> Len(served'), epoch |-> epoch]}
             ELSE acks
  /\ UNCHANGED <<cached, phoneVars, past, upsets>>

\* the room comes back from its file; wires end where they were
Restarts ==
  /\ Upset
  /\ (\E n \in 0 .. Len(book[epoch]) : Show(n)) \/ \E ms \in Left : StartOver(ms)
  /\ conn' = IF conn.end = Live THEN [conn EXCEPT !.end = Len(served)] ELSE conn
  /\ UNCHANGED <<cached, stream, feed, read, news, acks, past>>

\* a failed append found damage: the numbering starts over under live wires
StartsOverLive ==
  /\ StartOver(served)
  /\ conn' = IF conn.end = Live THEN [conn EXCEPT !.epoch = epoch'] ELSE conn
  /\ UNCHANGED <<cached, stream, feed, read, news, acks, past, upsets>>

RoomNext == (\E m \in Messages : RoomLands(m)) \/ Restarts \/ StartsOverLive

SessionNext ==
  TimerFires \/ ResyncInfo \/ ResyncPage \/ Dial \/ HeadArrives \/ FrameArrives \/ WireEnds

PhoneNext ==
  \/ ReadInfo \/ ReadPage \/ ReadFolds \/ ReadFails
  \/ SessionNext \/ NewsArrives
  \/ \E ack \in acks : AckArrives(ack)
  \/ Fails \/ Pause \/ Resume \/ Removed \/ Reload

StreamNext == RoomNext \/ PhoneNext

StreamSpec == StreamInit /\ [][StreamNext]_streamVars

\* The event loop and the door go on; the user, the room and failures owe nothing.
FairStreamSpec ==
  /\ StreamSpec
  /\ WF_streamVars(SessionNext)
  /\ WF_streamVars(ReadInfo \/ ReadPage \/ ReadFolds)

-----------------------------------------------------------------------------
(* What it must do.                                                        *)

StreamTypeOK ==
  /\ cached \in {NoEpoch} \union Epochs /\ feed.epoch \in {NoEpoch} \union Epochs
  /\ stream.phase \in {"wait", "info", "page", "dial", "head", "open", "paused", "stopped"}
  /\ stream.floor \in Nat
  /\ stream.streak \in 0 .. MaxResync /\ (stream.streak = MaxResync => stream.phase = "stopped")
  /\ news \in BOOLEAN
  /\ conn.epoch \in Epochs /\ conn.next \in Nat /\ conn.end \in Nat \union {Live}
  /\ read.at \in {"info", "page", "back", "done", "failed"}

\* A row on the screen is the entry the room served under the screen's epoch at that
\* number. Known exceptions: a resync whose two reads fell into two epochs, and a row
\* built from an ack of another epoch.
Real(row) == row.seq <= Len(book[feed.epoch]) /\ book[feed.epoch][row.seq] = row.msg
RowsAreReal ==
  feed.epoch # NoEpoch /\ ~past.crossed =>
    /\ \A row \in feed.entries : Real(row)
    /\ \A row \in feed.sent : row.epoch = feed.epoch => Real(row)

\* the entries of the screen's epoch it shows, from the stream, a page or their own ack
Told == Seqs(feed.entries) \union Seqs({p \in feed.sent : p.epoch = feed.epoch})

\* The floor never skips an entry: from the first one it was told of, whatever the
\* resume claims to have seen is on the screen. Known exceptions: the crossed resync,
\* and an ack of another epoch taken for this one's.
NoHole ==
  feed.epoch = past.epoch /\ past.from > 0 /\ ~past.strayed /\ ~past.crossed =>
    past.from .. stream.floor \subseteq Told

\* A row stays where the reader has seen it until the transcript is rebuilt.
RowsStay ==
  [][Shown \subseteq Shown' \/ ResyncPage \/ Reload]_streamVars

\* A phone that follows an epoch gets to every entry the room serves in it.
Follows == feed.epoch = epoch /\ past.epoch = epoch /\ cached = epoch /\ stream.floor > 0
CatchesUp ==
  \A seq \in 1 .. Cardinality(Messages) :
    Follows /\ past.from <= seq /\ seq <= Len(served) ~>
      \/ seq \in Told \/ seq > Len(served) \/ ~Follows
      \/ stream.phase \in {"paused", "stopped"} \/ past.strayed \/ past.crossed

\* What useRoom.ts says of a screen that attaches its listeners before it reads:
\* nothing the room announces while the page loads is lost. Once the page is read
\* and the stream has caught up, every entry is there.
NothingAnnouncedIsLost ==
  /\ read.at = "done" /\ stream.phase = "open" /\ conn.end = Live
  /\ conn.next > Len(served) /\ feed.epoch = epoch /\ conn.epoch = epoch
  => 1 .. Len(served) \subseteq Shown
=============================================================================
