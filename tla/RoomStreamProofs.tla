-------------------------- MODULE RoomStreamProofs --------------------------
(***************************************************************************)
(* Proofs about RoomStream, for every set of messages, every number of     *)
(* epochs, resyncs and upsets: what the phone shows is what the room       *)
(* served under that number (RowsAreReal), the floor it resumes from       *)
(* leaves no entry out (NoHole), and a row that was shown stays (RowsStay).*)
(*                                                                         *)
(* The argument: the room's book only grows (BookGrows), so what was real  *)
(* when it was read is real when it is folded, whatever epochs passed      *)
(* (Real rows: ScreenOK, ReadOK, AcksOK, WireOK). The door's next frame is *)
(* never past the floor's successor while both speak of one epoch          *)
(* (FloorOK), an ack the stream skips a frame for is a row of the screen   *)
(* (AckedOK), and so the floor moves over shown rows only (HoleOK).        *)
(***************************************************************************)
EXTENDS RoomStream, TLAPS

-----------------------------------------------------------------------------
(* The invariant.                                                          *)

MaybeEpoch == {NoEpoch} \union Epochs
Row == [seq : Nat, msg : Messages]
Ack == [msg : Messages, seq : Nat, epoch : Epochs]
Session == [phase : {"wait", "info", "page", "dial", "head", "open", "paused", "stopped"},
            floor : Nat, acked : SUBSET [seq : Nat, epoch : Epochs], resync : BOOLEAN,
            streak : Nat, fresh : BOOLEAN, info : MaybeEpoch]
Wire == [epoch : Epochs, next : Nat \ {0}, end : Nat \union {Live}]
Screen == [epoch : MaybeEpoch, entries : SUBSET Row, sent : SUBSET Ack]
Reading == [at : {"info", "page", "back", "done", "failed"}, tries : {0, 1},
            info : MaybeEpoch, epoch : MaybeEpoch, rows : SUBSET Row]
Past == [from : Nat, epoch : MaybeEpoch, strayed : BOOLEAN, crossed : BOOLEAN,
         heard : SUBSET Messages]

Typed ==
  /\ cached \in MaybeEpoch /\ stream \in Session /\ conn \in Wire /\ feed \in Screen
  /\ read \in Reading /\ news \in BOOLEAN /\ acks \subseteq Ack /\ past \in Past

\* the room serves a prefix of what its epoch holds, and later epochs hold nothing yet
RoomOK ==
  /\ epoch \in Epochs /\ book \in [Epochs -> Seq(Messages)] /\ served \in Seq(Messages)
  /\ Len(served) <= Len(book[epoch])
  /\ \A i \in 1 .. Len(served) : served[i] = book[epoch][i]
  /\ \A e \in Epochs : e > epoch => book[e] = <<>>

\* a row names the entry that an epoch holds at its number
RealIn(e, row) == row.seq \in 1 .. Len(book[e]) /\ book[e][row.seq] = row.msg

\* a resync knows an epoch by its page, and gives up at its last round
SessionOK ==
  /\ stream.phase = "page" => stream.info \in Epochs
  /\ stream.streak <= MaxResync /\ (stream.streak = MaxResync => stream.phase = "stopped")

\* a wire nobody cut is of the room's epoch, and no wire reaches past what its epoch holds
WireOK ==
  /\ conn.epoch <= epoch
  /\ IF conn.end = Live THEN conn.epoch = epoch ELSE conn.end <= Len(book[conn.epoch])

ReadOK ==
  /\ read.at \in {"page", "back"} => read.info \in Epochs
  /\ read.at = "back" => read.epoch \in Epochs /\ \A row \in read.rows : RealIn(read.epoch, row)

\* acks on their way: one for a message, and none for one that was heard
AcksOK ==
  /\ \A a \in acks : RealIn(a.epoch, a) /\ a.msg \notin past.heard
  /\ \A a, b \in acks : a.msg = b.msg => a = b

ScreenOK ==
  /\ \A p \in feed.sent : RealIn(p.epoch, p) /\ p.msg \in past.heard
  /\ feed.epoch = NoEpoch => feed.entries = {}
  /\ feed.epoch # NoEpoch /\ ~past.crossed => \A row \in feed.entries : RealIn(feed.epoch, row)

\* within one epoch the next frame is at most the floor's successor
FloorOK ==
  /\ past.epoch <= epoch
  /\ past.from > 0 => stream.floor > 0
  /\ past.from > 0 /\ stream.phase \in {"head", "open"} /\ conn.epoch = past.epoch =>
       conn.next <= stream.floor + 1

\* the number is on the screen, from the stream, a page or an ack of this epoch
KnownIn(e, n) == n \in Seqs(feed.entries) \/ \E p \in feed.sent : p.seq = n /\ p.epoch = e

\* what the stream will skip, the screen shows
AckedOK == \A a \in stream.acked : KnownIn(a.epoch, a.seq)

HoleOK ==
  past.from > 0 /\ ~past.strayed /\ ~past.crossed /\ feed.epoch \in {NoEpoch, past.epoch} =>
    \A n \in past.from .. stream.floor : KnownIn(past.epoch, n)

Rooms == RoomOK /\ WireOK /\ ReadOK /\ AcksOK
Floors == FloorOK /\ AckedOK /\ HoleOK
StreamInv == Typed /\ SessionOK /\ Rooms /\ ScreenOK /\ Floors

-----------------------------------------------------------------------------
(* The room: its book only grows.                                          *)

BookGrows ==
  \A e \in Epochs : /\ Len(book[e]) <= Len(book'[e])
                    /\ \A i \in 1 .. Len(book[e]) : book'[e][i] = book[e][i]

LEMMA EpochFacts == Epochs \subseteq Nat /\ NoEpoch \notin Epochs /\ 0 \in Epochs
  BY TranscriptAssumption DEF Epochs, NoEpoch

LEMMA LandKeeps ==
  ASSUME RoomOK, NEW m \in Messages, Land(m)
  PROVE  /\ RoomOK' /\ BookGrows /\ epoch' = epoch
         /\ Len(served') = Len(served) + 1 /\ RealIn(epoch, [seq |-> Len(served), msg |-> m])'
  <1> DEFINE b == book[epoch]
  <1>1. b \in Seq(Messages) /\ served = b /\ epoch \in Epochs
    BY DEF RoomOK, Land
  <1>2. book' = [book EXCEPT ![epoch] = Append(b, m)] /\ served' = Append(served, m) /\ epoch' = epoch
    BY DEF Land
  <1>3. /\ Append(b, m) \in Seq(Messages) /\ Len(Append(b, m)) = Len(b) + 1
        /\ Append(b, m)[Len(b) + 1] = m /\ \A i \in 1 .. Len(b) : Append(b, m)[i] = b[i]
    BY <1>1
  <1>4. /\ book' \in [Epochs -> Seq(Messages)] /\ book'[epoch] = Append(b, m)
        /\ \A e \in Epochs \ {epoch} : book'[e] = book[e]
    BY <1>1, <1>2, <1>3 DEF RoomOK
  <1>5. BookGrows
    <2> SUFFICES ASSUME NEW e \in Epochs
                 PROVE  /\ Len(book[e]) <= Len(book'[e])
                        /\ \A i \in 1 .. Len(book[e]) : book'[e][i] = book[e][i]
      BY DEF BookGrows
    <2>1. CASE e = epoch
      BY <2>1, <1>1, <1>3, <1>4
    <2>2. CASE e # epoch
      <3>1. Len(book[e]) \in Nat
        BY DEF RoomOK
      <3> QED  BY <2>2, <3>1, <1>4
    <2> QED  BY <2>1, <2>2
  <1>6. served' = b' /\ served' \in Seq(Messages)
    BY <1>1, <1>2, <1>3, <1>4
  <1>7. RoomOK'
    BY <1>1, <1>2, <1>4, <1>6, EpochFacts DEF RoomOK
  <1>8. Len(served') = Len(served) + 1 /\ served' = book'[epoch'] /\ served'[Len(served')] = m
    BY <1>1, <1>2, <1>3, <1>4
  <1>9. Len(served') \in 1 .. Len(book'[epoch'])
    BY <1>1, <1>8 DEF RoomOK
  <1>10. RealIn(epoch, [seq |-> Len(served), msg |-> m])'
    BY <1>8, <1>9 DEF RealIn
  <1> QED  BY <1>2, <1>5, <1>7, <1>8, <1>10

LEMMA ShowKeeps ==
  ASSUME RoomOK, NEW n \in 0 .. Len(book[epoch]), Show(n)
  PROVE  RoomOK' /\ BookGrows /\ epoch' = epoch /\ book' = book
  <1> DEFINE b == book[epoch]
  <1>1. b \in Seq(Messages) /\ served' = SubSeq(b, 1, n) /\ epoch' = epoch /\ book' = book
    BY DEF RoomOK, Show
  <1>2. /\ SubSeq(b, 1, n) \in Seq(Messages) /\ Len(SubSeq(b, 1, n)) = n
        /\ \A i \in 1 .. n : SubSeq(b, 1, n)[i] = b[i]
    BY <1>1
  <1>3. RoomOK'
    BY <1>1, <1>2 DEF RoomOK
  <1> QED  BY <1>1, <1>3 DEF BookGrows, RoomOK

LEMMA LeftTyped ==
  ASSUME RoomOK
  PROVE  Left \subseteq Seq(Messages)
  <1> DEFINE b == book[epoch]
             kept == {SubSeq(b, 1, n) : n \in 0 .. Len(b)}
  <1>1. b \in Seq(Messages)
    BY DEF RoomOK
  <1>2. kept \subseteq Seq(Messages)
    BY <1>1
  <1>3. \A ms \in kept, m \in Messages : Append(ms, m) \in Seq(Messages)
    BY <1>2
  <1>4. Left = kept \union {Append(ms, m) : ms \in kept, m \in Messages}
    BY DEF Left
  <1> QED  BY <1>2, <1>3, <1>4

LEMMA StartOverKeeps ==
  ASSUME RoomOK, NEW ms \in Seq(Messages), StartOver(ms)
  PROVE  /\ RoomOK' /\ BookGrows /\ epoch' = epoch + 1 /\ epoch' \in Epochs
  <1>1. /\ epoch' = epoch + 1 /\ epoch' \in Epochs /\ served' = ms
        /\ book' = [book EXCEPT ![epoch + 1] = ms] /\ book[epoch'] = <<>>
    BY TranscriptAssumption DEF StartOver, RoomOK, Epochs
  <1>2. /\ book' \in [Epochs -> Seq(Messages)] /\ book'[epoch'] = ms
        /\ \A e \in Epochs \ {epoch'} : book'[e] = book[e]
    BY <1>1 DEF RoomOK
  <1>3. BookGrows
    <2> SUFFICES ASSUME NEW e \in Epochs
                 PROVE  /\ Len(book[e]) <= Len(book'[e])
                        /\ \A i \in 1 .. Len(book[e]) : book'[e][i] = book[e][i]
      BY DEF BookGrows
    <2>1. CASE e = epoch'
      BY <2>1, <1>1, <1>2
    <2>2. CASE e # epoch'
      <3>1. Len(book[e]) \in Nat
        BY DEF RoomOK
      <3> QED  BY <2>2, <3>1, <1>2
    <2> QED  BY <2>1, <2>2
  <1>4. RoomOK'
    BY <1>1, <1>2, EpochFacts DEF RoomOK
  <1> QED  BY <1>1, <1>3, <1>4

(* What was real stays real. *)
LEMMA StaysReal ==
  ASSUME RoomOK, BookGrows, NEW e \in Epochs, NEW row, RealIn(e, row)
  PROVE  RealIn(e, row)'
  <1>1. Len(book[e]) \in Nat /\ Len(book'[e]) >= Len(book[e])
    BY DEF RoomOK, BookGrows
  <1> QED  BY <1>1 DEF RealIn, BookGrows

-----------------------------------------------------------------------------
(* The screen: what each fold keeps.                                       *)

\* every row stays: an entry is an entry, and an ack's row is one, or gives way to one
Keeps(f, g) ==
  /\ f.entries \subseteq g.entries
  /\ \A p \in f.sent : p \in g.sent \/ p.seq \in Seqs(g.entries)

LEMMA FoldInfoFacts ==
  ASSUME NEW f \in Screen, NEW e \in Epochs
  PROVE  /\ FoldInfo(f, e) \in Screen /\ Keeps(f, FoldInfo(f, e))
         /\ FoldInfo(f, e).entries = f.entries /\ FoldInfo(f, e).sent = f.sent
         /\ FoldInfo(f, e).epoch = IF f.epoch = NoEpoch THEN e ELSE f.epoch
  BY EpochFacts DEF Screen, MaybeEpoch, FoldInfo, Keeps

LEMMA FoldHistoryFacts ==
  ASSUME NEW f \in Screen, NEW e \in Epochs, NEW rows \in SUBSET Row
  PROVE  LET g == FoldHistory(f, e, rows) IN
         /\ g \in Screen /\ Keeps(f, g) /\ g.epoch = f.epoch /\ g.sent \subseteq f.sent
         /\ \A row \in g.entries : row \in f.entries \/ (row \in rows /\ f.epoch \in {NoEpoch, e})
  <1> DEFINE kept == f.entries \union {row \in rows : row.seq \notin Seqs(f.entries)}
             g == [f EXCEPT !.entries = kept, !.sent = {p \in @ : p.seq \notin Seqs(kept)}]
  <1>1. CASE rows # {} /\ f.epoch \notin {NoEpoch, e}
    BY <1>1 DEF FoldHistory, Keeps
  <1>2. CASE ~(rows # {} /\ f.epoch \notin {NoEpoch, e})
    <2>1. FoldHistory(f, e, rows) = g
      BY <1>2 DEF FoldHistory
    <2>2. /\ g \in Screen /\ g.epoch = f.epoch /\ g.entries = kept
          /\ g.sent = {p \in f.sent : p.seq \notin Seqs(kept)}
      BY DEF Screen
    <2> HIDE DEF g
    <2>3. Keeps(f, g) /\ g.sent \subseteq f.sent
      BY <2>2 DEF Keeps
    <2>4. \A row \in g.entries : row \in f.entries \/ (row \in rows /\ f.epoch \in {NoEpoch, e})
      BY <2>2, <1>2
    <2> QED  BY <2>1, <2>2, <2>3, <2>4
  <1> QED  BY <1>1, <1>2

LEMMA FoldEntryFacts ==
  ASSUME NEW f \in Screen, NEW e \in Epochs, NEW row \in Row
  PROVE  LET g == FoldEntry(f, e, row) IN
         /\ g \in Screen /\ Keeps(f, g) /\ g.sent \subseteq f.sent
         /\ g.epoch = IF f.epoch = NoEpoch THEN e ELSE f.epoch
         /\ f.epoch \in {NoEpoch, e} => row.seq \in Seqs(g.entries)
         /\ g.entries \subseteq f.entries \union {row}
         /\ f.epoch \notin {NoEpoch, e} => g = f
  <1>1. CASE f.epoch \notin {NoEpoch, e}
    BY <1>1 DEF FoldEntry, Keeps, Screen, MaybeEpoch
  <1>2. CASE f.epoch \in {NoEpoch, e}
    <2> DEFINE g == FoldAnyEntry(f, e, row)
    <2>1. FoldEntry(f, e, row) = g
      BY <1>2 DEF FoldEntry
    <2>2. /\ g.epoch = (IF f.epoch = NoEpoch THEN e ELSE f.epoch)
          /\ g.entries = (IF row.seq \in Seqs(f.entries) THEN f.entries ELSE f.entries \union {row})
          /\ g.sent = IF row.seq \in Seqs(f.entries) THEN f.sent ELSE {p \in f.sent : p.seq # row.seq}
      BY DEF FoldAnyEntry
    <2>3. g \in Screen
      BY <2>2 DEF Screen, MaybeEpoch, FoldAnyEntry
    <2> HIDE DEF g
    <2>4. row.seq \in Seqs(g.entries) /\ g.entries \subseteq f.entries \union {row}
      BY <2>2 DEF Seqs
    <2>5. Keeps(f, g) /\ g.sent \subseteq f.sent
      BY <2>2, <2>4 DEF Keeps
    <2> QED  BY <1>2, <2>1, <2>2, <2>3, <2>4, <2>5
  <1> QED  BY <1>1, <1>2

LEMMA FoldSentFacts ==
  ASSUME NEW f \in Screen, NEW ack \in Ack, \A p \in f.sent : p.msg # ack.msg
  PROVE  LET g == FoldSent(f, ack) IN
         /\ g \in Screen /\ Keeps(f, g) /\ g.epoch = f.epoch /\ g.entries = f.entries
         /\ g.sent = f.sent \union {ack}
  BY DEF Screen, FoldSent, Keeps

(* Whoever keeps every row keeps what is known, and what is shown. *)
LEMMA KeptIsKnown ==
  ASSUME feed \in Screen, feed' \in Screen, Keeps(feed, feed')
  PROVE  /\ Shown \subseteq Shown'
         /\ \A e, n : KnownIn(e, n) => KnownIn(e, n)'
  <1>1. Seqs(feed.entries) \subseteq Seqs(feed'.entries)
    BY DEF Keeps, Seqs
  <1>2. \A p \in feed.sent : p \in feed'.sent \/ p.seq \in Seqs(feed'.entries)
    BY DEF Keeps
  <1>3. Seqs(feed.sent) \subseteq Seqs(feed'.entries) \union Seqs(feed'.sent)
    BY <1>2 DEF Seqs
  <1> QED  BY <1>1, <1>2, <1>3 DEF Shown, KnownIn

LEMMA SamePageFacts ==
  ASSUME RoomOK
  PROVE  /\ PageRows \subseteq Row /\ Seqs(PageRows) = 1 .. Len(served)
         /\ \A row \in PageRows : RealIn(epoch, row)
  <1>1. \A i \in 1 .. Len(served) :
          /\ [seq |-> i, msg |-> served[i]] \in Row
          /\ RealIn(epoch, [seq |-> i, msg |-> served[i]])
    BY DEF RoomOK, Row, RealIn
  <1>2. PageRows \subseteq Row /\ \A row \in PageRows : RealIn(epoch, row)
    BY <1>1 DEF PageRows
  <1>3. Seqs(PageRows) = 1 .. Len(served)
    <2>1. \A row \in PageRows : row.seq \in 1 .. Len(served)
      BY DEF PageRows
    <2>2. \A i \in 1 .. Len(served) : \E row \in PageRows : row.seq = i
      <3> SUFFICES ASSUME NEW i \in 1 .. Len(served) PROVE \E row \in PageRows : row.seq = i
        OBVIOUS
      <3>1. [seq |-> i, msg |-> served[i]] \in PageRows
        BY DEF PageRows
      <3> QED  BY <3>1
    <2> QED  BY <2>1, <2>2, Zenon DEF Seqs
  <1> QED  BY <1>2, <1>3

-----------------------------------------------------------------------------
(* Steps of the phone that leave the screen alone.                         *)

LEMMA RoomSame ==
  ASSUME RoomOK, UNCHANGED transcriptVars
  PROVE  RoomOK' /\ \A e \in Epochs : \A row : RealIn(e, row)' <=> RealIn(e, row)
  BY DEF RoomOK, transcriptVars, RealIn

LEMMA ScreenSame ==
  ASSUME StreamInv, UNCHANGED <<transcriptVars, feed, past>>
  PROVE  ScreenOK' /\ \A e, n : KnownIn(e, n)' <=> KnownIn(e, n)
  <1>1. /\ \A e \in Epochs : \A row : RealIn(e, row)' <=> RealIn(e, row)
        /\ feed \in Screen
    BY RoomSame DEF StreamInv, Rooms, Typed
  <1>2. ScreenOK'
    BY <1>1 DEF StreamInv, ScreenOK, Screen, MaybeEpoch, Ack
  <1> QED  BY <1>2 DEF KnownIn

(* The session moves on, with its floor, its acks and its wire. *)
LEMMA SessionMoves ==
  ASSUME StreamInv, UNCHANGED <<transcriptVars, conn, feed, read, acks, past>>,
         Typed', SessionOK', stream'.floor = stream.floor, stream'.acked = stream.acked,
         stream'.phase \in {"head", "open"} => stream.phase \in {"head", "open"}
  PROVE  StreamInv' /\ Shown' = Shown
  <1>1. ScreenOK' /\ \A e, n : KnownIn(e, n)' <=> KnownIn(e, n)
    BY ScreenSame
  <1>2. RoomOK' /\ \A e \in Epochs : \A row : RealIn(e, row)' <=> RealIn(e, row)
    BY RoomSame DEF StreamInv, Rooms
  <1>3. Rooms'
    BY <1>2 DEF StreamInv, Rooms, WireOK, ReadOK, AcksOK, Typed, Wire, Ack, transcriptVars
  <1>4. Floors'
    BY <1>1 DEF StreamInv, Floors, FloorOK, AckedOK, HoleOK, transcriptVars
  <1>5. Shown' = Shown
    BY DEF Shown
  <1> QED  BY <1>1, <1>3, <1>4, <1>5 DEF StreamInv

(* The screen's first read moves on. *)
LEMMA ReadMoves ==
  ASSUME StreamInv, UNCHANGED <<transcriptVars, stream, conn, feed, acks, past>>, Typed', ReadOK'
  PROVE  StreamInv' /\ Shown' = Shown
  <1>1. ScreenOK' /\ \A e, n : KnownIn(e, n)' <=> KnownIn(e, n)
    BY ScreenSame
  <1>2. RoomOK' /\ \A e \in Epochs : \A row : RealIn(e, row)' <=> RealIn(e, row)
    BY RoomSame DEF StreamInv, Rooms
  <1>3. Rooms'
    BY <1>2 DEF StreamInv, Rooms, WireOK, ReadOK, AcksOK, Typed, Wire, Ack, transcriptVars
  <1>4. Floors' /\ SessionOK'
    BY <1>1 DEF StreamInv, Floors, FloorOK, AckedOK, HoleOK, SessionOK, transcriptVars
  <1>5. Shown' = Shown
    BY DEF Shown
  <1> QED  BY <1>1, <1>3, <1>4, <1>5 DEF StreamInv

LEMMA SessionFields ==
  ASSUME NEW s \in Session
  PROVE  /\ s.floor \in Nat /\ s.streak \in Nat /\ s.acked \subseteq [seq : Nat, epoch : Epochs]
         /\ LET q == [s EXCEPT !.phase = "stopped", !.streak = @ + 1] IN
              /\ q \in Session /\ q.floor = s.floor /\ q.acked = s.acked /\ q.phase = "stopped"
              /\ q.streak = s.streak + 1
         /\ LET q == [s EXCEPT !.resync = FALSE, !.fresh = TRUE, !.phase = "dial", !.streak = @ + 1,
                               !.info = NoEpoch] IN
              /\ q \in Session /\ q.floor = s.floor /\ q.acked = s.acked /\ q.phase = "dial"
              /\ q.streak = s.streak + 1
  <1> DEFINE q1 == [s EXCEPT !.phase = "stopped", !.streak = @ + 1]
             q2 == [s EXCEPT !.resync = FALSE, !.fresh = TRUE, !.phase = "dial", !.streak = @ + 1,
                             !.info = NoEpoch]
  <1>1. s.floor \in Nat /\ s.streak \in Nat /\ s.acked \subseteq [seq : Nat, epoch : Epochs]
    BY DEF Session
  <1>2. s.streak + 1 \in Nat
    BY <1>1
  <1>3. /\ q1 \in Session /\ q1.floor = s.floor /\ q1.acked = s.acked /\ q1.phase = "stopped"
        /\ q1.streak = s.streak + 1
    BY <1>2 DEF Session
  <1>4. /\ q2 \in Session /\ q2.floor = s.floor /\ q2.acked = s.acked /\ q2.phase = "dial"
        /\ q2.streak = s.streak + 1
    BY <1>2 DEF Session, MaybeEpoch
  <1> QED  BY <1>1, <1>3, <1>4

LEMMA PageRead ==
  ASSUME RoomOK, read \in Reading
  PROVE  LET q == [read EXCEPT !.at = "back", !.epoch = epoch, !.rows = PageRows] IN
         /\ q \in Reading /\ q.at = "back" /\ q.epoch = epoch /\ q.rows = PageRows
         /\ q.info = read.info
  <1>1. PageRows \in SUBSET Row /\ epoch \in Epochs
    BY SamePageFacts DEF RoomOK
  <1> QED  BY <1>1 DEF Reading, MaybeEpoch

LEMMA ReadKeeps ==
  ASSUME StreamInv, ReadInfo \/ ReadPage \/ ReadFails
  PROVE  StreamInv' /\ Shown' = Shown
  <1>1. RoomOK /\ read \in Reading /\ epoch \in Epochs /\ Typed
    BY DEF StreamInv, Rooms, RoomOK, Typed
  <1>2. /\ UNCHANGED <<transcriptVars, stream, conn, feed, news, acks, past>>
        /\ cached' \in MaybeEpoch
    BY <1>1 DEF ReadInfo, ReadPage, ReadFails, ReadRefused, MaybeEpoch, Typed
  <1>3. read' \in Reading
    <2>1. CASE ReadInfo \/ ReadFails \/ (ReadPage /\ ReadRefused)
      BY <2>1, <1>1 DEF ReadInfo, ReadFails, ReadRefused, NewRead, Reading, MaybeEpoch
    <2>2. CASE read' = [read EXCEPT !.at = "back", !.epoch = epoch, !.rows = PageRows]
      BY <2>2, <1>1, PageRead
    <2> QED  BY <2>1, <2>2 DEF ReadPage
  <1>4. ReadOK'
    <2>1. CASE ReadInfo
      BY <2>1, <1>1 DEF ReadInfo, ReadRefused, NewRead, ReadOK, Reading
    <2>2. CASE ReadPage /\ read'.at = "back"
      <3>1. /\ read'.epoch = epoch /\ read'.rows = PageRows /\ read'.info = read.info
            /\ read.at = "page"
        <4>1. ReadRefused => read'.at # "back"
          BY DEF ReadRefused, NewRead
        <4>2. read' = [read EXCEPT !.at = "back", !.epoch = epoch, !.rows = PageRows]
          BY <2>2, <4>1 DEF ReadPage
        <4>3. read.at = "page"
          BY <2>2 DEF ReadPage
        <4> QED  BY <4>2, <4>3, <1>1, PageRead
      <3>2. \A row \in PageRows : RealIn(read.epoch, row)'
        BY <1>1, <1>2, <3>1, SamePageFacts, RoomSame
      <3> QED  BY <1>1, <3>1, <3>2 DEF ReadOK, StreamInv, Rooms
    <2>3. CASE ReadPage /\ read'.at # "back"
      <3>1. ReadRefused
        <4>1. ASSUME read' = [read EXCEPT !.at = "back", !.epoch = epoch, !.rows = PageRows]
              PROVE  read'.at = "back"
          BY <4>1, <1>1, PageRead
        <4> QED  BY <2>3, <4>1 DEF ReadPage
      <3> QED  BY <3>1 DEF ReadRefused, NewRead, ReadOK
    <2>4. CASE ReadFails
      BY <2>4 DEF ReadFails, NewRead, ReadOK
    <2> QED  BY <2>1, <2>2, <2>3, <2>4
  <1>5. Typed'
    BY <1>1, <1>2, <1>3 DEF Typed
  <1> QED  BY <1>2, <1>4, <1>5, ReadMoves

Loose == TimerFires \/ ResyncInfo \/ WireEnds \/ Fails \/ Pause \/ Resume \/ Removed

LEMMA LooseKeeps ==
  ASSUME StreamInv, Loose
  PROVE  StreamInv' /\ Shown' = Shown
  <1>1. Typed /\ SessionOK /\ stream \in Session /\ epoch \in Epochs
    BY DEF StreamInv, Typed, Rooms, RoomOK
  <1>2. /\ UNCHANGED <<transcriptVars, conn, feed, read, news, acks, past>>
        /\ cached' \in MaybeEpoch
    BY <1>1 DEF Loose, TimerFires, ResyncInfo, WireEnds, Fails, Pause, Resume, Removed, MaybeEpoch,
                Typed
  <1>3. /\ stream' \in Session /\ stream'.floor = stream.floor /\ stream'.acked = stream.acked
        /\ stream'.phase \notin {"head", "open"}
        /\ stream'.streak = stream.streak
        /\ stream'.phase = "page" => stream'.info \in Epochs
        /\ stream.phase = "stopped" => stream'.phase = "stopped"
    <2>1. CASE TimerFires \/ Resume
      BY <2>1, <1>1 DEF TimerFires, Resume, Cycles, Session
    <2>2. CASE ResyncInfo
      <3>1. CASE stream' = [stream EXCEPT !.phase = "page", !.info = epoch]
        BY <3>1, <2>2, <1>1 DEF ResyncInfo, Session, MaybeEpoch
      <3>2. CASE stream' = [stream EXCEPT !.phase = "wait"]
        BY <3>2, <2>2, <1>1 DEF ResyncInfo, Session
      <3> QED  BY <2>2, <3>1, <3>2 DEF ResyncInfo
    <2>3. CASE WireEnds \/ Fails \/ Pause \/ Removed
      BY <2>3, <1>1 DEF WireEnds, Fails, Pause, Removed, Session
    <2> QED  BY <2>1, <2>2, <2>3 DEF Loose
  <1>4. Typed' /\ SessionOK'
    BY <1>1, <1>2, <1>3 DEF Typed, SessionOK
  <1> QED  BY <1>2, <1>3, <1>4, SessionMoves

(* `beginResync`, from a dial, a head or a frame. *)
LEMMA BeginsResyncFacts ==
  ASSUME StreamInv, BeginsResync, stream.phase # "stopped"
  PROVE  /\ stream' \in Session /\ cached' \in MaybeEpoch /\ stream'.phase = "wait"
         /\ stream'.floor = stream.floor /\ stream'.acked = stream.acked /\ SessionOK'
  BY DEF StreamInv, Typed, Session, BeginsResync, MaybeEpoch, SessionOK

LEMMA DialKeeps ==
  ASSUME StreamInv, Dial
  PROVE  StreamInv' /\ Shown' = Shown
  <1>1. Typed /\ stream \in Session /\ RoomOK /\ epoch \in Epochs /\ conn \in Wire
    BY DEF StreamInv, Typed, Rooms, RoomOK
  <1>2. CASE BeginsResync /\ UNCHANGED conn
    <2>1. stream.phase # "stopped"
      BY DEF Dial
    <2>2. Typed' /\ SessionOK' /\ UNCHANGED <<transcriptVars, feed, read, acks, past>>
      BY <1>1, <1>2, <2>1, BeginsResyncFacts DEF Dial, Typed
    <2> QED  BY <1>2, <2>1, <2>2, BeginsResyncFacts, SessionMoves
  <1>3. CASE DoorAccepts
    <2>1. /\ conn' = [epoch |-> epoch, next |-> ResumesAt, end |-> Live]
          /\ stream' = [stream EXCEPT !.phase = "head"] /\ stream.phase = "dial"
          /\ UNCHANGED <<transcriptVars, cached, feed, read, news, acks, past>>
      BY <1>3 DEF Dial, DoorAccepts
    <2>2. stream.floor \in Nat /\ Len(served) \in Nat
      BY <1>1 DEF Session, RoomOK
    <2>3. ResumesAt \in Nat \ {0} /\ (stream.floor > 0 => ResumesAt = stream.floor + 1)
      BY <2>2 DEF ResumesAt
    <2>4. /\ stream' \in Session /\ stream'.floor = stream.floor /\ stream'.acked = stream.acked
          /\ SessionOK'
      BY <1>1, <2>1 DEF Session, SessionOK, StreamInv
    <2>5. conn' \in Wire /\ conn'.epoch = epoch /\ conn'.next = ResumesAt /\ conn'.end = Live
      BY <1>1, <2>1, <2>3 DEF Wire
    <2>6. Typed'
      BY <1>1, <2>1, <2>4, <2>5 DEF Typed
    <2>7. ScreenOK' /\ \A e, n : KnownIn(e, n)' <=> KnownIn(e, n)
      BY <2>1, ScreenSame
    <2>8. RoomOK' /\ \A e \in Epochs : \A row : RealIn(e, row)' <=> RealIn(e, row)
      BY <1>1, <2>1, RoomSame
    <2>9. Rooms'
      BY <2>1, <2>5, <2>8, <1>1 DEF StreamInv, Rooms, WireOK, ReadOK, AcksOK, Typed, Ack, transcriptVars,
                                    Epochs
    <2>10. Floors'
      BY <2>1, <2>3, <2>4, <2>5, <2>7 DEF StreamInv, Floors, FloorOK, AckedOK, HoleOK, transcriptVars
    <2>11. Shown' = Shown
      BY <2>1 DEF Shown
    <2> QED  BY <2>4, <2>6, <2>7, <2>9, <2>10, <2>11 DEF StreamInv
  <1> QED  BY <1>2, <1>3 DEF Dial

LEMMA HeadKeeps ==
  ASSUME StreamInv, HeadArrives
  PROVE  StreamInv' /\ Shown' = Shown
  <1>1. Typed /\ SessionOK /\ stream \in Session /\ conn.epoch \in Epochs
    BY DEF StreamInv, Typed, Wire
  <1>2. /\ UNCHANGED <<transcriptVars, conn, feed, read, acks, past>> /\ stream.phase = "head"
    BY DEF HeadArrives
  <1>3. CASE BeginsResync /\ UNCHANGED news
    BY <1>1, <1>2, <1>3, BeginsResyncFacts, SessionMoves DEF Typed
  <1>4. CASE /\ cached' = conn.epoch /\ news' = (news \/ ~stream.fresh)
             /\ stream' = [stream EXCEPT !.phase = "open", !.fresh = FALSE]
    <2>1. /\ stream' \in Session /\ stream'.floor = stream.floor /\ stream'.acked = stream.acked
          /\ SessionOK'
      BY <1>1, <1>2, <1>4 DEF Session, SessionOK
    <2>2. news' \in BOOLEAN /\ cached' \in MaybeEpoch
      BY <1>1, <1>4 DEF Typed, Session, MaybeEpoch
    <2>3. Typed'
      BY <1>1, <1>2, <2>1, <2>2 DEF Typed
    <2> QED  BY <1>2, <2>1, <2>3, SessionMoves
  <1> QED  BY <1>3, <1>4 DEF HeadArrives

-----------------------------------------------------------------------------
(* Steps of the phone that fold something into the screen.                 *)

\* every row of an ack is real and heard, and every entry is an old one or real
Grown ==
  /\ feed' \in Screen /\ past' \in Past
  /\ past'.crossed = past.crossed /\ past.heard \subseteq past'.heard
  /\ feed.epoch # NoEpoch => feed'.epoch = feed.epoch
  /\ \A p \in feed'.sent : p \in feed.sent \/ (RealIn(p.epoch, p)' /\ p.msg \in past'.heard)
  /\ \A row \in feed'.entries :
       row \in feed.entries \/ (feed'.epoch # NoEpoch /\ RealIn(feed'.epoch, row))

LEMMA ScreenGrows ==
  ASSUME StreamInv, UNCHANGED transcriptVars, Grown
  PROVE  ScreenOK'
  <1>1. /\ \A e \in Epochs : \A row : RealIn(e, row)' <=> RealIn(e, row)
        /\ feed \in Screen /\ past \in Past /\ ScreenOK
    BY RoomSame DEF StreamInv, Rooms, Typed
  <1>2. \A p \in feed'.sent : RealIn(p.epoch, p)' /\ p.msg \in past'.heard
    <2> SUFFICES ASSUME NEW p \in feed.sent PROVE RealIn(p.epoch, p)' /\ p.msg \in past'.heard
      BY DEF Grown
    <2>1. p.epoch \in Epochs /\ RealIn(p.epoch, p) /\ p.msg \in past.heard
      BY <1>1 DEF ScreenOK, Screen, Ack
    <2> QED  BY <1>1, <2>1 DEF Grown
  <1>3. feed'.epoch = NoEpoch => feed'.entries = {}
    BY <1>1 DEF Grown, ScreenOK
  <1>4. ASSUME feed'.epoch # NoEpoch, ~past'.crossed, NEW row \in feed'.entries
        PROVE  RealIn(feed.epoch, row)'
    <2>1. feed'.epoch \in Epochs
      BY <1>4 DEF Grown, Screen, MaybeEpoch
    <2>2. RealIn(feed'.epoch, row)
      BY <1>1, <1>4 DEF Grown, ScreenOK
    <2> QED  BY <1>1, <2>1, <2>2 DEF transcriptVars, RealIn
  <1> QED  BY <1>2, <1>3, <1>4 DEF ScreenOK

(* A read is folded beside the session, which stays as it is. *)
LEMMA FeedGrows ==
  ASSUME StreamInv, UNCHANGED <<transcriptVars, stream, conn, past, acks>>, Typed', ReadOK',
         Keeps(feed, feed'), Grown
  PROVE  StreamInv' /\ Shown \subseteq Shown'
  <1>1. RoomOK' /\ \A e \in Epochs : \A row : RealIn(e, row)' <=> RealIn(e, row)
    BY RoomSame DEF StreamInv, Rooms
  <1>2. Rooms'
    BY <1>1 DEF StreamInv, Rooms, WireOK, ReadOK, AcksOK, Typed, Wire, Ack, transcriptVars
  <1>3. Shown \subseteq Shown' /\ \A e, n : KnownIn(e, n) => KnownIn(e, n)'
    BY KeptIsKnown DEF StreamInv, Typed
  <1>4. Floors' /\ SessionOK'
    BY <1>3 DEF StreamInv, Floors, FloorOK, AckedOK, HoleOK, SessionOK, Grown, transcriptVars
  <1>5. ScreenOK'
    BY ScreenGrows
  <1> QED  BY <1>2, <1>3, <1>4, <1>5 DEF StreamInv

LEMMA ReadFoldsKeeps ==
  ASSUME StreamInv, ReadFolds
  PROVE  StreamInv' /\ Shown \subseteq Shown'
  <1> DEFINE f == FoldInfo(feed, read.info)
  <1>1. /\ read.at = "back" /\ read.info \in Epochs /\ read.epoch \in Epochs /\ read.rows \in SUBSET Row
        /\ \A row \in read.rows : RealIn(read.epoch, row)
        /\ Typed /\ feed \in Screen
    BY DEF StreamInv, Rooms, ReadOK, ReadFolds, Typed, Reading
  <1>2. /\ UNCHANGED <<transcriptVars, cached, stream, conn, news, acks, past>>
        /\ feed' = FoldHistory(f, read.epoch, read.rows)
        /\ read' = [NewRead EXCEPT !.at = "done"]
    BY DEF ReadFolds
  <1>3. /\ f \in Screen /\ f.entries = feed.entries /\ f.sent = feed.sent
        /\ f.epoch = IF feed.epoch = NoEpoch THEN read.info ELSE feed.epoch
    BY <1>1, FoldInfoFacts
  <1> HIDE DEF f
  <1>4. /\ feed' \in Screen /\ Keeps(f, feed') /\ feed'.epoch = f.epoch /\ feed'.sent \subseteq f.sent
        /\ \A row \in feed'.entries :
             row \in f.entries \/ (row \in read.rows /\ f.epoch \in {NoEpoch, read.epoch})
    BY <1>1, <1>2, <1>3, FoldHistoryFacts
  <1>5. Keeps(feed, feed')
    BY <1>3, <1>4 DEF Keeps
  <1>6. f.epoch # NoEpoch
    BY <1>1, <1>3, EpochFacts
  <1>7. Grown
    BY <1>1, <1>2, <1>3, <1>4, <1>6 DEF Grown, Typed
  <1>8. read' \in Reading /\ ReadOK'
    BY <1>2 DEF NewRead, Reading, MaybeEpoch, ReadOK
  <1>9. Typed'
    BY <1>1, <1>2, <1>4, <1>8 DEF Typed
  <1> QED  BY <1>2, <1>5, <1>7, <1>8, <1>9, FeedGrows

LEMMA NewsKeeps ==
  ASSUME StreamInv, NewsArrives
  PROVE  StreamInv' /\ Shown \subseteq Shown'
  <1>1. Typed /\ feed \in Screen /\ epoch \in Epochs /\ ReadOK
    BY DEF StreamInv, Typed, Rooms, RoomOK
  <1>2. /\ UNCHANGED <<transcriptVars, stream, conn, read, acks, past>>
        /\ news' = FALSE /\ cached' \in MaybeEpoch
        /\ feed' = FoldInfo(feed, epoch) \/ feed' = feed
    BY <1>1 DEF NewsArrives, MaybeEpoch
  <1>3. /\ feed' \in Screen /\ Keeps(feed, feed') /\ feed'.sent = feed.sent
        /\ feed'.entries = feed.entries /\ (feed.epoch # NoEpoch => feed'.epoch = feed.epoch)
    BY <1>1, <1>2, FoldInfoFacts DEF Keeps
  <1>4. Grown
    BY <1>1, <1>2, <1>3 DEF Grown, Typed
  <1>5. ReadOK' /\ Typed'
    <2>1. \A e \in Epochs : \A row : RealIn(e, row)' <=> RealIn(e, row)
      BY <1>2, RoomSame DEF StreamInv, Rooms
    <2> QED  BY <1>1, <1>2, <1>3, <2>1 DEF ReadOK, Typed
  <1> QED  BY <1>2, <1>3, <1>4, <1>5, FeedGrows

LEMMA AckKeeps ==
  ASSUME StreamInv, NEW ack \in acks, AckArrives(ack)
  PROVE  StreamInv' /\ Shown \subseteq Shown'
  <1>1. /\ Typed /\ feed \in Screen /\ stream \in Session /\ past \in Past
        /\ ack \in Ack /\ RealIn(ack.epoch, ack) /\ ack.msg \notin past.heard
        /\ \A p \in feed.sent : p.msg # ack.msg
    BY DEF StreamInv, Typed, Rooms, AcksOK, ScreenOK
  <1>2. /\ UNCHANGED <<transcriptVars, cached, conn, read, news>>
        /\ acks' = acks \ {ack} /\ stream' = MarkDelivered(stream, ack)
        /\ feed' = FoldSent(feed, ack) /\ past' = [past EXCEPT !.heard = @ \union {ack.msg}]
    BY DEF AckArrives
  <1>3. /\ feed' \in Screen /\ Keeps(feed, feed') /\ feed'.epoch = feed.epoch
        /\ feed'.entries = feed.entries /\ feed'.sent = feed.sent \union {ack}
    BY <1>1, <1>2, FoldSentFacts
  <1>4. /\ past' \in Past /\ past'.heard = past.heard \union {ack.msg} /\ past'.from = past.from
        /\ past'.epoch = past.epoch /\ past'.strayed = past.strayed /\ past'.crossed = past.crossed
    BY <1>1, <1>2 DEF Past, Ack
  <1>5. /\ stream' \in Session /\ stream'.floor = stream.floor /\ stream'.phase = stream.phase
        /\ stream'.streak = stream.streak /\ stream'.info = stream.info
        /\ stream'.acked \subseteq stream.acked \union {[seq |-> ack.seq, epoch |-> ack.epoch]}
    BY <1>1, <1>2 DEF MarkDelivered, Session, Ack
  <1>6. RoomOK' /\ \A e \in Epochs : \A row : RealIn(e, row)' <=> RealIn(e, row)
    BY <1>2, RoomSame DEF StreamInv, Rooms
  <1>7. Typed' /\ SessionOK'
    BY <1>1, <1>2, <1>3, <1>4, <1>5 DEF Typed, SessionOK, StreamInv
  <1>8. Rooms'
    <2>1. AcksOK'
      BY <1>1, <1>2, <1>4, <1>6 DEF StreamInv, Rooms, AcksOK, Typed, Ack
    <2> QED
      BY <1>2, <1>6, <2>1 DEF StreamInv, Rooms, WireOK, ReadOK, Typed, Wire, transcriptVars
  <1>9. ScreenOK'
    <2>1. RealIn(ack.epoch, ack)'
      BY <1>1, <1>6 DEF Ack
    <2>2. Grown
      BY <1>3, <1>4, <2>1 DEF Grown
    <2> QED  BY <1>2, <2>2, ScreenGrows
  <1>10. Shown \subseteq Shown' /\ \A e, n : KnownIn(e, n) => KnownIn(e, n)'
    BY <1>1, <1>3, KeptIsKnown
  <1>11. KnownIn(ack.epoch, ack.seq)'
    BY <1>3 DEF KnownIn
  <1>12. Floors'
    BY <1>2, <1>3, <1>4, <1>5, <1>10, <1>11
      DEF StreamInv, Floors, FloorOK, AckedOK, HoleOK, transcriptVars
  <1> QED  BY <1>7, <1>8, <1>9, <1>10, <1>12 DEF StreamInv

-----------------------------------------------------------------------------
(* Frames.                                                                 *)

\* the entry the next frame carries
Framed == [seq |-> conn.next, msg |-> book[conn.epoch][conn.next]]

LEMMA FramedFacts ==
  ASSUME StreamInv, conn.next <= Reaches
  PROVE  Framed \in Row /\ RealIn(conn.epoch, Framed) /\ Framed.seq = conn.next
  <1>1. conn \in Wire /\ RoomOK /\ WireOK
    BY DEF StreamInv, Typed, Rooms
  <1>2. conn.next \in Nat \ {0} /\ conn.epoch \in Epochs /\ conn.end \in Nat \union {Live}
    BY <1>1 DEF Wire
  <1>3. conn.next \in 1 .. Len(book[conn.epoch])
    BY <1>1, <1>2 DEF Reaches, WireOK, RoomOK, Live
  <1>4. book[conn.epoch][conn.next] \in Messages
    BY <1>1, <1>2, <1>3 DEF RoomOK
  <1> QED  BY <1>2, <1>3, <1>4 DEF Framed, Row, RealIn

LEMMA FloorAtFacts ==
  ASSUME past \in Past, NEW e \in Epochs, NEW seq \in Nat \ {0}
  PROVE  LET p == FloorAt(e, seq) IN
         /\ p \in Past /\ p.epoch = e /\ p.strayed = past.strayed /\ p.crossed = past.crossed
         /\ p.heard = past.heard
         /\ p.from = IF past.epoch = e /\ past.from > 0 THEN past.from ELSE seq
  BY DEF Past, FloorAt, MaybeEpoch

(* Whichever way a frame goes, what is left to see is what it does to the session, the
   screen and the floor. *)
LEMMA FrameFrame ==
  ASSUME StreamInv, FrameArrives, Typed', SessionOK', Grown, Keeps(feed, feed'),
         past'.heard = past.heard, FloorOK', AckedOK', HoleOK'
  PROVE  StreamInv' /\ Shown \subseteq Shown'
  <1>1. /\ UNCHANGED <<transcriptVars, read, news, acks>> /\ conn' = [conn EXCEPT !.next = @ + 1]
        /\ conn \in Wire
    BY DEF FrameArrives, StreamInv, Typed
  <1>2. conn'.epoch = conn.epoch /\ conn'.end = conn.end
    BY <1>1 DEF Wire
  <1>3. RoomOK' /\ \A e \in Epochs : \A row : RealIn(e, row)' <=> RealIn(e, row)
    BY <1>1, RoomSame DEF StreamInv, Rooms
  <1>4. Rooms'
    BY <1>1, <1>2, <1>3
      DEF StreamInv, Rooms, WireOK, ReadOK, AcksOK, Typed, Wire, Ack, transcriptVars
  <1>5. ScreenOK'
    BY <1>1, ScreenGrows
  <1>6. Shown \subseteq Shown'
    BY KeptIsKnown DEF StreamInv, Typed
  <1> QED  BY <1>4, <1>5, <1>6 DEF StreamInv, Floors

(* A frame that resyncs, or that the floor has passed, leaves the screen and the floor. *)
LEMMA FramePasses ==
  ASSUME StreamInv, FrameArrives, UNCHANGED <<feed, past>>,
         \/ BeginsResync
         \/ cached' = conn.epoch /\ conn.next <= stream.floor /\ UNCHANGED stream
  PROVE  StreamInv' /\ Shown \subseteq Shown'
  <1>1. /\ Typed /\ SessionOK /\ stream \in Session /\ conn \in Wire /\ feed \in Screen /\ past \in Past
        /\ stream.phase = "open" /\ UNCHANGED <<transcriptVars, read, news, acks>>
        /\ conn' = [conn EXCEPT !.next = @ + 1]
    BY DEF FrameArrives, StreamInv, Typed
  <1>2. conn' \in Wire /\ conn'.epoch = conn.epoch /\ conn'.next = conn.next + 1
    BY <1>1 DEF Wire
  <1>3. /\ stream' \in Session /\ cached' \in MaybeEpoch /\ SessionOK'
        /\ stream'.floor = stream.floor /\ stream'.acked = stream.acked
        /\ stream'.phase = "wait" \/ (conn.next <= stream.floor /\ UNCHANGED stream)
    <2>1. CASE BeginsResync
      BY <1>1, <2>1, BeginsResyncFacts
    <2>2. CASE cached' = conn.epoch /\ conn.next <= stream.floor /\ UNCHANGED stream
      BY <1>1, <2>2 DEF Wire, MaybeEpoch, SessionOK
    <2> QED  BY <2>1, <2>2
  <1>4. Typed'
    BY <1>1, <1>2, <1>3 DEF Typed
  <1>5. ScreenOK' /\ \A e, n : KnownIn(e, n)' <=> KnownIn(e, n)
    BY <1>1, ScreenSame
  <1>6. FloorOK'
    <2>1. conn.next \in Nat /\ stream.floor \in Nat
      BY <1>1 DEF Wire, Session
    <2> QED  BY <1>1, <1>2, <1>3, <2>1 DEF StreamInv, Floors, FloorOK, transcriptVars
  <1>7. AckedOK' /\ HoleOK'
    BY <1>3, <1>5 DEF StreamInv, Floors, AckedOK, HoleOK
  <1>8. Grown /\ Keeps(feed, feed')
    BY <1>1 DEF Grown, Keeps
  <1> QED  BY <1>3, <1>4, <1>6, <1>7, <1>8, FrameFrame

LEMMA FrameSkips ==
  ASSUME StreamInv, FrameArrives, cached' = conn.epoch, conn.next > stream.floor,
         conn.next \in Seqs(stream.acked), SkipsOwn(conn.epoch, conn.next)
  PROVE  StreamInv' /\ Shown \subseteq Shown'
  <1> DEFINE e == conn.epoch
             seq == conn.next
             next == seq = stream.floor + 1
             mine == {a \in stream.acked : a.seq = seq}
             lost == \E a \in mine : a.epoch # e
             moved == IF next THEN FloorAt(e, seq) ELSE past
  <1>1. /\ Typed /\ SessionOK /\ stream \in Session /\ conn \in Wire /\ feed \in Screen /\ past \in Past
        /\ stream.phase = "open" /\ UNCHANGED <<transcriptVars, read, news, acks, feed>>
        /\ conn' = [conn EXCEPT !.next = @ + 1]
    BY DEF FrameArrives, StreamInv, Typed, SkipsOwn
  <1>2. /\ conn' \in Wire /\ conn'.epoch = e /\ conn'.next = seq + 1
        /\ e \in Epochs /\ seq \in Nat \ {0} /\ stream.floor \in Nat
    BY <1>1 DEF Wire, Session
  <1>3. /\ stream' = IF next THEN [stream EXCEPT !.floor = seq, !.acked = @ \ mine] ELSE stream
        /\ past' = [moved EXCEPT !.strayed = @ \/ lost]
    BY DEF SkipsOwn
  <1>4. /\ stream' \in Session /\ stream'.phase = "open" /\ stream'.acked \subseteq stream.acked
        /\ stream'.floor = (IF next THEN seq ELSE stream.floor) /\ SessionOK'
    BY <1>1, <1>2, <1>3 DEF Session, SessionOK
  <1>5. /\ moved \in Past /\ moved.crossed = past.crossed /\ moved.heard = past.heard
        /\ moved.strayed = past.strayed
        /\ next => /\ moved.epoch = e
                   /\ moved.from = IF past.epoch = e /\ past.from > 0 THEN past.from ELSE seq
    BY <1>1, <1>2, FloorAtFacts
  <1> HIDE DEF moved, next
  <1>6. /\ past' \in Past /\ past'.crossed = past.crossed /\ past'.heard = past.heard
        /\ past'.from = moved.from /\ past'.epoch = moved.epoch
        /\ past'.strayed = (past.strayed \/ lost)
    BY <1>3, <1>5 DEF Past
  <1> HIDE DEF lost
  <1>7. Typed'
    BY <1>1, <1>2, <1>4, <1>6 DEF Typed, MaybeEpoch
  <1>8. Grown /\ Keeps(feed, feed') /\ \A d, n : KnownIn(d, n)' <=> KnownIn(d, n)
    BY <1>1, <1>6 DEF Grown, Keeps, KnownIn
  <1>9. \A a \in stream.acked : KnownIn(a.epoch, a.seq)
    BY DEF StreamInv, Floors, AckedOK
  <1>10. AckedOK'
    BY <1>4, <1>8, <1>9 DEF AckedOK
  <1>11. CASE next
    <2>1. FloorOK'
      <3>1. e <= epoch
        BY DEF StreamInv, Rooms, WireOK
      <3> QED
        BY <1>1, <1>2, <1>4, <1>5, <1>6, <1>11, <3>1 DEF FloorOK, transcriptVars
    <2>2. HoleOK'
      <3> SUFFICES ASSUME past'.from > 0, ~past'.strayed, ~past'.crossed,
                          feed'.epoch \in {NoEpoch, past'.epoch}, NEW n \in past'.from .. stream'.floor
                   PROVE  KnownIn(past'.epoch, n)
        BY <1>8 DEF HoleOK
      <3>1. stream'.floor = seq /\ past'.epoch = e /\ seq = stream.floor + 1
        BY <1>4, <1>5, <1>6, <1>11 DEF next
      <3>2. CASE n = seq
        <4>1. PICK a \in stream.acked : a.seq = seq
          BY DEF Seqs
        <4>2. a.epoch = e
          BY <4>1, <1>6 DEF lost
        <4> QED  BY <1>9, <3>1, <3>2, <4>1, <4>2
      <3>3. CASE n # seq
        <4>1. past.epoch = e /\ past.from > 0 /\ past'.from = past.from
          BY <1>1, <1>2, <1>5, <1>6, <1>11, <3>1, <3>3 DEF Past
        <4>2. n \in past.from .. stream.floor
          BY <1>1, <1>2, <3>1, <3>3, <4>1 DEF Past
        <4> QED
          BY <1>1, <1>6, <3>1, <4>1, <4>2 DEF StreamInv, Floors, HoleOK
      <3> QED  BY <3>2, <3>3
    <2> QED  BY <1>4, <1>6, <1>7, <1>8, <1>10, <2>1, <2>2, FrameFrame
  <1>12. CASE ~next
    <2>1. moved = past /\ stream'.floor = stream.floor
      BY <1>4, <1>12 DEF moved
    <2>2. FloorOK'
      BY <1>1, <1>2, <1>4, <1>6, <1>12, <2>1
        DEF StreamInv, Floors, FloorOK, transcriptVars, next, Past
    <2>3. HoleOK'
      BY <1>1, <1>6, <1>8, <2>1 DEF StreamInv, Floors, HoleOK
    <2> QED  BY <1>4, <1>6, <1>7, <1>8, <1>10, <2>2, <2>3, FrameFrame
  <1> QED  BY <1>11, <1>12

LEMMA FrameDelivers ==
  ASSUME StreamInv, FrameArrives, cached' = conn.epoch, conn.next > stream.floor,
         Delivers(conn.epoch, conn.next)
  PROVE  StreamInv' /\ Shown \subseteq Shown'
  <1> DEFINE e == conn.epoch
             seq == conn.next
  <1>1. /\ Typed /\ SessionOK /\ stream \in Session /\ conn \in Wire /\ feed \in Screen /\ past \in Past
        /\ stream.phase = "open" /\ UNCHANGED <<transcriptVars, read, news, acks>>
        /\ conn' = [conn EXCEPT !.next = @ + 1] /\ conn.next <= Reaches
    BY DEF FrameArrives, StreamInv, Typed
  <1>2. /\ conn' \in Wire /\ conn'.epoch = e /\ conn'.next = seq + 1
        /\ e \in Epochs /\ seq \in Nat \ {0} /\ stream.floor \in Nat
    BY <1>1 DEF Wire, Session
  <1>3. /\ stream' = [stream EXCEPT !.floor = seq, !.streak = 0]
        /\ feed' = FoldEntry(feed, e, Framed) /\ past' = FloorAt(e, seq)
    BY DEF Delivers, Framed
  <1>4. Framed \in Row /\ RealIn(e, Framed) /\ Framed.seq = seq
    BY <1>1, FramedFacts
  <1>5. /\ stream' \in Session /\ stream'.phase = "open" /\ stream'.acked = stream.acked
        /\ stream'.floor = seq /\ SessionOK'
    <2>1. /\ stream' \in Session /\ stream'.phase = "open" /\ stream'.acked = stream.acked
          /\ stream'.floor = seq /\ stream'.streak = 0
      BY <1>1, <1>2, <1>3 DEF Session
    <2> QED  BY <2>1, RoomStreamAssumption DEF SessionOK
  <1>6. /\ past' \in Past /\ past'.epoch = e /\ past'.strayed = past.strayed
        /\ past'.crossed = past.crossed /\ past'.heard = past.heard
        /\ past'.from = IF past.epoch = e /\ past.from > 0 THEN past.from ELSE seq
    BY <1>1, <1>2, <1>3, FloorAtFacts
  <1>7. /\ feed' \in Screen /\ Keeps(feed, feed') /\ feed'.sent \subseteq feed.sent
        /\ feed'.epoch = (IF feed.epoch = NoEpoch THEN e ELSE feed.epoch)
        /\ feed.epoch \in {NoEpoch, e} => seq \in Seqs(feed'.entries)
        /\ feed'.entries \subseteq feed.entries \union {Framed}
        /\ feed.epoch \notin {NoEpoch, e} => feed' = feed
    BY <1>1, <1>2, <1>3, <1>4, FoldEntryFacts
  <1>8. Typed'
    BY <1>1, <1>2, <1>5, <1>6, <1>7 DEF Typed, MaybeEpoch
  <1>9. Grown
    <2>1. e # NoEpoch
      BY <1>2, EpochFacts
    <2>2. CASE feed.epoch \in {NoEpoch, e}
      BY <1>4, <1>6, <1>7, <2>1, <2>2 DEF Grown
    <2>3. CASE feed.epoch \notin {NoEpoch, e}
      BY <1>6, <1>7, <2>3 DEF Grown
    <2> QED  BY <2>2, <2>3
  <1>10. \A d, n : KnownIn(d, n) => KnownIn(d, n)'
    BY <1>1, <1>7, KeptIsKnown
  <1>11. AckedOK'
    BY <1>5, <1>10 DEF StreamInv, Floors, AckedOK
  <1>12. FloorOK'
    <2>1. e <= epoch
      BY DEF StreamInv, Rooms, WireOK
    <2> QED  BY <1>1, <1>2, <1>5, <1>6, <2>1 DEF FloorOK, transcriptVars
  <1>13. HoleOK'
    <2> SUFFICES ASSUME past'.from > 0, ~past'.strayed, ~past'.crossed,
                        feed'.epoch \in {NoEpoch, past'.epoch}, NEW n \in past'.from .. stream'.floor
                 PROVE  KnownIn(past.epoch, n)'
      BY DEF HoleOK
    <2>1. feed.epoch \in {NoEpoch, e}
      BY <1>2, <1>6, <1>7, EpochFacts
    <2>2. CASE n = seq
      BY <1>7, <2>1, <2>2 DEF KnownIn
    <2>3. CASE n # seq
      <3>1. past.epoch = e /\ past.from > 0 /\ past'.from = past.from
        BY <1>1, <1>2, <1>5, <1>6, <2>3 DEF Past
      <3>2. conn.next <= stream.floor + 1
        BY <1>1, <3>1 DEF StreamInv, Floors, FloorOK
      <3>3. n \in past.from .. stream.floor
        BY <1>1, <1>2, <1>5, <2>3, <3>1, <3>2 DEF Past
      <3>4. KnownIn(past.epoch, n)
        BY <1>6, <2>1, <3>1, <3>3 DEF StreamInv, Floors, HoleOK
      <3> QED  BY <1>6, <1>10, <3>1, <3>4
    <2> QED  BY <2>2, <2>3
  <1> QED  BY <1>5, <1>6, <1>7, <1>8, <1>9, <1>11, <1>12, <1>13, FrameFrame

LEMMA FrameKeeps ==
  ASSUME StreamInv, FrameArrives
  PROVE  StreamInv' /\ Shown \subseteq Shown'
  <1>1. Dispatches(conn.epoch, conn.next)
    BY DEF FrameArrives
  <1>2. CASE BeginsResync /\ UNCHANGED <<feed, past>>
    BY <1>2, FramePasses
  <1>3. CASE cached' = conn.epoch /\ conn.next <= stream.floor /\ UNCHANGED <<stream, feed, past>>
    BY <1>3, FramePasses
  <1>4. CASE /\ cached' = conn.epoch /\ conn.next > stream.floor
             /\ conn.next \in Seqs(stream.acked) /\ SkipsOwn(conn.epoch, conn.next)
    BY <1>4, FrameSkips
  <1>5. CASE /\ cached' = conn.epoch /\ conn.next > stream.floor /\ Delivers(conn.epoch, conn.next)
    BY <1>5, FrameDelivers
  <1> QED  BY <1>1, <1>2, <1>3, <1>4, <1>5 DEF Dispatches

-----------------------------------------------------------------------------
(* Steps that rebuild the screen.                                          *)

LEMMA ResyncKeeps ==
  ASSUME StreamInv, ResyncPage
  PROVE  StreamInv' /\ (Shown \subseteq Shown' \/ ResyncPage)
  <1>1. /\ Typed /\ SessionOK /\ stream \in Session /\ past \in Past /\ feed \in Screen
        /\ RoomOK /\ epoch \in Epochs /\ stream.phase = "page" /\ stream.info \in Epochs
        /\ UNCHANGED <<transcriptVars, conn, read, news, acks>> /\ Len(served) \in Nat
    BY DEF StreamInv, Typed, Rooms, RoomOK, ResyncPage, SessionOK
  <1>2. CASE ~GivesUp /\ Resynced /\ UNCHANGED cached
    <2>1. stream' = [SetFloor(stream) EXCEPT !.resync = FALSE, !.fresh = TRUE, !.phase = "dial",
                                            !.streak = @ + 1, !.info = NoEpoch]
      BY <1>2 DEF Resynced
    <2>2. /\ SetFloor(stream) \in Session /\ SetFloor(stream).floor = Len(served)
          /\ SetFloor(stream).acked = {} /\ SetFloor(stream).streak = stream.streak
      BY <1>1 DEF SetFloor, Session
    <2>3. /\ stream' \in Session /\ stream'.floor = Len(served) /\ stream'.acked = {}
          /\ stream'.phase = "dial" /\ stream'.streak = stream.streak + 1
      BY <2>1, <2>2, SessionFields
    <2>4. SessionOK'
      BY <1>1, <1>2, <2>3, RoomStreamAssumption DEF GivesUp, SessionOK, Session
    <2>5. feed' = [epoch |-> stream.info, entries |-> PageRows, sent |-> {}]
      BY <1>2 DEF Resynced, FoldResync
    <2>6. PageRows \subseteq Row /\ Seqs(PageRows) = 1 .. Len(served) /\ \A row \in PageRows : RealIn(epoch, row)
      BY <1>1, SamePageFacts
    <2>7. feed' \in Screen
      BY <1>1, <2>5, <2>6 DEF Screen, MaybeEpoch
    <2>8. /\ past' \in Past /\ past'.epoch = epoch /\ past'.strayed = past.strayed
          /\ past'.crossed = (past.crossed \/ stream.info # epoch) /\ past'.heard = past.heard
          /\ past'.from = IF served = <<>> THEN 0 ELSE 1
      BY <1>1, <1>2 DEF Resynced, Past, MaybeEpoch
    <2>9. Typed'
      BY <1>1, <1>2, <2>3, <2>7, <2>8 DEF Typed
    <2>10. RoomOK' /\ \A e \in Epochs : \A row : RealIn(e, row)' <=> RealIn(e, row)
      BY <1>1, RoomSame
    <2>11. Rooms'
      BY <1>1, <2>8, <2>10 DEF StreamInv, Rooms, WireOK, ReadOK, AcksOK, Typed, Wire, Ack, transcriptVars
    <2>12. ScreenOK'
      <3>1. feed'.epoch = stream.info /\ feed'.entries = PageRows /\ feed'.sent = {}
        BY <2>5
      <3>2. ~past'.crossed => \A row \in PageRows : RealIn(stream.info, row)
        BY <2>6, <2>8
      <3>3. ~past'.crossed => \A row \in feed'.entries : RealIn(feed.epoch, row)'
        BY <1>1, <2>10, <3>1, <3>2 DEF RealIn
      <3> QED  BY <1>1, <3>1, <3>3, EpochFacts DEF ScreenOK
    <2>13. AckedOK' /\ HoleOK'
      <3>1. \A n \in 1 .. Len(served) : KnownIn(past.epoch, n)'
        BY <2>5, <2>6 DEF KnownIn
      <3>2. ASSUME past'.from > 0 PROVE past'.from = 1
        BY <2>8, <3>2
      <3>3. HoleOK'
        BY <2>3, <3>1, <3>2 DEF HoleOK
      <3> QED  BY <2>3, <3>3 DEF AckedOK
    <2>14. FloorOK'
      <3>1. served # <<>> => Len(served) > 0
        BY <1>1 DEF RoomOK
      <3> QED  BY <1>1, <2>3, <2>8, <3>1 DEF FloorOK, transcriptVars, Epochs
    <2> QED  BY <2>4, <2>9, <2>11, <2>12, <2>13, <2>14 DEF StreamInv, Floors
  <1>3. CASE GivesUp /\ stream' = [stream EXCEPT !.phase = "stopped", !.streak = @ + 1] /\ UNCHANGED <<cached, feed, past>>
    <2>1. /\ stream' \in Session /\ stream'.floor = stream.floor /\ stream'.acked = stream.acked
          /\ stream'.phase = "stopped" /\ stream'.streak = stream.streak + 1
      BY <1>1, <1>3, SessionFields
    <2>2. SessionOK' /\ Typed'
      BY <1>1, <1>3, <2>1, RoomStreamAssumption DEF SessionOK, Session, Typed
    <2> QED  BY <1>1, <1>3, <2>1, <2>2, SessionMoves
  <1>4. CASE stream' = [stream EXCEPT !.phase = "wait"] /\ cached' = NoEpoch /\ UNCHANGED <<feed, past>>
    <2>1. /\ stream' \in Session /\ stream'.floor = stream.floor /\ stream'.acked = stream.acked
          /\ stream'.phase = "wait" /\ stream'.streak = stream.streak
      BY <1>1, <1>4 DEF Session
    <2>2. SessionOK' /\ Typed'
      BY <1>1, <1>4, <2>1 DEF SessionOK, Typed, MaybeEpoch
    <2> QED  BY <1>1, <1>4, <2>1, <2>2, SessionMoves
  <1> QED  BY <1>2, <1>3, <1>4 DEF ResyncPage

\* a screen, a read and a session as they are when the room is opened
Anew ==
  /\ RoomOK /\ AcksOK
  /\ stream = NewStream /\ conn = NoWire /\ feed = NewFeed /\ read = NewRead
  /\ cached \in MaybeEpoch /\ news \in BOOLEAN /\ acks \subseteq Ack
  /\ past \in Past /\ past.epoch <= epoch /\ past.from = 0 /\ ~past.crossed

LEMMA AnewHolds == Anew => StreamInv
  <1> SUFFICES ASSUME Anew PROVE StreamInv
    OBVIOUS
  <1>0. RoomOK /\ AcksOK
    BY DEF Anew
  <1>1. /\ stream \in Session /\ stream.phase = "dial" /\ stream.streak = 0 /\ stream.acked = {}
        /\ stream.floor = 0
    BY DEF Anew, NewStream, Session, MaybeEpoch
  <1>2. conn \in Wire /\ conn.epoch = 0 /\ conn.end = 0
    BY EpochFacts DEF Anew, NoWire, Wire
  <1>3. feed \in Screen /\ feed.epoch = NoEpoch /\ feed.entries = {} /\ feed.sent = {}
    BY DEF Anew, NewFeed, Screen, MaybeEpoch
  <1>4. read \in Reading /\ read.at = "info"
    BY DEF Anew, NewRead, Reading, MaybeEpoch
  <1>5. Typed /\ SessionOK
    BY <1>1, <1>2, <1>3, <1>4, RoomStreamAssumption DEF Anew, Typed, SessionOK
  <1>6. Rooms
    <2>1. epoch \in Nat /\ Len(book[0]) \in Nat
      BY <1>0, EpochFacts DEF RoomOK
    <2> QED  BY <1>0, <1>2, <1>4, <2>1 DEF Rooms, WireOK, ReadOK, Live
  <1>7. ScreenOK /\ Floors
    BY <1>1, <1>3 DEF Anew, ScreenOK, Floors, FloorOK, AckedOK, HoleOK
  <1> QED  BY <1>5, <1>6, <1>7 DEF StreamInv

LEMMA AnewAfter == Anew' => StreamInv'
  BY AnewHolds, PTL

LEMMA StreamStarts == StreamInit => StreamInv
  <1> SUFFICES ASSUME StreamInit PROVE StreamInv
    OBVIOUS
  <1>1. epoch = 0 /\ book = [e \in Epochs |-> <<>>] /\ served = <<>>
    BY DEF StreamInit, TranscriptInit
  <1>2. RoomOK
    BY <1>1, EpochFacts DEF RoomOK
  <1>3. past \in Past /\ past.from = 0 /\ ~past.crossed /\ past.epoch = NoEpoch
    BY DEF StreamInit, NoPast, Past, MaybeEpoch
  <1>4. acks = {} /\ cached = NoEpoch /\ news = FALSE
    BY DEF StreamInit
  <1>5. AcksOK /\ past.epoch <= epoch
    BY <1>1, <1>3, <1>4 DEF AcksOK, NoEpoch
  <1>6. Anew
    BY <1>2, <1>3, <1>4, <1>5 DEF StreamInit, Anew, MaybeEpoch
  <1> QED  BY <1>6, AnewHolds

LEMMA ReloadKeeps ==
  ASSUME StreamInv, Reload
  PROVE  StreamInv'
  <1>1. /\ UNCHANGED <<transcriptVars, cached, acks>> /\ Typed /\ RoomOK /\ AcksOK
        /\ past' = [NoPast EXCEPT !.heard = past.heard] /\ past \in Past
    BY DEF Reload, StreamInv, Typed, Rooms
  <1>2. /\ past' \in Past /\ past'.from = 0 /\ ~past'.crossed /\ past'.epoch = NoEpoch
        /\ past'.heard = past.heard
    BY <1>1 DEF NoPast, Past, MaybeEpoch
  <1>3. RoomOK' /\ \A e \in Epochs : \A row : RealIn(e, row)' <=> RealIn(e, row)
    BY <1>1, RoomSame
  <1>4. AcksOK'
    BY <1>1, <1>2, <1>3 DEF AcksOK, Typed, Ack
  <1>5. past'.epoch <= epoch'
    BY <1>2, <1>3, EpochFacts DEF RoomOK, NoEpoch
  <1>6. Anew'
    BY <1>1, <1>2, <1>3, <1>4, <1>5 DEF Reload, Anew, Typed
  <1> QED  BY <1>6, AnewAfter

-----------------------------------------------------------------------------
(* Steps of the room.                                                      *)

(* The room moves under a phone that does nothing: no wire comes to speak of an *)
(* epoch the phone already followed.                                        *)
LEMMA RoomMoves ==
  ASSUME StreamInv, RoomOK', BookGrows, epoch' >= epoch,
         UNCHANGED <<cached, stream, feed, read, news, past>>,
         conn' \in Wire, WireOK', conn'.next = conn.next,
         conn'.epoch = conn.epoch \/ conn'.epoch > epoch,
         acks' \subseteq Ack, AcksOK'
  PROVE  StreamInv' /\ Shown' = Shown
  <1>1. /\ Typed /\ RoomOK /\ ScreenOK /\ ReadOK /\ Floors /\ SessionOK
        /\ \A e \in Epochs : \A row : RealIn(e, row) => RealIn(e, row)'
    BY StaysReal DEF StreamInv, Rooms
  <1>2. \A e, n : KnownIn(e, n)' <=> KnownIn(e, n)
    BY DEF KnownIn
  <1>3. Typed' /\ SessionOK'
    BY <1>1 DEF Typed, SessionOK
  <1>4. ReadOK'
    BY <1>1 DEF ReadOK
  <1>5. ScreenOK'
    BY <1>1 DEF Typed, ScreenOK, Screen, MaybeEpoch, Ack, RealIn
  <1>6. FloorOK'
    <2>1. epoch \in Nat /\ epoch' \in Nat /\ past.epoch <= epoch /\ past.epoch \in Int
      <3>1. epoch \in Nat /\ epoch' \in Nat /\ past.epoch \in MaybeEpoch
        BY <1>1, EpochFacts DEF RoomOK, Typed, Past
      <3>2. MaybeEpoch \subseteq Int
        BY EpochFacts DEF MaybeEpoch, NoEpoch
      <3> QED  BY <1>1, <3>1, <3>2 DEF Floors, FloorOK
    <2>2. past.epoch <= epoch'
      BY <2>1
    <2>3. conn'.epoch = past.epoch => conn.epoch = past.epoch
      BY <2>1, <1>1, EpochFacts DEF Typed, Wire
    <2> QED  BY <1>1, <2>2, <2>3 DEF Floors, FloorOK
  <1>7. AckedOK' /\ HoleOK'
    BY <1>1, <1>2 DEF Floors, AckedOK, HoleOK
  <1>8. Shown' = Shown
    BY DEF Shown
  <1> QED  BY <1>3, <1>4, <1>5, <1>6, <1>7, <1>8 DEF StreamInv, Rooms, Floors

LEMMA LandsKeep ==
  ASSUME StreamInv, NEW m \in Messages, RoomLands(m)
  PROVE  StreamInv' /\ Shown' = Shown
  <1> DEFINE a == [msg |-> m, seq |-> Len(served'), epoch |-> epoch]
  <1>1. /\ Typed /\ RoomOK /\ AcksOK /\ WireOK /\ conn \in Wire /\ epoch \in Epochs
        /\ Land(m) /\ UNCHANGED <<cached, stream, conn, feed, read, news, past>>
    BY DEF StreamInv, Rooms, Typed, RoomOK, RoomLands, phoneVars
  <1>2. /\ RoomOK' /\ BookGrows /\ epoch' = epoch /\ Len(served') = Len(served) + 1
        /\ RealIn(epoch, [seq |-> Len(served), msg |-> m])'
    BY <1>1, LandKeeps
  <1>3. Len(served) \in Nat /\ epoch \in Nat
    BY <1>1, EpochFacts DEF RoomOK
  <1>4. /\ a \in Ack /\ a.msg = m /\ a.epoch = epoch
        /\ a.seq \in 1 .. Len(book'[a.epoch]) /\ book'[a.epoch][a.seq] = m
    <2>1. a \in Ack /\ a.msg = m /\ a.epoch = epoch /\ a.seq = Len(served')
      BY <1>1, <1>2, <1>3 DEF Ack
    <2>2. Len(served') \in 1 .. Len(book'[epoch']) /\ book'[epoch'][Len(served')] = m
      BY <1>2 DEF RealIn
    <2> QED  BY <1>2, <2>1, <2>2
  <1>5. acks' \subseteq Ack /\ AcksOK'
    <2>1. \A b \in acks : b \in Ack /\ RealIn(b.epoch, b)'
      <3> SUFFICES ASSUME NEW b \in acks PROVE b \in Ack /\ RealIn(b.epoch, b)'
        OBVIOUS
      <3>1. b \in Ack /\ RealIn(b.epoch, b) /\ b.epoch \in Epochs
        BY <1>1 DEF Typed, AcksOK, Ack
      <3>2. /\ Len(book[b.epoch]) \in Nat /\ Len(book'[b.epoch]) >= Len(book[b.epoch])
            /\ \A i \in 1 .. Len(book[b.epoch]) : book'[b.epoch][i] = book[b.epoch][i]
        BY <1>1, <1>2, <3>1 DEF RoomOK, BookGrows
      <3> QED  BY <3>1, <3>2 DEF RealIn
    <2>2. CASE m \in Mine \ past.heard
      <3>1. acks' = {ack \in acks : ack.msg # m} \union {a}
        BY <2>2 DEF RoomLands
      <3> HIDE DEF a
      <3>2. \A b \in acks' : b = a \/ (b \in acks /\ b.msg # m)
        BY <3>1
      <3>3. m \notin past'.heard /\ past' = past
        BY <1>1, <2>2
      <3>4. acks' \subseteq Ack /\ \A b \in acks' : RealIn(b.epoch, b)'
        BY <1>4, <2>1, <3>2 DEF RealIn
      <3>5. \A b \in acks' : b.msg \notin past'.heard
        BY <1>1, <1>4, <3>2, <3>3 DEF AcksOK
      <3>6. \A b, c \in acks' : b.msg = c.msg => b = c
        BY <1>1, <1>4, <3>2 DEF AcksOK
      <3> QED  BY <3>4, <3>5, <3>6 DEF AcksOK
    <2>3. CASE m \notin Mine \ past.heard
      <3>1. acks' = acks
        BY <2>3 DEF RoomLands
      <3> QED  BY <1>1, <2>1, <3>1 DEF AcksOK
    <2> QED  BY <2>2, <2>3
  <1>6. WireOK'
    <2>1. conn.epoch \in Epochs /\ Len(book[conn.epoch]) \in Nat
      BY <1>1 DEF Wire, RoomOK
    <2>2. Len(book[conn.epoch]) <= Len(book'[conn.epoch]) /\ Len(book'[conn.epoch]) \in Nat
      BY <1>2, <2>1 DEF BookGrows, RoomOK
    <2>3. conn.end \in Int
      BY <1>1 DEF Wire, Live
    <2> QED  BY <1>1, <1>2, <2>1, <2>2, <2>3 DEF WireOK
  <1> QED  BY <1>1, <1>2, <1>3, <1>5, <1>6, RoomMoves

(* The room comes back, or starts over: the acks on their way are of what was. *)
LEMMA OldAcksHold ==
  ASSUME StreamInv, RoomOK', BookGrows, UNCHANGED <<acks, past>>
  PROVE  acks' \subseteq Ack /\ AcksOK'
  <1>1. /\ Typed /\ RoomOK /\ AcksOK
        /\ \A e \in Epochs : \A row : RealIn(e, row) => RealIn(e, row)'
    BY StaysReal DEF StreamInv, Rooms
  <1> QED  BY <1>1 DEF Typed, AcksOK, Ack

LEMMA RestartsKeep ==
  ASSUME StreamInv, Restarts
  PROVE  StreamInv' /\ Shown' = Shown
  <1>1. /\ RoomOK /\ WireOK /\ conn \in Wire /\ epoch \in Epochs /\ epoch \in Nat
        /\ UNCHANGED <<cached, stream, feed, read, news, acks, past>>
        /\ Len(served) \in Nat /\ Len(served) <= Len(book[epoch])
    BY EpochFacts DEF StreamInv, Rooms, Typed, RoomOK, Restarts
  <1>2. RoomOK' /\ BookGrows /\ epoch' >= epoch
    <2>1. CASE \E n \in 0 .. Len(book[epoch]) : Show(n)
      BY <1>1, <2>1, ShowKeeps
    <2>2. CASE \E ms \in Left : StartOver(ms)
      <3>1. PICK ms \in Seq(Messages) : StartOver(ms)
        BY <1>1, <2>2, LeftTyped
      <3> QED  BY <1>1, <3>1, StartOverKeeps
    <2> QED  BY <2>1, <2>2 DEF Restarts
  <1>3. /\ conn' \in Wire /\ conn'.epoch = conn.epoch /\ conn'.next = conn.next /\ conn'.end # Live
        /\ conn'.end <= Len(book[conn.epoch]) /\ conn'.end \in Nat
    <2>1. CASE conn.end = Live
      <3>1. conn' = [conn EXCEPT !.end = Len(served)] /\ conn.epoch = epoch
        BY <1>1, <2>1 DEF Restarts, WireOK
      <3>2. conn'.end = Len(served) /\ conn' \in Wire /\ conn'.epoch = conn.epoch /\ conn'.next = conn.next
        BY <1>1, <3>1 DEF Wire
      <3> QED  BY <1>1, <3>1, <3>2 DEF Live
    <2>2. CASE conn.end # Live
      <3>1. conn' = conn
        BY <2>2 DEF Restarts
      <3> QED  BY <1>1, <2>2, <3>1 DEF WireOK, Wire, Live
    <2> QED  BY <2>1, <2>2
  <1>4. WireOK'
    <2>1. conn.epoch \in Epochs /\ Len(book[conn.epoch]) \in Nat
      BY <1>1 DEF Wire, RoomOK
    <2>2. Len(book[conn.epoch]) <= Len(book'[conn.epoch]) /\ Len(book'[conn.epoch]) \in Nat
      BY <1>2, <2>1 DEF BookGrows, RoomOK
    <2>3. conn.epoch \in Nat /\ conn.epoch <= epoch /\ epoch' \in Nat
      BY <1>1, <1>2, <2>1, EpochFacts DEF WireOK, RoomOK
    <2>4. conn'.end <= Len(book'[conn'.epoch]) /\ conn'.epoch <= epoch'
      BY <1>1, <1>2, <1>3, <2>1, <2>2, <2>3
    <2> QED  BY <1>3, <2>4 DEF WireOK
  <1>5. acks' \subseteq Ack /\ AcksOK'
    BY <1>1, <1>2, OldAcksHold
  <1> QED  BY <1>1, <1>2, <1>3, <1>4, <1>5, RoomMoves

LEMMA StartsOverKeeps ==
  ASSUME StreamInv, StartsOverLive
  PROVE  StreamInv' /\ Shown' = Shown
  <1>1. /\ RoomOK /\ WireOK /\ conn \in Wire /\ epoch \in Epochs /\ epoch \in Nat
        /\ UNCHANGED <<cached, stream, feed, read, news, acks, past>>
        /\ served \in Seq(Messages) /\ StartOver(served)
    BY EpochFacts DEF StreamInv, Rooms, Typed, RoomOK, StartsOverLive
  <1>2. RoomOK' /\ BookGrows /\ epoch' = epoch + 1 /\ epoch' \in Epochs
    BY <1>1, StartOverKeeps
  <1>3. acks' \subseteq Ack /\ AcksOK'
    BY <1>1, <1>2, OldAcksHold
  <1>4. /\ conn' \in Wire /\ WireOK' /\ conn'.next = conn.next
        /\ conn'.epoch = conn.epoch \/ conn'.epoch > epoch
    <2>1. CASE conn.end = Live
      <3>1. conn' = [conn EXCEPT !.epoch = epoch']
        BY <2>1 DEF StartsOverLive
      <3>2. /\ conn' \in Wire /\ conn'.epoch = epoch' /\ conn'.next = conn.next /\ conn'.end = Live
        BY <1>1, <1>2, <2>1, <3>1 DEF Wire
      <3> QED  BY <1>1, <1>2, <3>2 DEF WireOK
    <2>2. CASE conn.end # Live
      <3>1. conn' = conn
        BY <2>2 DEF StartsOverLive
      <3>2. conn.epoch \in Epochs /\ Len(book[conn.epoch]) \in Nat /\ conn.epoch \in Nat
        <4>1. conn.epoch \in Epochs /\ book \in [Epochs -> Seq(Messages)]
          BY <1>1 DEF Wire, RoomOK
        <4>2. Len(book[conn.epoch]) \in Nat
          BY <4>1
        <4> QED  BY <4>1, <4>2, EpochFacts
      <3>3. Len(book[conn.epoch]) <= Len(book'[conn.epoch]) /\ Len(book'[conn.epoch]) \in Nat
        BY <1>2, <3>2 DEF BookGrows, RoomOK
      <3>4. conn.end \in Nat /\ conn.end <= Len(book[conn.epoch]) /\ conn.epoch <= epoch
        BY <1>1, <2>2 DEF WireOK, Wire
      <3>5. conn.end <= Len(book'[conn.epoch]) /\ conn.epoch <= epoch'
        BY <1>1, <1>2, <3>2, <3>3, <3>4
      <3> QED  BY <1>1, <2>2, <3>1, <3>5 DEF WireOK
    <2> QED  BY <2>1, <2>2
  <1> QED  BY <1>1, <1>2, <1>3, <1>4, RoomMoves

-----------------------------------------------------------------------------
(* Every step.                                                             *)

LEMMA StillKeeps ==
  ASSUME StreamInv, UNCHANGED streamVars
  PROVE  StreamInv' /\ Shown' = Shown
  <1>1. /\ UNCHANGED <<transcriptVars, cached, stream, conn, feed, read, news, acks, past>>
    BY DEF streamVars, phoneVars
  <1>2. Typed' /\ SessionOK'
    BY <1>1 DEF StreamInv, Typed, SessionOK
  <1> QED  BY <1>1, <1>2, SessionMoves

LEMMA StreamStep ==
  ASSUME StreamInv, [StreamNext]_streamVars
  PROVE  StreamInv' /\ (Shown \subseteq Shown' \/ ResyncPage \/ Reload)
  <1>1. CASE RoomNext
    BY <1>1, LandsKeep, RestartsKeep, StartsOverKeeps DEF RoomNext
  <1>2. CASE ReadInfo \/ ReadPage \/ ReadFails
    BY <1>2, ReadKeeps
  <1>3. CASE Loose
    BY <1>3, LooseKeeps
  <1>4. CASE ReadFolds
    BY <1>4, ReadFoldsKeeps
  <1>5. CASE ResyncPage
    BY <1>5, ResyncKeeps
  <1>6. CASE Dial \/ HeadArrives
    BY <1>6, DialKeeps, HeadKeeps
  <1>7. CASE FrameArrives
    BY <1>7, FrameKeeps
  <1>8. CASE NewsArrives
    BY <1>8, NewsKeeps
  <1>9. CASE \E ack \in acks : AckArrives(ack)
    BY <1>9, AckKeeps
  <1>10. CASE Reload
    BY <1>10, ReloadKeeps
  <1>11. CASE UNCHANGED streamVars
    BY <1>11, StillKeeps
  <1> QED  BY <1>1, <1>2, <1>3, <1>4, <1>5, <1>6, <1>7, <1>8, <1>9, <1>10, <1>11
           DEF StreamNext, PhoneNext, SessionNext, Loose

-----------------------------------------------------------------------------
(* The theorems.                                                           *)

\* Whatever the room, the wires and the user do, the phone's state fits the room's book.
THEOREM StreamInvariance == StreamSpec => []StreamInv
  <1>1. StreamInv /\ [StreamNext]_streamVars => StreamInv'
    BY StreamStep
  <1> QED  BY <1>1, StreamStarts, PTL DEF StreamSpec

\* The state keeps its types, and a session that gave up (MAX_CONSECUTIVE_RESYNC rounds
\* in a row, roomStream.ts) is stopped.
THEOREM StreamTypes == StreamSpec => []StreamTypeOK
  <1>1. StreamInv => StreamTypeOK
    <2> SUFFICES ASSUME StreamInv PROVE StreamTypeOK
      OBVIOUS
    <2>1. /\ cached \in MaybeEpoch /\ stream \in Session /\ conn \in Wire /\ feed \in Screen
          /\ read \in Reading /\ news \in BOOLEAN /\ SessionOK
      BY DEF StreamInv, Typed
    <2>2. stream.streak \in 0 .. MaxResync
      BY <2>1, RoomStreamAssumption DEF Session, SessionOK
    <2> QED  BY <2>1, <2>2 DEF StreamTypeOK, MaybeEpoch, Session, Wire, Screen, Reading, SessionOK
  <1> QED  BY <1>1, StreamInvariance, PTL

\* What the screen shows under a number is what the room served there (roomFeed.ts folds
\* nothing across epochs), with the two exceptions RowsAreReal names.
THEOREM RowsShownAreReal == StreamSpec => []RowsAreReal
  <1>1. StreamInv => RowsAreReal
    <2> SUFFICES ASSUME StreamInv, feed.epoch # NoEpoch, ~past.crossed
                 PROVE  /\ \A row \in feed.entries : Real(row)
                        /\ \A row \in feed.sent : row.epoch = feed.epoch => Real(row)
      BY DEF RowsAreReal
    <2>1. feed.epoch \in Epochs /\ ScreenOK /\ Len(book[feed.epoch]) \in Nat
      BY DEF StreamInv, Typed, Screen, MaybeEpoch, Rooms, RoomOK
    <2> QED  BY <2>1 DEF ScreenOK, RealIn, Real
  <1> QED  BY <1>1, StreamInvariance, PTL

\* The resume cursor of roomStream.ts never leaves out an entry the screen has not got.
THEOREM FloorLeavesNoHole == StreamSpec => []NoHole
  <1>1. StreamInv => NoHole
    <2> SUFFICES ASSUME StreamInv, feed.epoch = past.epoch, past.from > 0, ~past.strayed, ~past.crossed,
                        NEW n \in past.from .. stream.floor
                 PROVE  n \in Told
      BY DEF NoHole
    <2>1. KnownIn(past.epoch, n)
      BY DEF StreamInv, Floors, HoleOK
    <2> QED  BY <2>1 DEF KnownIn, Told, Seqs
  <1> QED  BY <1>1, StreamInvariance, PTL

\* No step but a rebuild from a page and a screen opened anew takes a row away.
THEOREM RowsStayShown == StreamSpec => RowsStay
  <1>1. StreamInv /\ [StreamNext]_streamVars =>
          [Shown \subseteq Shown' \/ ResyncPage \/ Reload]_streamVars
    BY StreamStep
  <1> QED  BY <1>1, StreamInvariance, PTL DEF StreamSpec, RowsStay
=============================================================================
