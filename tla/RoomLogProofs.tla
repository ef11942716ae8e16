--------------------------- MODULE RoomLogProofs ---------------------------
(***************************************************************************)
(* RoomLog keeps the promise of Transcript, for all messages and any       *)
(* number of epochs and faults.                                            *)
(*                                                                         *)
(* The invariant ties the file to what was served from it: the lines of    *)
(* the epoch's book are there, each as it was served or damaged, and at    *)
(* most one line more, of which nobody was told. A room that writes serves *)
(* the whole book and has nothing else on disk; a room that serves less    *)
(* than the book has a damaged line to show for it.                        *)
(***************************************************************************)
EXTENDS RoomLog, SequenceTheorems, TLAPS

Served == book[epoch]
LineRecords == [msg : Messages \union {Nothing}, seq : Nat]
Unrepeated(ms) == \A i, j \in 1 .. Len(ms) : ms[i] = ms[j] => i = j
Begins(ms, whole) == Len(ms) <= Len(whole) /\ \A i \in 1 .. Len(ms) : ms[i] = whole[i]
Record(ms, i) == [msg |-> ms[i], seq |-> i]

\* what the variables range over
LogTypeOK ==
  /\ lines \in Seq(LineRecords) /\ tail \in Seq(LineRecords) /\ Len(tail) <= 1
  /\ stored \in Epochs /\ running \in BOOLEAN /\ writable \in BOOLEAN
  /\ messages \in Seq(Messages) /\ epoch \in Epochs
  /\ book \in [Epochs -> Seq(Messages)] /\ faults \in Nat

\* a file that holds a book, perhaps damaged, and at most a line more
HoldsBook(ls, tl, whole) ==
  /\ Len(whole) <= Len(ls) /\ Len(ls) + Len(tl) <= Len(whole) + 1
  /\ \A i \in 1 .. Len(whole) : ls[i] \in {Garbage, Record(whole, i)}

Damaged(ls, whole) == \E i \in 1 .. Len(whole) : ls[i] = Garbage

LogInv ==
  /\ LogTypeOK
  /\ stored = epoch
  /\ \A e \in Epochs : e > epoch => book[e] = <<>>
  /\ Unrepeated(Served)
  /\ Begins(messages, Served)
  /\ HoldsBook(lines, tail, Served)
  /\ messages # Served => Damaged(lines, Served)
  /\ running /\ writable => messages = Served /\ Len(lines) = Len(Served) /\ tail = <<>>

-----------------------------------------------------------------------------
(* Reading a file.                                                         *)

(* What a line must be to follow the lines before it in a file. *)
LEMMA FitsInPlace ==
  ASSUME NEW ls \in Seq(LineRecords), NEW n \in 0 .. Len(ls), NEW line \in LineRecords
  PROVE  Fits(line, SubSeq(ls, 1, n)) <=>
           /\ line.msg # Nothing /\ line.seq = n + 1
           /\ \A j \in 1 .. n : ls[j].msg # line.msg
  <1>1. Len(SubSeq(ls, 1, n)) = n /\ \A j \in 1 .. n : SubSeq(ls, 1, n)[j] = ls[j]
    OBVIOUS
  <1> QED  BY <1>1 DEF Fits

(* The accepted prefix numbers its entries from one, names each message once, and *)
(* ends where the next line does not fit.                                  *)
LEMMA AcceptedPrefix ==
  ASSUME NEW ls \in Seq(LineRecords), NEW n \in Accepted(ls)
  PROVE  /\ n \in 0 .. Len(ls)
         /\ \A i \in 1 .. n : ls[i].msg \in Messages /\ ls[i].seq = i
         /\ \A i, j \in 1 .. n : ls[i].msg = ls[j].msg => i = j
         /\ n < Len(ls) =>
              ~ /\ ls[n + 1].msg # Nothing /\ ls[n + 1].seq = n + 1
                /\ \A j \in 1 .. n : ls[j].msg # ls[n + 1].msg
  <1>1. n \in 0 .. Len(ls)
    BY DEF Accepted
  <1>2. \A i \in 1 .. n : /\ ls[i].msg \in Messages /\ ls[i].seq = i
                          /\ \A j \in 1 .. i - 1 : ls[j].msg # ls[i].msg
    <2>1. TAKE i \in 1 .. n
    <2>2. Fits(ls[i], SubSeq(ls, 1, i - 1))
      BY DEF Accepted
    <2>3. i - 1 \in 0 .. Len(ls) /\ ls[i] \in LineRecords
      BY <1>1
    <2>4. /\ ls[i].msg # Nothing /\ ls[i].seq = (i - 1) + 1
          /\ \A j \in 1 .. i - 1 : ls[j].msg # ls[i].msg
      BY <2>2, <2>3, FitsInPlace
    <2> QED  BY <1>1, <2>3, <2>4 DEF LineRecords
  <1>3. \A i, j \in 1 .. n : ls[i].msg = ls[j].msg => i = j
    <2>1. ASSUME NEW i \in 1 .. n, NEW j \in 1 .. n, ls[i].msg = ls[j].msg
          PROVE  i = j
      <3>1. ~(i < j)
        BY <1>1, <1>2, <2>1
      <3>2. ~(j < i)
        BY <1>1, <1>2, <2>1
      <3> QED  BY <1>1, <3>1, <3>2
    <2> QED  BY <2>1
  <1>4. ASSUME n < Len(ls)
        PROVE  ~ /\ ls[n + 1].msg # Nothing /\ ls[n + 1].seq = n + 1
                 /\ \A j \in 1 .. n : ls[j].msg # ls[n + 1].msg
    <2>1. ~Fits(ls[n + 1], SubSeq(ls, 1, n))
      BY <1>4 DEF Accepted
    <2>2. ls[n + 1] \in LineRecords
      BY <1>1, <1>4
    <2> QED  BY <1>1, <2>1, <2>2, FitsInPlace
  <1> QED  BY <1>1, <1>2, <1>3, <1>4

(* What is read of a file that holds a book agrees with the book, and falls short *)
(* of it only at a damaged line.                                           *)
LEMMA PrefixOfBook ==
  ASSUME NEW ls \in Seq(LineRecords), NEW tl \in Seq(LineRecords),
         NEW whole \in Seq(Messages), Unrepeated(whole), HoldsBook(ls, tl, whole),
         NEW n \in Accepted(ls)
  PROVE  /\ n <= Len(whole) + 1
         /\ \A i \in 1 .. n : i <= Len(whole) => ls[i] = Record(whole, i)
         /\ n < Len(whole) => n < Len(ls) /\ ls[n + 1] = Garbage
         /\ n >= Len(whole) => ~Damaged(ls, whole)
  <1> USE RoomLogAssumption
  <1>1. /\ n \in 0 .. Len(ls) /\ Len(ls) \in Nat /\ Len(tl) \in Nat /\ Len(whole) \in Nat
        /\ \A i \in 1 .. n : ls[i].msg \in Messages
        /\ Len(whole) <= Len(ls) /\ Len(ls) <= Len(whole) + 1
    BY AcceptedPrefix DEF HoldsBook
  <1>2. \A i \in 1 .. n : i <= Len(whole) => ls[i] = Record(whole, i)
    <2>1. TAKE i \in 1 .. n
    <2>2. HAVE i <= Len(whole)
    <2>3. ls[i] \in {Garbage, Record(whole, i)} /\ ls[i].msg \in Messages
      BY <1>1, <2>2 DEF HoldsBook
    <2>4. ls[i] # Garbage
      BY <2>3 DEF Garbage
    <2> QED  BY <2>3, <2>4
  <1>3. ASSUME n < Len(whole)
        PROVE  n < Len(ls) /\ ls[n + 1] = Garbage
    <2>1. n < Len(ls) /\ n + 1 \in 1 .. Len(whole)
      BY <1>1, <1>3
    <2>2. ls[n + 1] \in {Garbage, Record(whole, n + 1)}
      BY <2>1 DEF HoldsBook
    <2>3. ASSUME ls[n + 1] = Record(whole, n + 1)
          PROVE  FALSE
      <3>1. ls[n + 1].msg = whole[n + 1] /\ ls[n + 1].seq = n + 1
        BY <2>3 DEF Record
      <3>2. whole[n + 1] # Nothing
        BY <2>1
      <3>3. ASSUME NEW j \in 1 .. n
            PROVE  ls[j].msg # ls[n + 1].msg
        <4>1. j \in 1 .. Len(whole) /\ j # n + 1 /\ ls[j] = Record(whole, j)
          BY <1>1, <1>2, <1>3
        <4>2. ls[j].msg = whole[j] /\ whole[j] # whole[n + 1]
          BY <2>1, <4>1 DEF Record, Unrepeated
        <4> QED  BY <3>1, <4>2
      <3> QED  BY <2>1, <3>1, <3>2, <3>3, AcceptedPrefix
    <2> QED  BY <2>1, <2>2, <2>3
  <1>4. ASSUME n >= Len(whole), NEW i \in 1 .. Len(whole), ls[i] = Garbage
        PROVE  FALSE
    <2>1. ls[i].msg \in Messages
      BY <1>1, <1>4
    <2> QED  BY <1>4, <2>1 DEF Garbage
  <1> QED  BY <1>1, <1>2, <1>3, <1>4 DEF Damaged

(* What an opened transcript is, against the book its file held: *)
Agrees(ms, whole) ==
  /\ ms \in Seq(Messages) /\ Unrepeated(ms) /\ Len(ms) <= Len(whole) + 1
  /\ \A i \in 1 .. Len(ms) : i <= Len(whole) => ms[i] = whole[i]

Files(ls, ms) ==
  /\ Len(ms) <= Len(ls)
  /\ \A i \in 1 .. Len(ms) : ls[i] = Record(ms, i)

SoundParts(ms, kept, rest, w, what, ls, whole) ==
  /\ kept \in Seq(LineRecords) /\ rest \in Seq(LineRecords) /\ Len(rest) <= 1
  /\ w \in BOOLEAN
  /\ Agrees(ms, whole) /\ Files(kept, ms)
  /\ w => rest = <<>> /\ Len(kept) = Len(ms)
  /\ what = "middle" => w
  /\ what # "middle" =>
       /\ HoldsBook(kept, rest, whole)
       /\ w => Len(whole) <= Len(ms)
       /\ Len(ms) < Len(whole) => Damaged(kept, whole)
       /\ Len(ms) > Len(whole) => ~Damaged(ls, whole)

Sound(o, ls, whole) ==
  SoundParts(o.messages, o.lines, o.tail, o.writable, o.recovery, ls, whole)

(* The entries read are the accepted lines. *)
LEMMA ReadSound ==
  ASSUME NEW ls \in Seq(LineRecords), NEW tl \in Seq(LineRecords),
         NEW whole \in Seq(Messages), Unrepeated(whole), HoldsBook(ls, tl, whole),
         NEW n \in Accepted(ls)
  PROVE  /\ Len(Read(ls, n)) = n /\ \A i \in 1 .. n : Read(ls, n)[i] = ls[i].msg
         /\ Agrees(Read(ls, n), whole) /\ Files(ls, Read(ls, n))
  <1>1. /\ n \in 0 .. Len(ls) /\ n <= Len(whole) + 1
        /\ \A i \in 1 .. n : ls[i].msg \in Messages /\ ls[i].seq = i
        /\ \A i, j \in 1 .. n : ls[i].msg = ls[j].msg => i = j
        /\ \A i \in 1 .. n : i <= Len(whole) => ls[i] = Record(whole, i)
    BY AcceptedPrefix, PrefixOfBook
  <1>2. Read(ls, n) \in Seq(Messages) /\ Len(Read(ls, n)) = n
        /\ \A i \in 1 .. n : Read(ls, n)[i] = ls[i].msg
    BY <1>1 DEF Read
  <1>3. \A i \in 1 .. n : i <= Len(whole) => Read(ls, n)[i] = whole[i]
    <2>1. TAKE i \in 1 .. n
    <2>2. HAVE i <= Len(whole)
    <2>3. ls[i] = Record(whole, i)
      BY <1>1, <2>2
    <2> QED  BY <1>2, <2>3 DEF Record
  <1>4. Unrepeated(Read(ls, n))
    BY <1>1, <1>2 DEF Unrepeated
  <1>5. Agrees(Read(ls, n), whole)
    BY <1>1, <1>2, <1>3, <1>4 DEF Agrees
  <1>6. \A i \in 1 .. n : ls[i] = Record(Read(ls, n), i)
    <2>1. TAKE i \in 1 .. n
    <2>2. ls[i] \in LineRecords /\ ls[i].msg = Read(ls, n)[i] /\ ls[i].seq = i
      BY <1>1, <1>2
    <2> QED  BY <2>2 DEF LineRecords, Record
  <1> QED  BY <1>1, <1>2, <1>5, <1>6 DEF Files

(* Opening is sound, whatever it finds of a file that holds a book. *)
LEMMA OpenedSound ==
  ASSUME NEW ls \in Seq(LineRecords), NEW tl \in Seq(LineRecords), Len(tl) <= 1,
         NEW whole \in Seq(Messages), Unrepeated(whole), HoldsBook(ls, tl, whole),
         NEW o \in Opened(ls, tl)
  PROVE  Sound(o, ls, whole)
  <1>1. PICK n \in Accepted(ls) : o \in FromPrefix(ls, tl, n)
    BY DEF Opened
  <1> DEFINE ms == Read(ls, n)
  <1>2. /\ n \in 0 .. Len(ls) /\ n <= Len(whole) + 1
        /\ Len(ls) \in Nat /\ Len(tl) \in Nat /\ Len(whole) \in Nat
        /\ \A i \in 1 .. n : ls[i].msg \in Messages
        /\ n < Len(whole) => Damaged(ls, whole)
        /\ n >= Len(whole) => ~Damaged(ls, whole)
        /\ Len(whole) <= Len(ls) /\ Len(ls) + Len(tl) <= Len(whole) + 1
    BY AcceptedPrefix, PrefixOfBook DEF HoldsBook, Damaged
  <1>3. /\ Len(ms) = n /\ \A i \in 1 .. n : ms[i] = ls[i].msg
        /\ Agrees(ms, whole) /\ Files(ls, ms) /\ ms \in Seq(Messages)
    BY ReadSound DEF Agrees
  <1> HIDE DEF ms
  <1>4. SubSeq(ls, 1, n) \in Seq(LineRecords) /\ Len(SubSeq(ls, 1, n)) = n
        /\ \A i \in 1 .. n : SubSeq(ls, 1, n)[i] = ls[i]
    BY <1>2
  <1>5. Files(SubSeq(ls, 1, n), ms)
    BY <1>3, <1>4 DEF Files
  <1>6. CASE o = Found(ls, tl, n, FALSE)
    <2>1. SoundParts(ms, ls, tl, FALSE, "none", ls, whole)
      BY <1>2, <1>3 DEF SoundParts
    <2> QED  BY <1>6, <2>1 DEF Found, Sound, ms
  <1>7. CASE o = Found(ls, tl, n, TRUE) /\ n = Len(ls) /\ tl = <<>>
    <2>1. SoundParts(ms, ls, tl, TRUE, "none", ls, whole)
      BY <1>2, <1>3, <1>7 DEF SoundParts
    <2> QED  BY <1>7, <2>1 DEF Found, Sound, ms
  <1>8. CASE o = Cut(ls, n, "middle")
    <2>1. SoundParts(ms, SubSeq(ls, 1, n), <<>>, TRUE, "middle", ls, whole)
      BY <1>3, <1>4, <1>5 DEF SoundParts
    <2> QED  BY <1>8, <2>1 DEF Cut, Sound, ms
  <1>9. CASE o = Cut(ls, n, "tail") /\ n = Len(ls)
    <2>1. HoldsBook(SubSeq(ls, 1, n), <<>>, whole)
      <3>1. \A i \in 1 .. Len(whole) : ls[i] \in {Garbage, Record(whole, i)}
        BY DEF HoldsBook
      <3> QED  BY <1>2, <1>4, <1>9, <3>1 DEF HoldsBook
    <2>2. SoundParts(ms, SubSeq(ls, 1, n), <<>>, TRUE, "tail", ls, whole)
      BY <1>2, <1>3, <1>4, <1>5, <1>9, <2>1 DEF SoundParts
    <2> QED  BY <1>9, <2>2 DEF Cut, Sound, ms
  <1>10. CASE o = Mended(ls, tl, n) /\ n = Len(ls) /\ tl # <<>> /\ Fits(tl[1], ls)
    <2> DEFINE more == Append(ms, tl[1].msg)
               mended == Append(ls, tl[1])
    <2>1. Len(tl) = 1 /\ n = Len(whole) /\ tl[1] \in LineRecords
      <3> DEFINE k == Len(tl)
      <3>1. k \in Nat /\ k # 0 /\ k <= 1
        BY <1>10, EmptySeq
      <3> HIDE DEF k
      <3>2. k = 1
        BY <3>1
      <3> QED  BY <1>2, <1>10, <3>2 DEF k
    <2>2. /\ tl[1].msg \in Messages /\ tl[1].seq = n + 1
          /\ \A j \in 1 .. n : ls[j].msg # tl[1].msg
      BY <1>10, <2>1 DEF Fits, LineRecords
    <2>3. /\ more \in Seq(Messages) /\ Len(more) = n + 1 /\ more[n + 1] = tl[1].msg
          /\ \A i \in 1 .. n : more[i] = ms[i]
      BY <1>2, <1>3, <2>2
    <2>4. /\ mended \in Seq(LineRecords) /\ Len(mended) = n + 1 /\ mended[n + 1] = tl[1]
          /\ \A i \in 1 .. n : mended[i] = ls[i]
      <3>1. n = Len(ls)
        BY <1>10
      <3> QED  BY <2>1, <3>1, AppendProperties
    <2> HIDE DEF more, mended
    <2>5. Agrees(more, whole)
      <3>1. /\ \A i, j \in 1 .. n : ms[i] = ms[j] => i = j
            /\ \A i \in 1 .. n : i <= Len(whole) => ms[i] = whole[i]
        BY <1>3 DEF Agrees, Unrepeated
      <3>2. \A i \in 1 .. n : more[i] # more[n + 1]
        <4>1. TAKE i \in 1 .. n
        <4>2. more[i] = ls[i].msg /\ ls[i].msg # tl[1].msg
          BY <1>3, <2>2, <2>3
        <4> QED  BY <2>3, <4>2
      <3>3. Unrepeated(more)
        BY <1>2, <2>3, <3>1, <3>2 DEF Unrepeated
      <3> QED  BY <1>2, <2>1, <2>3, <3>1, <3>3 DEF Agrees
    <2>6. Files(mended, more)
      <3>1. \A i \in 1 .. n : ls[i] = Record(ms, i)
        BY <1>3 DEF Files
      <3>2. \A i \in 1 .. n : mended[i] = Record(more, i)
        BY <2>3, <2>4, <3>1 DEF Record
      <3>3. mended[n + 1] = Record(more, n + 1)
        BY <2>1, <2>2, <2>3, <2>4 DEF LineRecords, Record
      <3> QED  BY <1>2, <2>3, <2>4, <3>2, <3>3 DEF Files
    <2>7. HoldsBook(mended, <<>>, whole)
      <3>1. \A i \in 1 .. Len(whole) : ls[i] \in {Garbage, Record(whole, i)}
        BY DEF HoldsBook
      <3> QED  BY <1>2, <2>1, <2>4, <3>1 DEF HoldsBook
    <2>8. SoundParts(more, mended, <<>>, TRUE, "none", ls, whole)
      BY <1>2, <2>1, <2>3, <2>4, <2>5, <2>6, <2>7 DEF SoundParts
    <2> QED  BY <1>10, <2>8 DEF Mended, Sound, ms, more, mended
  <1>11. \/ o = Found(ls, tl, n, FALSE)
         \/ o = Found(ls, tl, n, TRUE) /\ n = Len(ls) /\ tl = <<>>
         \/ o = Cut(ls, n, "middle")
         \/ o = Cut(ls, n, "tail") /\ n = Len(ls)
         \/ o = Mended(ls, tl, n) /\ n = Len(ls) /\ tl # <<>> /\ Fits(tl[1], ls)
    <2>1. CASE n < Len(ls)
      BY <1>1, <2>1 DEF FromPrefix
    <2>2. CASE n = Len(ls) /\ tl = <<>>
      BY <1>1, <1>2, <2>2 DEF FromPrefix
    <2>3. CASE n = Len(ls) /\ tl # <<>>
      <3>1. CASE tl[1] = Garbage
        BY <1>1, <1>2, <2>3, <3>1 DEF FromPrefix
      <3>2. CASE tl[1] # Garbage
        BY <1>1, <1>2, <2>3, <3>2 DEF FromPrefix
      <3> QED  BY <3>1, <3>2
    <2>4. n < Len(ls) \/ n = Len(ls)
      BY <1>2
    <2> QED  BY <2>1, <2>2, <2>3, <2>4
  <1> QED  BY <1>6, <1>7, <1>8, <1>9, <1>10, <1>11

-----------------------------------------------------------------------------
(* Serving and writing.                                                    *)

(* Serving changes the book of one epoch, and only to make it longer. *)
LEMMA ServeFacts ==
  ASSUME LogTypeOK, NEW ms \in Seq(Messages), NEW e \in Epochs, Serve(ms, e)
  PROVE  /\ messages' = ms /\ epoch' = e /\ book' \in [Epochs -> Seq(Messages)]
         /\ book'[e] = IF Len(ms) > Len(book[e]) THEN ms ELSE book[e]
         /\ \A f \in Epochs : f # e => book'[f] = book[f]
  BY DEF LogTypeOK, Serve

(* Whatever an append that failed left behind, the file holds the book. *)
LEMMA WroteSound ==
  ASSUME LogTypeOK, HoldsBook(lines, tail, Served), Len(lines) = Len(Served), tail = <<>>,
         NEW line \in LineRecords, NEW d \in Wrote(line)
  PROVE  /\ d.lines \in Seq(LineRecords) /\ d.tail \in Seq(LineRecords) /\ Len(d.tail) <= 1
         /\ HoldsBook(d.lines, d.tail, Served)
  <1> USE RoomLogAssumption
  <1>1. Landing(line) = line /\ Garbage \in LineRecords
    BY DEF Landing, Garbage, LineRecords
  <1>2. Served \in Seq(Messages) /\ lines \in Seq(LineRecords)
        /\ Len(Served) \in Nat /\ Len(lines) \in Nat
        /\ \A i \in 1 .. Len(Served) : lines[i] \in {Garbage, Record(Served, i)}
    BY DEF LogTypeOK, HoldsBook, Served
  <1> DEFINE more == Append(lines, line)
  <1>3. /\ more \in Seq(LineRecords) /\ Len(more) = Len(lines) + 1
        /\ \A i \in 1 .. Len(lines) : more[i] = lines[i]
    BY <1>2, AppendProperties
  <1>4. HoldsBook(more, <<>>, Served)
    <2> HIDE DEF more
    <2> QED  BY <1>2, <1>3 DEF HoldsBook
  <1> HIDE DEF more
  <1>5. ASSUME NEW part \in LineRecords
        PROVE  /\ <<part>> \in Seq(LineRecords) /\ Len(<<part>>) = 1
               /\ HoldsBook(lines, <<part>>, Served)
    BY <1>2 DEF HoldsBook
  <1>6. \/ d.lines = lines /\ d.tail = <<>>
        \/ d.lines = lines /\ d.tail = <<Garbage>>
        \/ d.lines = lines /\ d.tail = <<line>>
        \/ d.lines = more /\ d.tail = <<>>
    BY <1>1 DEF Wrote, more
  <1>7. <<>> \in Seq(LineRecords) /\ Len(<<>>) = 0
    BY EmptySeq
  <1> DEFINE Good(kept, rest) ==
               /\ kept \in Seq(LineRecords) /\ rest \in Seq(LineRecords) /\ Len(rest) <= 1
               /\ HoldsBook(kept, rest, Served)
  <1>8. /\ Good(lines, <<>>) /\ Good(more, <<>>)
        /\ \A part \in LineRecords : Good(lines, <<part>>)
    BY <1>2, <1>3, <1>4, <1>5, <1>7
  <1> HIDE DEF Good
  <1>9. Good(d.lines, d.tail)
    BY <1>1, <1>6, <1>8
  <1> QED  BY <1>9 DEF Good

(* A message that was not said yet repeats nothing at the end of a book. *)
LEMMA AppendUnrepeated ==
  ASSUME NEW ms \in Seq(Messages), Unrepeated(ms), NEW m \in Messages, m \notin Said(ms)
  PROVE  /\ Append(ms, m) \in Seq(Messages) /\ Len(Append(ms, m)) = Len(ms) + 1
         /\ \A i \in 1 .. Len(ms) : Append(ms, m)[i] = ms[i]
         /\ Append(ms, m)[Len(ms) + 1] = m
         /\ Unrepeated(Append(ms, m))
  <1> DEFINE more == Append(ms, m)
  <1>1. /\ more \in Seq(Messages) /\ Len(more) = Len(ms) + 1 /\ Len(ms) \in Nat
        /\ \A i \in 1 .. Len(ms) : more[i] = ms[i]
        /\ more[Len(ms) + 1] = m
    BY AppendProperties
  <1>2. \A i \in 1 .. Len(ms) : ms[i] # m
    BY DEF Said
  <1> HIDE DEF more
  <1>3. Unrepeated(more)
    BY <1>1, <1>2 DEF Unrepeated
  <1> QED  BY <1>1, <1>3 DEF more

-----------------------------------------------------------------------------
(* The invariant.                                                          *)

(* An empty room has the invariant. *)
LEMMA InitInv == LogInit => LogInv
  <1> SUFFICES ASSUME LogInit  PROVE LogInv
    OBVIOUS
  <1>1. 0 \in Epochs
    BY RoomLogAssumption DEF Epochs
  <1>2. LogTypeOK
    BY <1>1, EmptySeq DEF LogInit, LogTypeOK
  <1>3. Served = <<>>
    BY <1>1 DEF LogInit, Served
  <1> QED
    BY <1>1, <1>2, <1>3, EmptySeq
    DEF LogInit, LogInv, Unrepeated, Begins, HoldsBook, Damaged

(* A post that lands. *)
LEMMA LandsInv ==
  ASSUME LogInv, NEW m \in Messages, Lands(m)
  PROVE  LogInv'
  <1> DEFINE more == Append(messages, m)
             filed == Append(lines, Line(m))
  <1>1. /\ LogTypeOK /\ messages = Served /\ Len(lines) = Len(Served) /\ tail = <<>>
        /\ stored = epoch /\ HoldsBook(lines, tail, Served) /\ Unrepeated(messages)
        /\ messages \in Seq(Messages) /\ epoch \in Epochs /\ lines \in Seq(LineRecords)
        /\ Len(messages) \in Nat
    BY DEF LogInv, Lands, LogTypeOK
  <1>2. /\ more \in Seq(Messages) /\ Len(more) = Len(messages) + 1
        /\ \A i \in 1 .. Len(messages) : more[i] = messages[i]
        /\ more[Len(messages) + 1] = m /\ Unrepeated(more)
    BY <1>1, AppendUnrepeated DEF Lands
  <1>3. Line(m) \in LineRecords /\ Landing(Line(m)) = Line(m)
    BY <1>1 DEF Line, LineRecords, Landing
  <1>4. /\ filed \in Seq(LineRecords) /\ Len(filed) = Len(lines) + 1
        /\ \A i \in 1 .. Len(lines) : filed[i] = lines[i]
        /\ filed[Len(lines) + 1] = Line(m)
    BY <1>1, <1>3, AppendProperties
  <1>5. /\ lines' = filed /\ tail' = <<>> /\ Serve(more, epoch)
        /\ UNCHANGED <<stored, running, writable, faults>>
    BY <1>3 DEF Lands
  <1> HIDE DEF more, filed
  <1>6. /\ messages' = more /\ epoch' = epoch /\ book' \in [Epochs -> Seq(Messages)]
        /\ book'[epoch] = (IF Len(more) > Len(book[epoch]) THEN more ELSE book[epoch])
        /\ \A f \in Epochs : f # epoch => book'[f] = book[f]
    BY <1>1, <1>2, <1>5, ServeFacts
  <1>7. Served' = more /\ \A e \in Epochs : e > epoch' => book'[e] = <<>>
    BY <1>1, <1>2, <1>6 DEF Served, LogInv, Epochs
  <1>8. HoldsBook(filed, <<>>, more)
    <2>1. \A i \in 1 .. Len(messages) : filed[i] \in {Garbage, Record(messages, i)}
      BY <1>1, <1>4 DEF HoldsBook
    <2>2. \A i \in 1 .. Len(messages) : filed[i] \in {Garbage, Record(more, i)}
      BY <1>2, <2>1 DEF Record
    <2>3. filed[Len(more)] = Record(more, Len(more))
      BY <1>1, <1>2, <1>4 DEF Record, Line
    <2> QED  BY <1>1, <1>2, <1>4, <2>2, <2>3 DEF HoldsBook
  <1>9. LogTypeOK'
    BY <1>1, <1>2, <1>4, <1>5, <1>6, EmptySeq DEF LogTypeOK
  <1> QED
    BY <1>1, <1>2, <1>4, <1>5, <1>6, <1>7, <1>8, <1>9 DEF LogInv, Begins

(* A file that holds the book, with no book changed and nobody writing. *)
LEMMA DownInv ==
  ASSUME LogInv, LogTypeOK', UNCHANGED <<stored, messages, epoch, book>>, ~running',
         HoldsBook(lines', tail', Served),
         messages # Served => Damaged(lines', Served)
  PROVE  LogInv'
  <1>1. Served' = Served
    BY DEF Served
  <1> QED  BY <1>1 DEF LogInv, Begins, Unrepeated, HoldsBook, Damaged

(* The computer goes down, between posts or in one. *)
LEMMA CrashInv ==
  ASSUME LogInv, Crash
  PROVE  LogInv'
  BY DownInv DEF LogInv, Crash, LogTypeOK, diskVars

LEMMA CrashInPostInv ==
  ASSUME LogInv, NEW m \in Messages, CrashInPost(m)
  PROVE  LogInv'
  <1>1. /\ LogTypeOK /\ messages = Served /\ Len(lines) = Len(Served) /\ tail = <<>>
        /\ HoldsBook(lines, tail, Served)
    BY DEF LogInv, CrashInPost
  <1>2. Line(m) \in LineRecords
    BY <1>1 DEF Line, LineRecords, LogTypeOK
  <1>3. PICK d \in Wrote(Line(m)) : lines' = d.lines /\ tail' = d.tail
    BY DEF CrashInPost
  <1>4. /\ lines' \in Seq(LineRecords) /\ tail' \in Seq(LineRecords) /\ Len(tail') <= 1
        /\ HoldsBook(lines', tail', Served)
    BY <1>1, <1>2, <1>3, WroteSound
  <1>5. LogTypeOK'
    BY <1>1, <1>4 DEF LogTypeOK, CrashInPost
  <1> QED  BY <1>1, <1>4, <1>5, DownInv DEF CrashInPost

(* A line is damaged where it lies. *)
LEMMA DamageInv ==
  ASSUME LogInv, NEW i \in 1 .. Len(lines), Damage(i)
  PROVE  LogInv'
  <1>1. Garbage \in LineRecords /\ lines \in Seq(LineRecords) /\ Len(lines) \in Nat
    BY DEF Garbage, LineRecords, LogInv, LogTypeOK
  <1>2. /\ lines' \in Seq(LineRecords) /\ Len(lines') = Len(lines)
        /\ \A j \in 1 .. Len(lines) : lines'[j] = IF j = i THEN Garbage ELSE lines[j]
    BY <1>1 DEF Damage
  <1>3. UNCHANGED <<tail, stored, running, messages, epoch, writable, book>>
    BY DEF Damage, roomVars
  <1>4. LogTypeOK'
    BY <1>2, <1>3, RoomLogAssumption DEF LogInv, LogTypeOK, Damage, Faulted
  <1>5. Served' = Served /\ Served \in Seq(Messages) /\ Len(Served) \in Nat
        /\ HoldsBook(lines, tail, Served)
    BY <1>3 DEF Served, LogInv, LogTypeOK
  <1>6. HoldsBook(lines', tail', Served)
    BY <1>1, <1>2, <1>3, <1>5 DEF HoldsBook
  <1>7. Damaged(lines, Served) => Damaged(lines', Served)
    BY <1>1, <1>2, <1>5 DEF Damaged, HoldsBook
  <1> QED
    BY <1>2, <1>3, <1>4, <1>5, <1>6, <1>7
    DEF LogInv, Begins, Unrepeated, HoldsBook, Damaged

(* What opening serves: in the old epoch something that agrees with its book, in a *)
(* new one what was left.                                                  *)
LEMMA OpenServes ==
  ASSUME LogInv, Open
  PROVE  \E o \in Opened(lines, tail) :
           /\ Sound(o, lines, Served) /\ o.messages \in Seq(Messages)
           /\ lines' = o.lines /\ tail' = o.tail /\ writable' = o.writable
           /\ running' = TRUE /\ faults' \in Nat
           /\ messages' = o.messages /\ stored' = epoch' /\ epoch' \in Epochs
           /\ book' \in [Epochs -> Seq(Messages)]
           /\ epoch' = IF o.recovery = "middle" THEN epoch + 1 ELSE epoch
           /\ Served' = IF o.recovery = "middle" \/ Len(o.messages) > Len(Served)
                        THEN o.messages ELSE Served
           /\ \A f \in Epochs : f # epoch' => book'[f] = book[f]
  <1>1. PICK o \in Opened(lines, tail) :
          /\ EpochAfter(o) \in Epochs /\ stored' = EpochAfter(o)
          /\ lines' = o.lines /\ tail' = o.tail /\ writable' = o.writable
          /\ Serve(o.messages, EpochAfter(o))
          /\ Faulted(IF o.writable THEN 0 ELSE 1)
    BY DEF Open
  <1>2. /\ LogTypeOK /\ stored = epoch /\ epoch \in Epochs /\ Served \in Seq(Messages)
        /\ \A e \in Epochs : e > epoch => book[e] = <<>>
    BY DEF LogInv, LogTypeOK, Served
  <1>3. Sound(o, lines, Served)
    BY <1>2, OpenedSound DEF LogInv, LogTypeOK
  <1>4. o.messages \in Seq(Messages) /\ Len(o.messages) \in Nat
    BY <1>3 DEF Sound, SoundParts, Agrees
  <1> DEFINE e == EpochAfter(o)
  <1>5. e \in Epochs /\ e = IF o.recovery = "middle" THEN epoch + 1 ELSE epoch
    BY <1>1, <1>2 DEF EpochAfter
  <1> HIDE DEF e
  <1>6. /\ messages' = o.messages /\ epoch' = e /\ book' \in [Epochs -> Seq(Messages)]
        /\ book'[e] = (IF Len(o.messages) > Len(book[e]) THEN o.messages ELSE book[e])
        /\ \A f \in Epochs : f # e => book'[f] = book[f]
    BY <1>1, <1>2, <1>4, <1>5, ServeFacts DEF e
  <1>7. Served' = book'[e]
    BY <1>6 DEF Served
  <1>8. CASE o.recovery = "middle"
    <2>1. e > epoch /\ book[e] = <<>>
      BY <1>2, <1>5, <1>8, RoomLogAssumption DEF Epochs
    <2>2. Served' = o.messages
      <3>1. CASE Len(o.messages) > Len(book[e])
        BY <1>6, <1>7, <3>1
      <3>2. CASE ~(Len(o.messages) > Len(book[e]))
        BY <1>4, <1>6, <1>7, <2>1, <3>2, EmptySeq
      <3> QED  BY <3>1, <3>2
    <2> QED  BY <1>1, <1>3, <1>4, <1>5, <1>6, <1>8, <2>2 DEF e, Open, Faulted, LogTypeOK, LogInv
  <1>9. CASE o.recovery # "middle"
    <2>1. e = epoch /\ book[e] = Served
      BY <1>5, <1>9 DEF Served
    <2>2. Served' = IF Len(o.messages) > Len(Served) THEN o.messages ELSE Served
      BY <1>6, <1>7, <2>1
    <2>3. epoch' = epoch /\ stored' = epoch' /\ epoch' \in Epochs
      BY <1>1, <1>5, <1>6, <2>1 DEF e
    <2>4. faults' \in Nat /\ running' = TRUE
      BY <1>1, <1>2 DEF Faulted, LogTypeOK, Open
    <2> QED  BY <1>1, <1>3, <1>4, <1>5, <1>6, <1>9, <2>2, <2>3, <2>4
  <1> QED  BY <1>8, <1>9

(* Two sequences that agree as far as both go. *)
LEMMA SameOrShorter ==
  ASSUME NEW ms \in Seq(Messages), NEW whole \in Seq(Messages), Agrees(ms, whole),
         Len(ms) <= Len(whole)
  PROVE  Begins(ms, whole) /\ (Len(ms) = Len(whole) => ms = whole)
  <1>1. Begins(ms, whole)
    BY DEF Agrees, Begins
  <1>2. Len(ms) = Len(whole) => ms = whole
    BY <1>1, SeqEqual DEF Begins
  <1> QED  BY <1>1, <1>2

(* The room comes back. *)
LEMMA OpenInv ==
  ASSUME LogInv, Open
  PROVE  LogInv'
  <1>1. PICK o \in Opened(lines, tail) :
           /\ Sound(o, lines, Served) /\ o.messages \in Seq(Messages)
           /\ lines' = o.lines /\ tail' = o.tail /\ writable' = o.writable
           /\ running' = TRUE /\ faults' \in Nat
           /\ messages' = o.messages /\ stored' = epoch' /\ epoch' \in Epochs
           /\ book' \in [Epochs -> Seq(Messages)]
           /\ epoch' = IF o.recovery = "middle" THEN epoch + 1 ELSE epoch
           /\ Served' = IF o.recovery = "middle" \/ Len(o.messages) > Len(Served)
                        THEN o.messages ELSE Served
           /\ \A f \in Epochs : f # epoch' => book'[f] = book[f]
    BY OpenServes
  <1> DEFINE ms == o.messages
             kept == o.lines
             rest == o.tail
  <1>2. /\ kept \in Seq(LineRecords) /\ rest \in Seq(LineRecords) /\ Len(rest) <= 1
        /\ o.writable \in BOOLEAN
        /\ Agrees(ms, Served) /\ Files(kept, ms)
        /\ o.writable => rest = <<>> /\ Len(kept) = Len(ms)
        /\ o.recovery = "middle" => o.writable
        /\ o.recovery # "middle" =>
             /\ HoldsBook(kept, rest, Served)
             /\ o.writable => Len(Served) <= Len(ms)
             /\ Len(ms) < Len(Served) => Damaged(kept, Served)
    BY <1>1 DEF Sound, SoundParts
  <1>3. /\ lines' = kept /\ tail' = rest /\ messages' = ms /\ ms \in Seq(Messages)
        /\ Served \in Seq(Messages) /\ Unrepeated(Served) /\ epoch \in Epochs
        /\ Len(ms) \in Nat /\ Len(Served) \in Nat /\ Len(kept) \in Nat /\ Len(rest) \in Nat
    BY <1>1, <1>2 DEF LogInv, LogTypeOK, Served
  <1> HIDE DEF ms, kept, rest
  <1>4. LogTypeOK'
    BY <1>1, <1>2, <1>3 DEF LogTypeOK, ms
  <1>5. \A e \in Epochs : e > epoch' => book'[e] = <<>>
    <2>1. TAKE e \in Epochs
    <2>2. HAVE e > epoch'
    <2>3. e # epoch' /\ e > epoch
      BY <1>1, <1>3, <2>2, RoomLogAssumption DEF Epochs
    <2> QED  BY <1>1, <2>3 DEF LogInv
  <1>6. CASE o.recovery = "middle" \/ Len(ms) > Len(Served)
    <2>1. Served' = ms
      BY <1>1, <1>6 DEF ms
    <2>2. Unrepeated(ms) /\ Len(ms) <= Len(Served) + 1
          /\ Len(ms) <= Len(kept) /\ \A i \in 1 .. Len(ms) : kept[i] = Record(ms, i)
      BY <1>2 DEF Agrees, Files
    <2>3. Len(kept) + Len(rest) <= Len(ms) + 1
      <3>1. CASE o.recovery = "middle"
        <4>1. Len(rest) = 0
          BY <1>2, <3>1, EmptySeq
        <4> QED  BY <1>2, <1>3, <3>1, <4>1
      <3>2. CASE o.recovery # "middle"
        <4>1. Len(kept) + Len(rest) <= Len(Served) + 1
          BY <1>2, <3>2 DEF HoldsBook
        <4> QED  BY <1>3, <1>6, <3>2, <4>1
      <3> QED  BY <3>1, <3>2
    <2>4. HoldsBook(kept, rest, ms)
      BY <2>2, <2>3 DEF HoldsBook
    <2> QED
      BY <1>1, <1>2, <1>3, <1>4, <1>5, <2>1, <2>2, <2>4 DEF LogInv, Begins
  <1>7. CASE o.recovery # "middle" /\ ~(Len(ms) > Len(Served))
    <2>1. Served' = Served
      BY <1>1, <1>7 DEF ms
    <2>2. Begins(ms, Served) /\ (Len(ms) = Len(Served) => ms = Served)
      BY <1>2, <1>3, <1>7, SameOrShorter
    <2>3. ms # Served => Damaged(kept, Served)
      BY <1>2, <1>3, <1>7, <2>2
    <2>4. o.writable => ms = Served /\ Len(kept) = Len(Served) /\ rest = <<>>
      BY <1>2, <1>3, <1>7, <2>2
    <2> QED
      BY <1>1, <1>2, <1>3, <1>4, <1>5, <1>7, <2>1, <2>2, <2>3, <2>4 DEF LogInv
  <1> QED  BY <1>6, <1>7

(* What a failed append leaves: the file as it was found, and the message served if *)
(* it is there.                                                            *)
LEMMA SettlesServes ==
  ASSUME LogInv, NEW m \in Messages, NEW answer, AppendFails(m, answer)
  PROVE  /\ running /\ writable /\ messages = Served /\ m \notin Said(Served)
         /\ stored' = stored /\ running' = running /\ epoch' = epoch /\ faults' \in Nat
         /\ writable' \in BOOLEAN
         /\ book' \in [Epochs -> Seq(Messages)] /\ Served' = messages'
         /\ \A f \in Epochs : f # epoch => book'[f] = book[f]
         /\ messages' = Served \/ messages' = Append(Served, m)
         /\ lines' \in Seq(LineRecords) /\ tail' \in Seq(LineRecords) /\ Len(tail') <= 1
         /\ HoldsBook(lines', tail', messages')
         /\ writable' => tail' = <<>> /\ Len(lines') = Len(messages')
  <1>1. /\ LogTypeOK /\ messages = Served /\ Len(lines) = Len(Served) /\ tail = <<>>
        /\ HoldsBook(lines, tail, Served) /\ Unrepeated(Served) /\ running /\ writable
        /\ m \notin Said(Served) /\ Served \in Seq(Messages) /\ epoch \in Epochs
        /\ Len(Served) \in Nat
    BY DEF LogInv, AppendFails, LogTypeOK, Served
  <1>2. Line(m) \in LineRecords
    BY <1>1 DEF Line, LineRecords, LogTypeOK
  <1>d. PICK d \in Wrote(Line(m)) : \E o \in Opened(d.lines, d.tail) : Settles(m, o, answer)
    BY DEF AppendFails
  <1>3. PICK o \in Opened(d.lines, d.tail) : Settles(m, o, answer)
    BY <1>d
  <1>4. Sound(o, d.lines, Served)
    BY <1>1, <1>2, WroteSound, OpenedSound
  <1> DEFINE ms == o.messages
             kept == o.lines
             rest == o.tail
             ours == Len(ms) = Len(messages) + 1 /\ ms[Len(ms)] = m
             same == Len(ms) = Len(messages)
             more == Append(messages, m)
  <1>5. /\ o.recovery # "middle" /\ lines' = kept /\ tail' = rest
        /\ Serve(IF ours THEN more ELSE messages, epoch)
        /\ writable' = (o.writable /\ (ours \/ same))
        /\ faults' \in Nat /\ UNCHANGED <<stored, running>>
    BY <1>1, <1>3 DEF Settles, Faulted, LogTypeOK
  <1>6. /\ kept \in Seq(LineRecords) /\ rest \in Seq(LineRecords) /\ Len(rest) <= 1
        /\ ms \in Seq(Messages) /\ Len(ms) \in Nat /\ Len(kept) \in Nat /\ Len(rest) \in Nat
        /\ Agrees(ms, Served) /\ Files(kept, ms)
        /\ o.writable => rest = <<>> /\ Len(kept) = Len(ms)
        /\ HoldsBook(kept, rest, Served)
    BY <1>4, <1>5 DEF Sound, SoundParts, Agrees
  <1>7. /\ more \in Seq(Messages) /\ Len(more) = Len(Served) + 1
        /\ \A i \in 1 .. Len(Served) : more[i] = Served[i]
        /\ more[Len(Served) + 1] = m
    BY <1>1, AppendUnrepeated
  <1> HIDE DEF ms, kept, rest, more
  <1>8. CASE ours
    <2>1. ms = more
      <3>1. \A i \in 1 .. Len(ms) : ms[i] = more[i]
        BY <1>1, <1>6, <1>7, <1>8 DEF Agrees
      <3> QED  BY <1>1, <1>6, <1>7, <1>8, <3>1, SeqEqual
    <2>2. /\ messages' = more /\ epoch' = epoch /\ book' \in [Epochs -> Seq(Messages)]
          /\ book'[epoch] = (IF Len(more) > Len(book[epoch]) THEN more ELSE book[epoch])
          /\ \A f \in Epochs : f # epoch => book'[f] = book[f]
      BY <1>1, <1>5, <1>7, <1>8, ServeFacts
    <2>3. Served' = more
      BY <1>1, <1>7, <2>2 DEF Served
    <2>4. HoldsBook(kept, rest, more)
      <3>1. Len(more) <= Len(kept) /\ \A i \in 1 .. Len(more) : kept[i] = Record(more, i)
        BY <1>6, <2>1 DEF Files
      <3>2. Len(kept) + Len(rest) <= Len(more) + 1
        BY <1>1, <1>6, <1>7 DEF HoldsBook
      <3> QED  BY <3>1, <3>2 DEF HoldsBook
    <2> QED  BY <1>1, <1>5, <1>6, <2>1, <2>2, <2>3, <2>4 DEF more
  <1>9. CASE ~ours
    <2>1. /\ messages' = messages /\ epoch' = epoch /\ book' \in [Epochs -> Seq(Messages)]
          /\ book'[epoch] = (IF Len(messages) > Len(book[epoch]) THEN messages ELSE book[epoch])
          /\ \A f \in Epochs : f # epoch => book'[f] = book[f]
      BY <1>1, <1>5, <1>9, ServeFacts
    <2>2. Served' = messages
      BY <1>1, <2>1 DEF Served
    <2>3. writable' => rest = <<>> /\ Len(kept) = Len(messages)
      BY <1>5, <1>6, <1>9
    <2>4. writable' \in BOOLEAN
      BY <1>5
    <2> QED  BY <1>1, <1>5, <1>6, <2>1, <2>2, <2>3, <2>4
  <1> QED  BY <1>8, <1>9

(* An append that failed. *)
LEMMA AppendFailsInv ==
  ASSUME LogInv, NEW m \in Messages, NEW answer, AppendFails(m, answer)
  PROVE  LogInv'
  <1>1. /\ running /\ writable /\ messages = Served /\ m \notin Said(Served)
        /\ stored' = stored /\ running' = running /\ epoch' = epoch /\ faults' \in Nat
        /\ writable' \in BOOLEAN
        /\ book' \in [Epochs -> Seq(Messages)] /\ Served' = messages'
        /\ \A f \in Epochs : f # epoch => book'[f] = book[f]
        /\ messages' = Served \/ messages' = Append(Served, m)
        /\ lines' \in Seq(LineRecords) /\ tail' \in Seq(LineRecords) /\ Len(tail') <= 1
        /\ HoldsBook(lines', tail', messages')
        /\ writable' => tail' = <<>> /\ Len(lines') = Len(messages')
    BY SettlesServes
  <1>2. /\ LogTypeOK /\ stored = epoch /\ Served \in Seq(Messages) /\ Unrepeated(Served)
        /\ epoch \in Epochs
    BY DEF LogInv, LogTypeOK, Served
  <1>3. messages' \in Seq(Messages) /\ Unrepeated(messages')
    BY <1>1, <1>2, AppendUnrepeated
  <1>4. LogTypeOK'
    BY <1>1, <1>2, <1>3 DEF LogTypeOK
  <1>5. \A e \in Epochs : e > epoch' => book'[e] = <<>>
    <2>1. TAKE e \in Epochs
    <2>2. HAVE e > epoch'
    <2>3. e # epoch
      BY <1>1, <1>2, <2>2, RoomLogAssumption DEF Epochs
    <2> QED  BY <1>1, <2>2, <2>3 DEF LogInv
  <1>6. Begins(messages', messages')
    BY <1>3 DEF Begins
  <1> QED  BY <1>1, <1>2, <1>3, <1>4, <1>5, <1>6 DEF LogInv

-----------------------------------------------------------------------------
(* The theorems.                                                           *)

LEMMA LogStep == LogInv /\ [LogNext]_logVars => LogInv'
  <1> SUFFICES ASSUME LogInv, [LogNext]_logVars  PROVE LogInv'
    OBVIOUS
  <1>1. ASSUME UNCHANGED logVars  PROVE LogInv'
    BY <1>1
    DEF LogInv, LogTypeOK, Served, Begins, Unrepeated, HoldsBook, Damaged,
        logVars, diskVars, roomVars
  <1>2. ASSUME NEW m \in Messages, NEW answer \in Answers, Post(m, answer)  PROVE LogInv'
    <2>1. CASE Lands(m)
      BY <2>1, LandsInv
    <2>2. CASE Repeats(m) \/ Refuses
      BY <1>1, <2>2 DEF Repeats, Refuses
    <2>3. CASE AppendFails(m, answer)
      BY <2>3, AppendFailsInv
    <2> QED  BY <1>2, <2>1, <2>2, <2>3 DEF Post
  <1>3. CASE Crash
    BY <1>3, CrashInv
  <1>4. ASSUME NEW m \in Messages, CrashInPost(m)  PROVE LogInv'
    BY <1>4, CrashInPostInv
  <1>5. ASSUME NEW i \in 1 .. Len(lines), Damage(i)  PROVE LogInv'
    BY <1>5, DamageInv
  <1>6. CASE Open
    BY <1>6, OpenInv
  <1> QED  BY <1>1, <1>2, <1>3, <1>4, <1>5, <1>6 DEF LogNext, Happens

(* The invariant holds of every reachable state: what the room served under its *)
(* epoch is on the disk, each line as it was or damaged (append.rs, log.rs). *)
THEOREM BookIsOnDisk == LogSpec => []LogInv
  <1> QED  BY LogStep, InitInv, PTL DEF LogSpec

(* Under one epoch a number names one entry, whoever read it when. *)
THEOREM NumbersKeepTheirEntries == LogSpec => []OneEntryPerNumber
  <1>1. LogInv => OneEntryPerNumber
    BY DEF LogInv, Begins, Served, OneEntryPerNumber
  <1> QED  BY <1>1, BookIsOnDisk, PTL

(* A message that lands in a room that writes lands in the transcript. *)
LEMMA LandsLand ==
  ASSUME LogInv, NEW m \in Messages, messages = Served, m \notin Said(Served),
         messages' = Append(Served, m), Served' = messages', epoch' = epoch,
         book' \in [Epochs -> Seq(Messages)],
         \A f \in Epochs : f # epoch => book'[f] = book[f]
  PROVE  Promise!Land(m)
  <1>1. book \in [Epochs -> Seq(Messages)] /\ epoch \in Epochs
    BY DEF LogInv, LogTypeOK
  <1>2. book'[epoch] = Append(book[epoch], m)
    BY DEF Served
  <1>3. book' = [book EXCEPT ![epoch] = Append(@, m)]
    BY <1>1, <1>2
  <1> QED  BY <1>3 DEF Promise!Land, Promise!Said, Said, Served

(* A step that changes no book, epoch or transcript is a stutter of the promise. *)
LEMMA Stutters ==
  ASSUME UNCHANGED <<epoch, book, messages>>
  PROVE  UNCHANGED Promise!transcriptVars
  BY DEF Promise!transcriptVars

(* Opening shows a part of what the epoch holds, or lets the entry nobody was told *)
(* of land, or starts the numbering over.                                  *)
LEMMA OpenKeepsPromise ==
  ASSUME LogInv, Open
  PROVE  Promise!TranscriptNext \/ UNCHANGED Promise!transcriptVars
  <1>1. PICK o \in Opened(lines, tail) :
           /\ Sound(o, lines, Served) /\ o.messages \in Seq(Messages)
           /\ lines' = o.lines /\ tail' = o.tail /\ writable' = o.writable
           /\ running' = TRUE /\ faults' \in Nat
           /\ messages' = o.messages /\ stored' = epoch' /\ epoch' \in Epochs
           /\ book' \in [Epochs -> Seq(Messages)]
           /\ epoch' = IF o.recovery = "middle" THEN epoch + 1 ELSE epoch
           /\ Served' = IF o.recovery = "middle" \/ Len(o.messages) > Len(Served)
                        THEN o.messages ELSE Served
           /\ \A f \in Epochs : f # epoch' => book'[f] = book[f]
    BY OpenServes
  <1> DEFINE ms == o.messages
  <1>2. /\ Agrees(ms, Served) /\ ms \in Seq(Messages) /\ Len(ms) \in Nat
        /\ o.recovery # "middle" /\ Len(ms) > Len(Served) => ~Damaged(lines, Served)
    BY <1>1 DEF Sound, SoundParts
  <1>3. /\ book \in [Epochs -> Seq(Messages)] /\ epoch \in Epochs /\ Served \in Seq(Messages)
        /\ Served = book[epoch] /\ Unrepeated(Served) /\ Len(Served) \in Nat
        /\ messages # Served => Damaged(lines, Served)
    BY DEF LogInv, LogTypeOK, Served
  <1>4. Len(ms) <= Len(Served) + 1 /\ Unrepeated(ms)
        /\ \A i \in 1 .. Len(ms) : i <= Len(Served) => ms[i] = Served[i]
    BY <1>2 DEF Agrees
  <1>5. messages' = ms /\ Served' = book'[epoch']
    BY <1>1 DEF Served
  <1> HIDE DEF ms
  <1> DEFINE short == SubSeq(Served, 1, Len(ms))
             most == SubSeq(Served, 1, Len(Served))
             added == ms[Len(ms)]
  <1>6. ASSUME Len(ms) <= Len(Served)
        PROVE  ms = short /\ Len(ms) \in 0 .. Len(Served)
    <2>1. short \in Seq(Messages) /\ Len(short) = Len(ms)
          /\ \A i \in 1 .. Len(ms) : short[i] = Served[i]
      BY <1>2, <1>3, <1>6
    <2> HIDE DEF short
    <2> QED  BY <1>2, <1>4, <1>6, <2>1, SeqEqual
  <1>7. ASSUME Len(ms) > Len(Served)
        PROVE  added \in Messages /\ added \notin Said(Served) /\ ms = Append(Served, added)
    <2>1. Len(ms) = Len(Served) + 1 /\ Len(ms) \in 1 .. Len(ms)
      BY <1>2, <1>3, <1>4, <1>7
    <2>2. added \in Messages
      BY <1>2, <2>1
    <2>3. \A i \in 1 .. Len(Served) : Served[i] = ms[i] /\ ms[i] # added
      BY <1>3, <1>4, <2>1 DEF Unrepeated
    <2>4. added \notin Said(Served)
      BY <2>3 DEF Said
    <2>5. /\ Append(Served, added) \in Seq(Messages)
          /\ Len(Append(Served, added)) = Len(Served) + 1
          /\ \A i \in 1 .. Len(Served) : Append(Served, added)[i] = Served[i]
          /\ Append(Served, added)[Len(Served) + 1] = added
      BY <1>3, <2>2, AppendProperties
    <2>6. \A i \in 1 .. Len(ms) : ms[i] = Append(Served, added)[i]
      BY <1>3, <2>1, <2>3, <2>5
    <2> HIDE DEF added
    <2> QED  BY <1>2, <2>1, <2>2, <2>4, <2>5, <2>6, SeqEqual
  <1>8. Served = most
    <2>1. most \in Seq(Messages) /\ Len(most) = Len(Served)
          /\ \A i \in 1 .. Len(Served) : most[i] = Served[i]
      BY <1>3
    <2> HIDE DEF most
    <2> QED  BY <1>3, <2>1, SeqEqual
  <1> HIDE DEF added
  <1>9. CASE o.recovery = "middle"
    <2>1. ms \in Promise!Left
      <3> DEFINE kept == {SubSeq(Served, 1, n) : n \in 0 .. Len(Served)}
                 grown == {Append(s, m) : s \in kept, m \in Messages}
      <3>1. most \in kept /\ (Len(ms) \in 0 .. Len(Served) => short \in kept)
        BY <1>3
      <3>2. Promise!Left = kept \union grown
        BY <1>3 DEF Promise!Left
      <3>3. CASE Len(ms) <= Len(Served)
        <4> HIDE DEF kept, grown, short
        <4>1. ms = short /\ short \in kept
          BY <1>6, <3>1, <3>3
        <4> QED  BY <3>2, <4>1
      <3> HIDE DEF kept
      <3>4. CASE Len(ms) > Len(Served)
        <4>1. Served \in kept
          BY <1>8, <3>1
        <4>2. Append(Served, added) \in grown
          BY <1>7, <3>4, <4>1
        <4> QED  BY <1>7, <3>2, <3>4, <4>2
      <3> QED  BY <1>2, <1>3, <3>3, <3>4
    <2>2. epoch' = epoch + 1 /\ epoch < MaxEpoch
      BY <1>1, <1>3, <1>9, RoomLogAssumption DEF Epochs
    <2>3. book' = [book EXCEPT ![epoch + 1] = ms]
      BY <1>1, <1>3, <1>5, <1>9, <2>2 DEF ms
    <2>4. Promise!Unrepeated(ms)
      BY <1>4 DEF Unrepeated, Promise!Unrepeated
    <2>5. Promise!StartOver(ms)
      BY <1>5, <2>2, <2>3, <2>4 DEF Promise!StartOver
    <2> QED  BY <2>1, <2>5 DEF Promise!TranscriptNext
  <1>10. CASE o.recovery # "middle" /\ Len(ms) > Len(Served)
    <2>1. messages = Served
      BY <1>2, <1>3, <1>10
    <2>2. messages' = Append(Served, added) /\ Served' = messages' /\ epoch' = epoch
      BY <1>1, <1>5, <1>7, <1>10 DEF ms
    <2>3. Promise!Land(added)
      BY <1>1, <1>7, <1>10, <2>1, <2>2, LandsLand
    <2> QED  BY <1>7, <1>10, <2>3 DEF Promise!TranscriptNext
  <1>11. CASE o.recovery # "middle" /\ ~(Len(ms) > Len(Served))
    <2>1. epoch' = epoch /\ book'[epoch] = Served
      BY <1>1, <1>5, <1>11 DEF ms
    <2>2. book' = book
      <3>1. \A f \in Epochs : book'[f] = book[f]
        BY <1>1, <1>3, <2>1
      <3>2. book' \in [Epochs -> Seq(Messages)]
        BY <1>1
      <3> QED  BY <1>3, <3>1, <3>2
    <2>3. messages' = SubSeq(book[epoch], 1, Len(ms)) /\ Len(ms) \in 0 .. Len(book[epoch])
      BY <1>2, <1>3, <1>5, <1>6, <1>11
    <2>4. Promise!Show(Len(ms))
      BY <2>1, <2>2, <2>3 DEF Promise!Show
    <2> QED  BY <2>3, <2>4 DEF Promise!TranscriptNext
  <1> QED  BY <1>9, <1>10, <1>11

(* A step of the store is a step of the promise, or nobody sees it. *)
LEMMA StepKeepsPromise ==
  ASSUME LogInv, [LogNext]_logVars
  PROVE  Promise!TranscriptNext \/ UNCHANGED Promise!transcriptVars
  <1>1. ASSUME UNCHANGED <<epoch, book, messages>>
        PROVE  UNCHANGED Promise!transcriptVars
    BY <1>1, Stutters
  <1>2. ASSUME NEW m \in Messages, NEW answer \in Answers, Post(m, answer)
        PROVE  Promise!TranscriptNext \/ UNCHANGED Promise!transcriptVars
    <2>1. CASE Lands(m)
      <3>1. /\ LogTypeOK /\ messages = Served /\ m \notin Said(Served) /\ epoch \in Epochs
            /\ Served \in Seq(Messages) /\ Served = book[epoch]
        BY <2>1 DEF LogInv, LogTypeOK, Lands, Served
      <3> DEFINE more == Append(Served, m)
      <3>2. more \in Seq(Messages) /\ Len(more) > Len(Served)
        BY <3>1, AppendProperties
      <3> HIDE DEF more
      <3>3. Serve(more, epoch)
        BY <2>1, <3>1 DEF Lands, more
      <3>4. /\ messages' = more /\ epoch' = epoch /\ Served' = messages'
            /\ book' \in [Epochs -> Seq(Messages)]
            /\ \A f \in Epochs : f # epoch => book'[f] = book[f]
        BY <3>1, <3>2, <3>3, ServeFacts DEF Served
      <3>5. Promise!Land(m)
        BY <3>1, <3>4, LandsLand DEF more
      <3> QED  BY <3>5 DEF Promise!TranscriptNext
    <2>2. CASE Repeats(m) \/ Refuses
      BY <1>1, <2>2 DEF Repeats, Refuses, logVars, roomVars
    <2>3. CASE AppendFails(m, answer)
      <3>1. /\ messages = Served /\ m \notin Said(Served) /\ epoch' = epoch
            /\ book' \in [Epochs -> Seq(Messages)] /\ Served' = messages'
            /\ \A f \in Epochs : f # epoch => book'[f] = book[f]
            /\ messages' = Served \/ messages' = Append(Served, m)
        BY <2>3, SettlesServes
      <3>2. CASE messages' = Append(Served, m)
        <4>1. Promise!Land(m)
          BY <3>1, <3>2, LandsLand
        <4> QED  BY <4>1 DEF Promise!TranscriptNext
      <3>3. CASE messages' = Served
        <4>1. book \in [Epochs -> Seq(Messages)] /\ epoch \in Epochs
              /\ book'[epoch] = book[epoch]
          BY <3>1, <3>3 DEF LogInv, LogTypeOK, Served
        <4>2. book' = book
          BY <3>1, <4>1
        <4> QED  BY <1>1, <3>1, <3>3, <4>2
      <3> QED  BY <3>1, <3>2, <3>3
    <2> QED  BY <1>2, <2>1, <2>2, <2>3 DEF Post
  <1>3. CASE \/ UNCHANGED logVars \/ Crash \/ \E m \in Messages : CrashInPost(m)
             \/ \E i \in 1 .. Len(lines) : Damage(i)
    BY <1>1, <1>3 DEF Crash, CrashInPost, Damage, logVars, roomVars
  <1>4. CASE Open
    BY <1>4, OpenKeepsPromise
  <1> QED  BY <1>2, <1>3, <1>4 DEF LogNext, Happens

(* What was served under the epoch is never taken out of its book, and epochs only *)
(* grow.                                                                   *)
LEMMA BookGrows ==
  ASSUME LogInv, [LogNext]_logVars
  PROVE  /\ epoch' = epoch \/ epoch' = epoch + 1
         /\ epoch' = epoch => Said(Served) \subseteq Said(Served')
  <1>1. /\ epoch \in Epochs /\ epoch \in Nat /\ book \in [Epochs -> Seq(Messages)]
        /\ book[epoch] \in Seq(Messages)
    BY RoomLogAssumption DEF LogInv, LogTypeOK, Epochs
  <1>2. ASSUME NEW m \in Messages, Promise!Land(m)
        PROVE  epoch' = epoch /\ Said(Served) \subseteq Said(Served')
    <2>1. epoch' = epoch /\ book'[epoch] = Append(book[epoch], m)
      BY <1>1, <1>2 DEF Promise!Land
    <2>2. /\ Len(Append(book[epoch], m)) = Len(book[epoch]) + 1
          /\ \A i \in 1 .. Len(book[epoch]) : Append(book[epoch], m)[i] = book[epoch][i]
      BY <1>1, AppendProperties
    <2> QED  BY <1>1, <2>1, <2>2 DEF Said, Served
  <1>3. ASSUME NEW n \in 0 .. Len(book[epoch]), Promise!Show(n)
        PROVE  epoch' = epoch /\ Said(Served) \subseteq Said(Served')
    BY <1>3 DEF Promise!Show, Said, Served
  <1>4. ASSUME NEW ms \in Promise!Left, Promise!StartOver(ms)
        PROVE  epoch' = epoch + 1
    BY <1>4 DEF Promise!StartOver
  <1>5. CASE UNCHANGED Promise!transcriptVars
    BY <1>5 DEF Promise!transcriptVars, Said, Served
  <1>6. epoch + 1 # epoch
    BY <1>1
  <1> QED  BY <1>2, <1>3, <1>4, <1>5, <1>6, StepKeepsPromise DEF Promise!TranscriptNext

(* The store implements the transcript it promises: whatever is posted, retried, torn, *)
(* damaged and recovered, entries only land at the end, once, and entries that go are *)
(* gone under a new epoch (append.rs, log.rs, room.rs).                    *)
THEOREM StoreKeepsPromise == LogSpec => KeepsPromise
  <1>1. LogInit => Promise!TranscriptInit
    BY DEF LogInit, Promise!TranscriptInit, Epochs, Promise!Epochs
  <1>2. LogInv /\ [LogNext]_logVars => [Promise!TranscriptNext]_Promise!transcriptVars
    BY StepKeepsPromise
  <1> QED
    BY <1>1, <1>2, BookIsOnDisk, PTL
    DEF LogSpec, KeepsPromise, Promise!TranscriptSpec

=============================================================================
