-------------------------- MODULE RoomQueueProofs --------------------------
(***************************************************************************)
(* Proofs about RoomQueue: for any number of messages, sessions, faults    *)
(* and upsets, phone and door drive the store as RoomLog allows, so that   *)
(* all that is proved of the store holds under them; no message is lost on *)
(* the phone; what the phone was told had landed is in the room; and the   *)
(* room has a member's messages in the order they were composed.           *)
(***************************************************************************)
EXTENDS RoomQueue, RoomLogProofs

(* The append that failed and was answered "ok" has landed. *)
LEMMA OkMeansLanded ==
  ASSUME LogInv, NEW m \in Messages, AppendFails(m, "ok")
  PROVE  epoch' = epoch /\ m \in Said(Served')
  <1>1. /\ messages \in Seq(Messages) /\ epoch' = epoch /\ Served' = messages'
    BY SettlesServes DEF LogInv, LogTypeOK
  <1>2. messages' = Append(messages, m)
    BY DEF AppendFails, Settles, Serve
  <1>3. Len(messages') = Len(messages) + 1 /\ messages'[Len(messages) + 1] = m
    BY <1>1, <1>2, AppendProperties
  <1> QED  BY <1>1, <1>3 DEF Said

-----------------------------------------------------------------------------
(* The invariant.                                                          *)

Item == [msg : Messages, state : {"queued", "failed"}]
Request == [msg : Messages, epoch : {NoEpoch} \union Epochs]

\* a flight that asks or was answered has a message
Carries(f) == f \in Flight /\ (f.pc \in {"wire", "told"} => f.msg \in Messages)
FlightsOK(fs) == fs \in [Slots -> Flight] /\ \A s \in Slots : Carries(fs[s])
Airborne(fs) == {s \in Slots : fs[s].pc # "idle"}

PhoneOK ==
  /\ shelf \in Seq(Item) /\ Len(shelf) <= MaxQueue
  /\ session \in {0} \union Slots /\ FlightsOK(flights)
  /\ rerun \subseteq Airborne(flights) /\ timer \in BOOLEAN
  /\ owed \subseteq {"kick", "flush"} /\ late \subseteq Request
  /\ known \in {NoEpoch} \union Epochs /\ paired \in BOOLEAN /\ member \in BOOLEAN
  /\ composed \in Seq(Messages)

\* under this epoch the message is in the book, or the epoch is over
Remembered(m, e) == e \in Epochs /\ e <= epoch /\ (e = epoch => m \in Said(Served))

\* what the phone was told, or is being told
ToldRight ==
  /\ \A a \in acked : Remembered(a.msg, a.epoch)
  /\ \A s \in Slots : flights[s].pc = "told" /\ flights[s].answer = "sent" =>
                        Remembered(flights[s].msg, flights[s].epoch)

QueueInv == PhoneOK /\ ToldRight /\ NothingLost

-----------------------------------------------------------------------------
(* Flights.                                                                *)

LEMMA AtFacts ==
  ASSUME NEW pc \in Pcs
  PROVE  /\ At(pc) \in Flight /\ At(pc).pc = pc /\ At(pc).msg = Nothing
         /\ At(pc).epoch = NoEpoch /\ At(pc).answer = "retry"
  BY DEF At, Flight, Pcs, Verdicts

\* no flight is told anything by this
NobodyTold(old, new) ==
  \A s \in Slots : new[s].pc = "told" => old[s].pc = "told" /\ new[s] = old[s]

LEMMA StartedFacts ==
  ASSUME NEW fs, FlightsOK(fs), NEW s \in {0} \union Slots
  PROVE  /\ FlightsOK(Started(fs, s)) /\ NobodyTold(fs, Started(fs, s))
         /\ Airborne(fs) \subseteq Airborne(Started(fs, s))
  <1>1. /\ At("probe") \in Flight /\ At("probe").pc = "probe"
        /\ At("probe").msg = Nothing
    BY AtFacts DEF Pcs
  <1>2. 0 \notin Slots
    BY RoomQueueAssumption
  <1>3. fs \in [Slots -> Flight]
    BY DEF FlightsOK
  <1>4. CASE s # 0 /\ fs[s].pc = "idle"
    <2>1. s \in Slots /\ Started(fs, s) = [fs EXCEPT ![s] = At("probe")]
      BY <1>4 DEF Started
    <2> QED
      BY <1>1, <1>3, <1>4, <2>1 DEF FlightsOK, Carries, NobodyTold, Airborne
  <1>5. CASE ~(s # 0 /\ fs[s].pc = "idle")
    BY <1>3, <1>5 DEF Started, NobodyTold
  <1> QED  BY <1>4, <1>5

(* One flight put in another place. *)
LEMMA PutFacts ==
  ASSUME FlightsOK(flights), NEW s \in Slots, NEW f, Carries(f), f.pc # "told",
         NEW fs, fs = [flights EXCEPT ![s] = f]
  PROVE  /\ FlightsOK(fs) /\ NobodyTold(flights, fs)
         /\ f.pc # "idle" => Airborne(flights) \subseteq Airborne(fs)
         /\ Airborne(flights) \ {s} \subseteq Airborne(fs)
  BY DEF FlightsOK, Carries, NobodyTold, Airborne

LEMMA EndsFacts ==
  ASSUME PhoneOK, NEW s \in Slots, NEW armed, Ends(s, armed)
  PROVE  /\ FlightsOK(flights') /\ NobodyTold(flights, flights')
         /\ rerun' \subseteq Airborne(flights')
  <1> DEFINE landed == [flights EXCEPT ![s] = At("idle")]
  <1>1. Carries(At("idle")) /\ At("idle").pc = "idle"
    BY AtFacts DEF Carries, Pcs
  <1>2. FlightsOK(flights) /\ session \in {0} \union Slots /\ rerun \subseteq Airborne(flights)
    BY DEF PhoneOK
  <1>3. /\ FlightsOK(landed) /\ NobodyTold(flights, landed)
        /\ Airborne(flights) \ {s} \subseteq Airborne(landed)
    BY <1>1, <1>2, PutFacts
  <1>4. rerun' = rerun \ {s} /\ flights' \in {landed, Started(landed, session)}
    BY DEF Ends
  <1> HIDE DEF landed
  <1>5. /\ FlightsOK(Started(landed, session)) /\ NobodyTold(landed, Started(landed, session))
        /\ Airborne(landed) \subseteq Airborne(Started(landed, session))
    BY <1>2, <1>3, StartedFacts
  <1>6. NobodyTold(flights, Started(landed, session))
    BY <1>3, <1>5 DEF NobodyTold
  <1> QED  BY <1>2, <1>3, <1>4, <1>5, <1>6

LEMMA GoesFacts ==
  ASSUME PhoneOK, Goes
  PROVE  /\ FlightsOK(flights') /\ NobodyTold(flights, flights')
         /\ rerun' \subseteq Airborne(flights')
  <1>1. /\ FlightsOK(flights) /\ session \in {0} \union Slots /\ rerun \subseteq Airborne(flights)
        /\ flights' = Started(flights, session)
        /\ rerun' \subseteq rerun \union (IF session \in Flying THEN {session} ELSE {})
    BY DEF PhoneOK, Goes
  <1>2. /\ FlightsOK(flights') /\ NobodyTold(flights, flights')
        /\ Airborne(flights) \subseteq Airborne(flights')
    BY <1>1, StartedFacts
  <1> QED  BY <1>1, <1>2 DEF Flying, Airborne

-----------------------------------------------------------------------------
(* The shelf.                                                              *)

On(sh) == {sh[i].msg : i \in 1 .. Len(sh)}

LEMMA MarkedFacts ==
  ASSUME shelf \in Seq(Item), NEW m, NEW state \in {"queued", "failed"}
  PROVE  /\ Marked(m, state) \in Seq(Item) /\ Len(Marked(m, state)) = Len(shelf)
         /\ On(Marked(m, state)) = On(shelf)
  <1> DEFINE sh == Marked(m, state)
  <1>1. Len(shelf) \in Nat /\ \A i \in 1 .. Len(shelf) : shelf[i] \in Item
    OBVIOUS
  <1>2. sh = [i \in 1 .. Len(shelf) |->
                IF shelf[i].msg = m THEN [msg |-> m, state |-> state] ELSE shelf[i]]
    BY DEF Marked
  <1>3. \A i \in 1 .. Len(shelf) : sh[i] \in Item /\ sh[i].msg = shelf[i].msg
    <2>1. TAKE i \in 1 .. Len(shelf)
    <2>2. shelf[i] \in Item
      BY <1>1
    <2>3. CASE shelf[i].msg = m
      BY <1>2, <2>2, <2>3 DEF Item
    <2>4. CASE shelf[i].msg # m
      BY <1>2, <2>2, <2>4 DEF Item
    <2> QED  BY <2>3, <2>4
  <1>4. sh \in Seq(Item) /\ Len(sh) = Len(shelf)
    BY <1>1, <1>2, <1>3
  <1> HIDE DEF sh
  <1>5. On(sh) = On(shelf)
    BY <1>3, <1>4 DEF On
  <1> QED  BY <1>4, <1>5 DEF sh

LEMMA WithoutFacts ==
  ASSUME shelf \in Seq(Item), NEW m
  PROVE  /\ Without(m) \in Seq(Item) /\ Len(Without(m)) <= Len(shelf)
         /\ On(shelf) \ {m} \subseteq On(Without(m))
  <1> DEFINE n == Len(shelf)
  <1>1. n \in Nat /\ \A i \in 1 .. n : shelf[i] \in Item
    OBVIOUS
  <1>2. CASE m \notin Waiting
    BY <1>2 DEF Without
  <1>3. CASE m \in Waiting
    <2> DEFINE at == CHOOSE i \in 1 .. Len(shelf) : shelf[i].msg = m
               sh == [i \in 1 .. n - 1 |-> shelf[IF i < at THEN i ELSE i + 1]]
    <2>1. \E i \in 1 .. Len(shelf) : shelf[i].msg = m
      BY <1>3 DEF Waiting
    <2>2. at \in 1 .. n /\ shelf[at].msg = m
      BY <2>1
    <2>3. Without(m) = sh
      BY <1>3 DEF Without
    <2> HIDE DEF at, n
    <2>4. \A i \in 1 .. n - 1 : (IF i < at THEN i ELSE i + 1) \in 1 .. n
      BY <1>1, <2>2
    <2>5. n - 1 \in Nat
      BY <1>1, <2>2
    <2>6. sh \in Seq(Item) /\ Len(sh) = n - 1
      BY <1>1, <2>4, <2>5
    <2>7. ASSUME NEW i \in 1 .. n, shelf[i].msg # m
          PROVE  \E k \in 1 .. n - 1 : sh[k].msg = shelf[i].msg
      <3>1. CASE i < at
        <4>1. i \in 1 .. n - 1 /\ sh[i] = shelf[i]
          BY <1>1, <2>2, <2>7, <3>1
        <4> QED  BY <4>1
      <3>2. CASE i > at
        <4>1. i - 1 \in 1 .. n - 1 /\ ~(i - 1 < at) /\ (i - 1) + 1 = i
          BY <1>1, <2>2, <2>7, <3>2
        <4>2. sh[i - 1] = shelf[i]
          BY <4>1
        <4> QED  BY <4>1, <4>2
      <3>3. i # at
        BY <2>2, <2>7
      <3> QED  BY <1>1, <2>2, <3>1, <3>2, <3>3
    <2> HIDE DEF sh
    <2>8. On(shelf) \ {m} \subseteq On(sh)
      BY <1>1, <2>6, <2>7 DEF On, n
    <2> QED  BY <1>1, <2>3, <2>6, <2>8 DEF n
  <1> QED  BY <1>2, <1>3

-----------------------------------------------------------------------------
(* Steps of the phone.                                                     *)

\* nothing the shelf took is lost by this
Accounted(m) == m \in On(shelf) \/ m \in letGo \/ \E a \in acked : a.msg = m

LEMMA LostFacts == NothingLost <=> \A m \in Said(composed) : Accounted(m)
  BY DEF NothingLost, Accounted, Waiting, On

(* A step that leaves the store alone, and tells no flight anything. *)
LEMMA PhoneMoves ==
  ASSUME QueueInv, UNCHANGED logVars, PhoneOK', NobodyTold(flights, flights'), acked' = acked,
         letGo \subseteq letGo',
         \A m \in Said(composed') : m \in Said(composed) \/ m \in On(shelf'),
         \A m \in On(shelf) : m \in On(shelf') \/ m \in letGo'
  PROVE  QueueInv'
  <1>1. Said(Served)' = Said(Served) /\ epoch' = epoch
    BY DEF logVars, roomVars, Served
  <1>2. \A m, e : Remembered(m, e)' = Remembered(m, e)
    BY <1>1 DEF Remembered
  <1>3. ToldRight'
    BY <1>2 DEF QueueInv, ToldRight, NobodyTold
  <1>4. \A m \in Said(composed') : Accounted(m)'
    BY LostFacts DEF QueueInv, Accounted
  <1>5. NothingLost'
    BY <1>4 DEF NothingLost, Accounted, Waiting, On
  <1> QED  BY <1>3, <1>5 DEF QueueInv

(* One that leaves the shelf alone, too. *)
LEMMA ShelfStays ==
  ASSUME QueueInv, UNCHANGED <<logVars, shelf, composed, acked, letGo>>, PhoneOK',
         NobodyTold(flights, flights')
  PROVE  QueueInv'
  BY PhoneMoves

LEMMA NobodyToldSame == UNCHANGED flights => NobodyTold(flights, flights')
  BY DEF NobodyTold

LEMMA SubscribeKeeps ==
  ASSUME QueueInv, Subscribe
  PROVE  QueueInv'
  <1>1. PICK s \in Slots : session' = s /\ flights' = Started(flights, s)
    BY DEF Subscribe
  <1>2. /\ PhoneOK /\ UNCHANGED <<logVars, netVars, pastVars, shelf, rerun, timer, owed, known, paired>>
        /\ UNCHANGED <<late, member, composed, acked, letGo>>
    BY DEF QueueInv, Subscribe, netVars, pastVars
  <1>3. /\ FlightsOK(flights') /\ NobodyTold(flights, flights')
        /\ Airborne(flights) \subseteq Airborne(flights')
    BY <1>1, <1>2, StartedFacts DEF PhoneOK
  <1>4. PhoneOK'
    BY <1>1, <1>2, <1>3 DEF PhoneOK
  <1> QED  BY <1>2, <1>3, <1>4, ShelfStays

LEMMA UnsubscribeKeeps ==
  ASSUME QueueInv, Unsubscribe
  PROVE  QueueInv'
  <1>1. /\ PhoneOK /\ session' = 0 /\ timer' = FALSE
        /\ UNCHANGED <<logVars, shelf, flights, rerun, owed, known, paired>>
        /\ UNCHANGED <<late, member, composed, acked, letGo>>
    BY DEF QueueInv, Unsubscribe, netVars, pastVars
  <1>2. PhoneOK'
    BY <1>1 DEF PhoneOK
  <1> QED  BY <1>1, <1>2, NobodyToldSame, ShelfStays

LEMMA ComposeKeeps ==
  ASSUME QueueInv, NEW m \in Messages, Compose(m)
  PROVE  QueueInv'
  <1>1. /\ PhoneOK /\ owed' = owed \union {"kick"}
        /\ UNCHANGED <<logVars, session, flights, rerun, timer, known, paired>>
        /\ UNCHANGED <<late, member, acked, letGo>>
    BY DEF QueueInv, Compose, netVars
  <1>2. CASE /\ Len(shelf) < MaxQueue
             /\ shelf' = Append(shelf, [msg |-> m, state |-> "queued"])
             /\ composed' = Append(composed, m)
    <2>1. /\ shelf \in Seq(Item) /\ composed \in Seq(Messages)
          /\ [msg |-> m, state |-> "queued"] \in Item
      BY <1>1 DEF PhoneOK, Item
    <2>2. /\ shelf' \in Seq(Item) /\ Len(shelf') = Len(shelf) + 1 /\ Len(shelf) \in Nat
          /\ \A i \in 1 .. Len(shelf) : shelf'[i] = shelf[i]
          /\ shelf'[Len(shelf) + 1].msg = m
      BY <1>2, <2>1, AppendProperties
    <2>3. /\ composed' \in Seq(Messages) /\ Len(composed') = Len(composed) + 1
          /\ Len(composed) \in Nat
          /\ \A i \in 1 .. Len(composed) : composed'[i] = composed[i]
          /\ composed'[Len(composed) + 1] = m
      BY <1>2, <2>1, AppendProperties
    <2>4. m \in On(shelf') /\ On(shelf) \subseteq On(shelf')
      BY <2>2 DEF On
    <2>5. \A x \in Said(composed') : x \in Said(composed) \/ x = m
      BY <2>3 DEF Said
    <2>6. PhoneOK'
      BY <1>1, <1>2, <2>2, <2>3, RoomQueueAssumption DEF PhoneOK
    <2> QED  BY <1>1, <2>4, <2>5, <2>6, NobodyToldSame, PhoneMoves
  <1>3. CASE UNCHANGED <<shelf, composed>>
    <2>1. PhoneOK'
      BY <1>1, <1>3 DEF PhoneOK
    <2> QED  BY <1>1, <1>3, <2>1, NobodyToldSame, ShelfStays
  <1> QED  BY <1>2, <1>3 DEF Compose

LEMMA DiscardKeeps ==
  ASSUME QueueInv, NEW m \in Messages, Discard(m)
  PROVE  QueueInv'
  <1>1. /\ PhoneOK /\ shelf' = Without(m) /\ letGo' = letGo \union {m}
        /\ UNCHANGED <<logVars, session, flights, rerun, timer, owed, known, paired>>
        /\ UNCHANGED <<late, member, composed, acked>>
    BY DEF QueueInv, Discard, netVars
  <1>2. /\ shelf' \in Seq(Item) /\ Len(shelf') <= Len(shelf) /\ On(shelf) \ {m} \subseteq On(shelf')
        /\ Len(shelf) \in Nat /\ Len(shelf') \in Nat /\ Len(shelf) <= MaxQueue
    BY <1>1, WithoutFacts DEF PhoneOK
  <1>3. PhoneOK'
    BY <1>1, <1>2, RoomQueueAssumption DEF PhoneOK
  <1> QED  BY <1>1, <1>2, <1>3, NobodyToldSame, PhoneMoves

LEMMA UserRetriesKeeps ==
  ASSUME QueueInv, NEW m \in Messages, UserRetries(m)
  PROVE  QueueInv'
  <1>1. /\ PhoneOK /\ shelf' = Marked(m, "queued") /\ owed' = owed \union {"flush"}
        /\ UNCHANGED <<logVars, session, flights, rerun, timer, known, paired>>
        /\ UNCHANGED <<late, member, composed, acked, letGo>>
    BY DEF QueueInv, UserRetries, netVars, pastVars
  <1>2. shelf' \in Seq(Item) /\ Len(shelf') = Len(shelf) /\ On(shelf') = On(shelf)
    BY <1>1, MarkedFacts DEF PhoneOK
  <1>3. PhoneOK'
    BY <1>1, <1>2 DEF PhoneOK
  <1> QED  BY <1>1, <1>2, <1>3, NobodyToldSame, PhoneMoves

LEMMA KickKeeps ==
  ASSUME QueueInv, KickArrives
  PROVE  QueueInv'
  <1>1. /\ PhoneOK /\ owed' = owed \ {"kick"}
        /\ UNCHANGED <<logVars, shelf, session, timer, known, paired>>
        /\ UNCHANGED <<late, member, composed, acked, letGo>>
        /\ Goes \/ UNCHANGED <<flights, rerun>>
    BY DEF QueueInv, KickArrives, netVars, pastVars
  <1>2. /\ FlightsOK(flights') /\ NobodyTold(flights, flights')
        /\ rerun' \subseteq Airborne(flights')
    BY <1>1, GoesFacts, NobodyToldSame DEF PhoneOK
  <1>3. PhoneOK'
    BY <1>1, <1>2 DEF PhoneOK
  <1> QED  BY <1>1, <1>2, <1>3, ShelfStays

LEMMA FlushKeeps ==
  ASSUME QueueInv, FlushArrives
  PROVE  QueueInv'
  <1>1. /\ PhoneOK /\ owed' = owed \ {"flush"} /\ timer' = FALSE
        /\ UNCHANGED <<logVars, shelf, session, known, paired>>
        /\ UNCHANGED <<late, member, composed, acked, letGo>>
        /\ Goes \/ UNCHANGED <<flights, rerun>>
    BY DEF QueueInv, FlushArrives, netVars, pastVars
  <1>2. /\ FlightsOK(flights') /\ NobodyTold(flights, flights')
        /\ rerun' \subseteq Airborne(flights')
    BY <1>1, GoesFacts, NobodyToldSame DEF PhoneOK
  <1>3. PhoneOK'
    BY <1>1, <1>2 DEF PhoneOK
  <1> QED  BY <1>1, <1>2, <1>3, ShelfStays

LEMMA StreamOpensKeeps ==
  ASSUME QueueInv, LogInv, StreamOpens
  PROVE  QueueInv'
  <1>1. /\ PhoneOK /\ known' = epoch /\ timer' = FALSE /\ Goes
        /\ UNCHANGED <<logVars, shelf, session, owed, paired>>
        /\ UNCHANGED <<late, member, composed, acked, letGo>>
    BY DEF QueueInv, StreamOpens, netVars, pastVars
  <1>2. /\ FlightsOK(flights') /\ NobodyTold(flights, flights')
        /\ rerun' \subseteq Airborne(flights')
    BY <1>1, GoesFacts
  <1>3. epoch \in Epochs
    BY DEF LogInv, LogTypeOK
  <1>4. PhoneOK'
    BY <1>1, <1>2, <1>3 DEF PhoneOK
  <1> QED  BY <1>1, <1>2, <1>4, ShelfStays

LEMMA TimerKeeps ==
  ASSUME QueueInv, TimerFires
  PROVE  QueueInv'
  <1>1. /\ PhoneOK /\ timer' = FALSE /\ flights' = Started(flights, session)
        /\ UNCHANGED <<logVars, shelf, session, rerun, owed, known, paired>>
        /\ UNCHANGED <<late, member, composed, acked, letGo>>
    BY DEF QueueInv, TimerFires, netVars, pastVars
  <1>2. /\ FlightsOK(flights') /\ NobodyTold(flights, flights')
        /\ Airborne(flights) \subseteq Airborne(flights')
    BY <1>1, StartedFacts DEF PhoneOK
  <1>3. PhoneOK'
    BY <1>1, <1>2 DEF PhoneOK
  <1> QED  BY <1>1, <1>2, <1>3, ShelfStays

LEMMA EmptyShelf == <<>> \in Seq(Item) /\ Len(<<>>) <= MaxQueue
  BY EmptySeq, RoomQueueAssumption

LEMMA ProbeKeeps ==
  ASSUME QueueInv, NEW s \in Slots, Probe(s)
  PROVE  QueueInv'
  <1>1. /\ PhoneOK /\ UNCHANGED <<logVars, session, timer, owed, known, paired>>
        /\ UNCHANGED <<late, member, composed, acked>>
    BY DEF QueueInv, Probe, netVars
  <1>2. CASE flights' = [flights EXCEPT ![s] = At("look")] /\ UNCHANGED <<shelf, rerun, letGo>>
    <2>1. Carries(At("look")) /\ At("look").pc = "look"
      BY AtFacts DEF Carries, Pcs
    <2>2. /\ FlightsOK(flights') /\ NobodyTold(flights, flights')
          /\ Airborne(flights) \subseteq Airborne(flights')
      BY <1>1, <1>2, <2>1, PutFacts DEF PhoneOK
    <2>3. PhoneOK'
      BY <1>1, <1>2, <2>2 DEF PhoneOK
    <2> QED  BY <1>1, <1>2, <2>2, <2>3, ShelfStays
  <1>3. CASE /\ shelf' = <<>> /\ letGo' = letGo \union Waiting
             /\ Ends(s, s = session /\ timer)
    <2>1. /\ FlightsOK(flights') /\ NobodyTold(flights, flights')
          /\ rerun' \subseteq Airborne(flights')
      BY <1>1, <1>3, EndsFacts
    <2>2. shelf' \in Seq(Item) /\ Len(shelf') <= MaxQueue
      BY <1>3, EmptyShelf
    <2>3. PhoneOK'
      BY <1>1, <2>1, <2>2 DEF PhoneOK
    <2>4. On(shelf) = Waiting
      BY DEF On, Waiting
    <2> QED  BY <1>1, <1>3, <2>1, <2>3, <2>4, PhoneMoves
  <1> QED  BY <1>2, <1>3 DEF Probe

LEMMA LookKeeps ==
  ASSUME QueueInv, NEW s \in Slots, Look(s)
  PROVE  QueueInv'
  <1>1. /\ PhoneOK /\ UNCHANGED <<logVars, shelf, session, timer, owed, known, paired>>
        /\ UNCHANGED <<late, member, composed, acked, letGo>>
    BY DEF QueueInv, Look, netVars, pastVars
  <1>2. ASSUME NEW i \in Heads, UNCHANGED rerun,
               flights' = [flights EXCEPT ![s] = [At("wire") EXCEPT !.msg = shelf[i].msg,
                                                                    !.epoch = known]]
        PROVE  QueueInv'
    <2> DEFINE f == [At("wire") EXCEPT !.msg = shelf[i].msg, !.epoch = known]
    <2>1. /\ shelf[i].msg \in Messages /\ known \in {NoEpoch} \union Epochs
      <3>1. i \in 1 .. Len(shelf) /\ shelf \in Seq(Item)
        BY <1>1, <1>2 DEF PhoneOK, Heads
      <3>2. shelf[i] \in Item
        BY <3>1
      <3> QED  BY <1>1, <3>2 DEF PhoneOK, Item
    <2>2. /\ At("wire") \in Flight /\ At("wire").pc = "wire"
      BY AtFacts DEF Pcs
    <2>3. Carries(f) /\ f.pc = "wire"
      BY <2>1, <2>2 DEF Carries, Flight
    <2> HIDE DEF f
    <2>4. /\ FlightsOK(flights') /\ NobodyTold(flights, flights')
          /\ Airborne(flights) \subseteq Airborne(flights')
      BY <1>1, <1>2, <2>3, PutFacts DEF PhoneOK, f
    <2>5. PhoneOK'
      BY <1>1, <1>2, <2>4 DEF PhoneOK
    <2> QED  BY <1>1, <2>4, <2>5, ShelfStays
  <1>3. CASE Ends(s, s = session /\ timer)
    <2>1. /\ FlightsOK(flights') /\ NobodyTold(flights, flights')
          /\ rerun' \subseteq Airborne(flights')
      BY <1>1, <1>3, EndsFacts
    <2>2. PhoneOK'
      BY <1>1, <2>1 DEF PhoneOK
    <2> QED  BY <1>1, <2>1, <2>2, ShelfStays
  <1> QED  BY <1>2, <1>3 DEF Look

-----------------------------------------------------------------------------
(* Steps of the store.                                                     *)

(* What was promised stays promised, whatever the store does. *)
LEMMA StillRemembered ==
  ASSUME LogInv, [LogNext]_logVars, NEW m, NEW e, Remembered(m, e)
  PROVE  Remembered(m, e)'
  <1>1. epoch \in Nat /\ Epochs \subseteq Nat
    BY RoomLogAssumption DEF LogInv, LogTypeOK, Epochs
  <1>2. /\ epoch' = epoch \/ epoch' = epoch + 1
        /\ epoch' = epoch => Said(Served) \subseteq Said(Served')
    BY BookGrows
  <1> QED  BY <1>1, <1>2 DEF Remembered

\* the same, after a step of the store
NowRemembered(m, e) == e \in Epochs /\ e <= epoch' /\ (e = epoch' => m \in Said(Served'))

LEMMA StoreMoves ==
  ASSUME QueueInv, LogInv, [LogNext]_logVars, PhoneOK',
         UNCHANGED <<shelf, composed, acked, letGo>>,
         \A s \in Slots : flights'[s].pc = "told" /\ flights'[s].answer = "sent" =>
           \/ flights'[s] = flights[s]
           \/ NowRemembered(flights'[s].msg, flights'[s].epoch)
  PROVE  QueueInv'
  <1>1. \A m, e : Remembered(m, e) => NowRemembered(m, e)
    BY StillRemembered DEF Remembered, NowRemembered
  <1>2. \A a \in acked' : NowRemembered(a.msg, a.epoch)
    BY <1>1 DEF QueueInv, ToldRight
  <1>3. \A s \in Slots : flights'[s].pc = "told" /\ flights'[s].answer = "sent" =>
          NowRemembered(flights'[s].msg, flights'[s].epoch)
    BY <1>1 DEF QueueInv, ToldRight
  <1>4. ToldRight'
    BY <1>2, <1>3 DEF ToldRight, Remembered, NowRemembered
  <1>5. NothingLost'
    BY DEF QueueInv, NothingLost, Waiting
  <1> QED  BY <1>4, <1>5 DEF QueueInv

(* What the door answers of the store, and what "sent" means. *)
LEMMA AnsweredFacts ==
  ASSUME LogInv, NEW m \in Messages, NEW stamp, NEW verdict, Answered(m, stamp, verdict)
  PROVE  /\ [LogNext]_logVars
         /\ verdict = "sent" => epoch' = epoch /\ m \in Said(Served')
  <1>1. CASE UNCHANGED logVars /\ verdict # "sent"
    BY <1>1
  <1>2. CASE Lands(m)
    <2>1. [LogNext]_logVars /\ epoch' = epoch /\ running' /\ writable'
      BY <1>2 DEF LogNext, Post, Answers, Lands, Serve
    <2>2. messages' = Served'
      BY <1>2, <2>1, LandsInv DEF LogInv
    <2>3. messages \in Seq(Messages) /\ messages' = Append(messages, m)
      BY <1>2 DEF LogInv, LogTypeOK, Lands, Serve
    <2>4. Len(messages') = Len(messages) + 1 /\ messages'[Len(messages) + 1] = m
      BY <2>3, AppendProperties
    <2>5. m \in Said(messages')
      BY <2>3, <2>4 DEF Said
    <2> QED  BY <2>1, <2>2, <2>5
  <1>3. CASE Repeats(m)
    <2>1. UNCHANGED logVars /\ messages = Served /\ m \in Said(messages)
      BY <1>3 DEF Repeats, LogInv
    <2>2. epoch' = epoch /\ Served' = Served
      BY <2>1 DEF logVars, roomVars, Served
    <2> QED  BY <2>1, <2>2
  <1>4. ASSUME NEW answer \in Answers, AppendFails(m, answer),
               verdict = IF answer = "ok" THEN "sent" ELSE "retry"
        PROVE  /\ [LogNext]_logVars
               /\ verdict = "sent" => epoch' = epoch /\ m \in Said(Served')
    <2>1. [LogNext]_logVars
      BY <1>4 DEF LogNext, Post
    <2>2. verdict = "sent" => answer = "ok"
      BY <1>4
    <2> QED  BY <1>4, <2>1, <2>2, OkMeansLanded
  <1>5. CASE Refuses /\ verdict = "retry"
    BY <1>5 DEF Refuses
  <1> QED  BY <1>1, <1>2, <1>3, <1>4, <1>5 DEF Answered

LEMMA ToldFacts ==
  ASSUME PhoneOK, LogInv, NEW s \in Slots, flights[s].pc \in {"wire", "told"},
         NEW verdict \in Verdicts, Told(s, verdict)
  PROVE  /\ FlightsOK(flights') /\ Airborne(flights) \subseteq Airborne(flights')
         /\ flights'[s].answer = verdict /\ flights'[s].msg = flights[s].msg
         /\ flights'[s].epoch = (IF verdict = "sent" THEN epoch ELSE NoEpoch)
         /\ \A x \in Slots \ {s} : flights'[x] = flights[x]
  <1>1. /\ flights \in [Slots -> Flight] /\ flights[s] \in Flight /\ flights[s].msg \in Messages
        /\ \A x \in Slots : Carries(flights[x])
    BY DEF PhoneOK, FlightsOK, Carries
  <1>2. epoch \in Epochs
    BY DEF LogInv, LogTypeOK
  <1> DEFINE e == IF verdict = "sent" THEN epoch ELSE NoEpoch
             f == [flights[s] EXCEPT !.pc = "told", !.answer = verdict, !.epoch = e]
  <1>3. e \in {NoEpoch} \union Epochs
    BY <1>2
  <1>4. flights' = [flights EXCEPT ![s] = f]
    BY DEF Told
  <1> HIDE DEF e
  <1>5. /\ f \in Flight /\ f.pc = "told" /\ f.answer = verdict /\ f.msg = flights[s].msg
        /\ f.epoch = e
    BY <1>1, <1>3 DEF Flight, Pcs
  <1> HIDE DEF f
  <1>6. flights'[s] = f /\ \A x \in Slots \ {s} : flights'[x] = flights[x]
    BY <1>1, <1>4
  <1>7. flights' \in [Slots -> Flight]
    BY <1>1, <1>4, <1>5
  <1>8. FlightsOK(flights')
    BY <1>1, <1>5, <1>6, <1>7 DEF FlightsOK, Carries
  <1>9. Airborne(flights) \subseteq Airborne(flights')
    BY <1>5, <1>6 DEF Airborne
  <1> QED  BY <1>5, <1>6, <1>8, <1>9 DEF e

(* A flight that is told something, whatever the store did. *)
LEMMA TellKeeps ==
  ASSUME QueueInv, LogInv, [LogNext]_logVars, NEW s \in Slots,
         flights[s].pc \in {"wire", "told"}, NEW verdict \in Verdicts, Told(s, verdict),
         verdict = "sent" => epoch' = epoch /\ flights[s].msg \in Said(Served'),
         UNCHANGED <<shelf, session, rerun, timer, owed, paired>>, known' \in {NoEpoch, known},
         UNCHANGED <<member, composed, acked, letGo>>, late' \subseteq Request
  PROVE  QueueInv'
  <1>1. PhoneOK /\ epoch \in Epochs /\ epoch \in Nat
    BY RoomLogAssumption DEF QueueInv, LogInv, LogTypeOK, Epochs
  <1>2. /\ FlightsOK(flights') /\ Airborne(flights) \subseteq Airborne(flights')
        /\ flights'[s].answer = verdict /\ flights'[s].msg = flights[s].msg
        /\ flights'[s].epoch = (IF verdict = "sent" THEN epoch ELSE NoEpoch)
        /\ \A x \in Slots \ {s} : flights'[x] = flights[x]
    BY <1>1, ToldFacts
  <1>3. PhoneOK'
    BY <1>1, <1>2 DEF PhoneOK
  <1>4. verdict = "sent" => NowRemembered(flights'[s].msg, flights'[s].epoch)
    BY <1>1, <1>2 DEF NowRemembered
  <1>5. \A x \in Slots : flights'[x].pc = "told" /\ flights'[x].answer = "sent" =>
           \/ flights'[x] = flights[x]
           \/ NowRemembered(flights'[x].msg, flights'[x].epoch)
    BY <1>2, <1>4
  <1> QED  BY <1>3, <1>5, StoreMoves

LEMMA AsksKeeps ==
  ASSUME QueueInv, LogInv, NEW s \in Slots, Asks(s)
  PROVE  QueueInv' /\ [LogNext]_logVars
  <1>1. /\ PhoneOK /\ flights[s].pc = "wire" /\ flights[s].msg \in Messages
        /\ UNCHANGED <<shelf, session, rerun, timer, owed, known, paired>>
        /\ UNCHANGED <<late, member, composed, acked, letGo>>
    BY DEF QueueInv, PhoneOK, FlightsOK, Carries, Asks, netVars
  <1>2. late' \subseteq Request
    BY <1>1 DEF PhoneOK
  <1>3. PICK verdict \in Verdicts :
          /\ Told(s, verdict)
          /\ \/ Answered(flights[s].msg, flights[s].epoch, verdict)
             \/ verdict = "hold" /\ UNCHANGED logVars
    BY DEF Asks, Verdicts
  <1>4. /\ [LogNext]_logVars
        /\ verdict = "sent" => epoch' = epoch /\ flights[s].msg \in Said(Served')
    BY <1>1, <1>3, AnsweredFacts
  <1> QED  BY <1>1, <1>2, <1>3, <1>4, TellKeeps

LEMMA DoorRefusesKeeps ==
  ASSUME QueueInv, LogInv, NEW s \in Slots, DoorRefuses(s)
  PROVE  QueueInv' /\ [LogNext]_logVars
  <1>1. /\ PhoneOK /\ flights[s].pc = "wire" /\ Told(s, "failed") /\ "failed" \in Verdicts
        /\ UNCHANGED <<logVars, shelf, session, rerun, timer, owed, known, paired>>
        /\ UNCHANGED <<late, member, composed, acked, letGo>>
    BY DEF QueueInv, DoorRefuses, netVars, Verdicts
  <1>2. late' \subseteq Request
    BY <1>1 DEF PhoneOK
  <1> QED  BY <1>1, <1>2, TellKeeps

LEMMA RequestLostKeeps ==
  ASSUME QueueInv, LogInv, NEW s \in Slots, RequestLost(s)
  PROVE  QueueInv' /\ [LogNext]_logVars
  <1>1. /\ PhoneOK /\ flights[s].pc = "wire" /\ Told(s, "retry") /\ "retry" \in Verdicts
        /\ UNCHANGED <<logVars, shelf, session, rerun, timer, owed, known, paired>>
        /\ UNCHANGED <<member, composed, acked, letGo>>
        /\ late' \in {late, late \union {[msg |-> flights[s].msg, epoch |-> flights[s].epoch]}}
    BY DEF QueueInv, RequestLost, Verdicts
  <1>2. flights[s].msg \in Messages /\ flights[s].epoch \in {NoEpoch} \union Epochs
    BY <1>1 DEF PhoneOK, FlightsOK, Carries, Flight
  <1>3. late' \subseteq Request
    BY <1>1, <1>2 DEF PhoneOK, Request
  <1> QED  BY <1>1, <1>3, TellKeeps

LEMMA DoorUnusableKeeps ==
  ASSUME QueueInv, LogInv, NEW s \in Slots, DoorUnusable(s)
  PROVE  QueueInv' /\ [LogNext]_logVars
  <1>1. /\ PhoneOK /\ flights[s].pc = "wire" /\ Told(s, "hold") /\ "hold" \in Verdicts
        /\ UNCHANGED <<logVars, shelf, session, rerun, timer, owed, known, paired>>
        /\ UNCHANGED <<late, member, composed, acked, letGo>>
    BY DEF QueueInv, DoorUnusable, netVars, Verdicts
  <1>2. late' \subseteq Request
    BY <1>1 DEF PhoneOK
  <1> QED  BY <1>1, <1>2, TellKeeps

LEMMA AnswerLostKeeps ==
  ASSUME QueueInv, LogInv, NEW s \in Slots, AnswerLost(s)
  PROVE  QueueInv' /\ [LogNext]_logVars
  <1>1. /\ PhoneOK /\ flights[s].pc = "told" /\ Told(s, "retry") /\ "retry" \in Verdicts
        /\ UNCHANGED <<logVars, shelf, session, rerun, timer, owed, known, paired>>
        /\ UNCHANGED <<late, member, composed, acked, letGo>>
    BY DEF QueueInv, AnswerLost, netVars, Verdicts
  <1>2. late' \subseteq Request
    BY <1>1 DEF PhoneOK
  <1> QED  BY <1>1, <1>2, TellKeeps

LEMMA DoorDiesKeeps ==
  ASSUME QueueInv, LogInv, NEW s \in Slots, DoorDies(s)
  PROVE  QueueInv' /\ [LogNext]_logVars
  <1>1. /\ PhoneOK /\ flights[s].pc = "wire" /\ Told(s, "retry") /\ "retry" \in Verdicts
        /\ CrashInPost(flights[s].msg)
        /\ UNCHANGED <<shelf, session, rerun, timer, owed, known, paired>>
        /\ UNCHANGED <<late, member, composed, acked, letGo>>
    BY DEF QueueInv, DoorDies, netVars, Verdicts
  <1>2. late' \subseteq Request /\ flights[s].msg \in Messages
    BY <1>1 DEF PhoneOK, FlightsOK, Carries
  <1>3. [LogNext]_logVars
    BY <1>1, <1>2 DEF LogNext, Happens
  <1> QED  BY <1>1, <1>2, <1>3, TellKeeps

-----------------------------------------------------------------------------
(* What the phone does with an answer.                                     *)

LEMMA HearsEpochKeeps ==
  ASSUME QueueInv, LogInv, NEW s \in Slots, HearsEpoch(s)
  PROVE  QueueInv' /\ [LogNext]_logVars
  <1>1. /\ PhoneOK /\ flights[s].pc = "told" /\ Told(s, "retry") /\ "retry" \in Verdicts
        /\ UNCHANGED <<logVars, shelf, session, rerun, timer, owed, paired>>
        /\ UNCHANGED <<late, member, composed, acked, letGo>> /\ known' = NoEpoch
    BY DEF QueueInv, HearsEpoch, Cached, netVars, pastVars, Verdicts
  <1>2. late' \subseteq Request
    BY <1>1 DEF PhoneOK
  <1> QED  BY <1>1, <1>2, TellKeeps

(* A settled message goes from the shelf only with what the phone was told. *)
LEMMA SettleSent ==
  ASSUME QueueInv, LogInv, NEW s \in Slots, Settle(s), flights[s].answer = "sent",
         shelf' = Without(flights[s].msg),
         acked' = acked \union {[msg |-> flights[s].msg, epoch |-> flights[s].epoch]},
         flights' = [flights EXCEPT ![s] = At("look")],
         UNCHANGED <<rerun, timer, known, letGo>>
  PROVE  QueueInv'
  <1> DEFINE m == flights[s].msg
             told == [msg |-> m, epoch |-> flights[s].epoch]
  <1>1. /\ PhoneOK /\ ToldRight /\ NothingLost /\ flights[s].pc = "told"
        /\ UNCHANGED <<logVars, session, owed, paired, composed>>
        /\ UNCHANGED <<late, member>>
    BY DEF QueueInv, Settle, netVars
  <1>2. /\ shelf' \in Seq(Item) /\ Len(shelf') <= Len(shelf) /\ On(shelf) \ {m} \subseteq On(shelf')
        /\ Len(shelf) \in Nat /\ Len(shelf') \in Nat /\ Len(shelf) <= MaxQueue
    BY <1>1, WithoutFacts DEF PhoneOK
  <1>3. Carries(At("look")) /\ At("look").pc = "look"
    BY AtFacts DEF Carries, Pcs
  <1>4. /\ FlightsOK(flights') /\ NobodyTold(flights, flights')
        /\ Airborne(flights) \subseteq Airborne(flights')
    BY <1>1, <1>3, PutFacts DEF PhoneOK
  <1>5. PhoneOK'
    <2>1. /\ session' \in {0} \union Slots /\ timer' \in BOOLEAN /\ owed' \subseteq {"kick", "flush"}
          /\ late' \subseteq Request /\ known' \in {NoEpoch} \union Epochs
          /\ paired' \in BOOLEAN /\ member' \in BOOLEAN /\ composed' \in Seq(Messages)
          /\ rerun' \subseteq Airborne(flights')
      BY <1>1, <1>4 DEF PhoneOK
    <2>2. Len(shelf') <= MaxQueue
      BY <1>2, RoomQueueAssumption
    <2> QED  BY <1>2, <1>4, <2>1, <2>2 DEF PhoneOK
  <1>6. Said(Served)' = Said(Served) /\ epoch' = epoch
    BY <1>1 DEF logVars, roomVars, Served
  <1>7. \A x, e : Remembered(x, e)' = Remembered(x, e)
    BY <1>6 DEF Remembered
  <1>8. Remembered(m, flights[s].epoch)
    BY <1>1 DEF ToldRight
  <1>9. \A a \in acked' : Remembered(a.msg, a.epoch)
    BY <1>1, <1>8 DEF ToldRight
  <1>10. ToldRight'
    BY <1>1, <1>4, <1>7, <1>9 DEF ToldRight, NobodyTold
  <1>11. \A x \in Said(composed') : Accounted(x)'
    <2>1. TAKE x \in Said(composed')
    <2>2. Accounted(x)
      BY <1>1, LostFacts
    <2>3. CASE x = m
      <3>1. told \in acked' /\ told.msg = x
        BY <2>3
      <3> QED  BY <3>1 DEF Accounted
    <2>4. CASE x # m
      BY <1>2, <2>2, <2>4 DEF Accounted
    <2> QED  BY <2>3, <2>4
  <1>12. NothingLost'
    BY <1>11 DEF NothingLost, Accounted, Waiting, On
  <1> QED  BY <1>5, <1>10, <1>12 DEF QueueInv

LEMMA SettleKeeps ==
  ASSUME QueueInv, LogInv, NEW s \in Slots, Settle(s)
  PROVE  QueueInv'
  <1> DEFINE m == flights[s].msg
             verdict == flights[s].answer
  <1>1. /\ PhoneOK /\ flights[s].pc = "told" /\ SettlesAs(s, m, verdict)
        /\ UNCHANGED <<logVars, session, owed, paired>>
        /\ UNCHANGED <<late, member, composed>>
    BY DEF QueueInv, Settle, netVars
  <1>2. \A state \in {"queued", "failed"} :
          /\ Marked(m, state) \in Seq(Item) /\ Len(Marked(m, state)) = Len(shelf)
          /\ On(Marked(m, state)) = On(shelf)
    BY <1>1, MarkedFacts DEF PhoneOK
  <1>3. CASE /\ verdict = "sent" /\ shelf' = Without(m)
             /\ acked' = acked \union {[msg |-> m, epoch |-> flights[s].epoch]}
             /\ flights' = [flights EXCEPT ![s] = At("look")]
             /\ UNCHANGED <<rerun, timer, known, letGo>>
    BY <1>3, SettleSent
  <1>4. CASE /\ shelf' = Marked(m, "failed") /\ letGo' = letGo \union {m}
             /\ flights' = [flights EXCEPT ![s] = At("look")]
             /\ UNCHANGED <<rerun, timer, known, acked>>
    <2>1. Carries(At("look")) /\ At("look").pc = "look"
      BY AtFacts DEF Carries, Pcs
    <2>2. /\ FlightsOK(flights') /\ NobodyTold(flights, flights')
          /\ Airborne(flights) \subseteq Airborne(flights')
      BY <1>1, <1>4, <2>1, PutFacts DEF PhoneOK
    <2>3. PhoneOK'
      BY <1>1, <1>2, <1>4, <2>2 DEF PhoneOK
    <2> QED  BY <1>1, <1>2, <1>4, <2>2, <2>3, PhoneMoves
  <1>5. ASSUME NEW armed, Ends(s, armed), shelf' = Marked(m, "queued"),
               timer' \in BOOLEAN, known' \in {NoEpoch} \union Epochs,
               UNCHANGED <<acked, letGo>>
        PROVE  QueueInv'
    <2>1. /\ FlightsOK(flights') /\ NobodyTold(flights, flights')
          /\ rerun' \subseteq Airborne(flights')
      BY <1>1, <1>5, EndsFacts
    <2>2. PhoneOK'
      BY <1>1, <1>2, <1>5, <2>1 DEF PhoneOK
    <2> QED  BY <1>1, <1>2, <1>5, <2>1, <2>2, PhoneMoves
  <1>6. timer \in BOOLEAN /\ known \in {NoEpoch} \union Epochs
    BY <1>1 DEF PhoneOK
  <1>7. CASE /\ shelf' = Marked(m, "queued") /\ Ends(s, s = session /\ timer)
             /\ UNCHANGED <<timer, known, acked, letGo>>
    BY <1>5, <1>6, <1>7
  <1>8. CASE /\ shelf' = Marked(m, "queued") /\ UNCHANGED known
             /\ timer' = (timer \/ s = session) /\ Ends(s, s = session)
             /\ UNCHANGED <<acked, letGo>>
    BY <1>5, <1>6, <1>8
  <1> QED  BY <1>1, <1>3, <1>4, <1>7, <1>8 DEF SettlesAs

LEMMA StorageFailsKeeps ==
  ASSUME QueueInv, NEW s \in Slots, StorageFails(s)
  PROVE  QueueInv'
  <1>1. /\ PhoneOK /\ Ends(s, s = session /\ timer)
        /\ UNCHANGED <<logVars, shelf, session, timer, owed, known, paired>>
        /\ UNCHANGED <<late, member, composed, acked, letGo>>
    BY DEF QueueInv, StorageFails, netVars
  <1>2. /\ FlightsOK(flights') /\ NobodyTold(flights, flights')
        /\ rerun' \subseteq Airborne(flights')
    BY <1>1, EndsFacts
  <1>3. PhoneOK'
    BY <1>1, <1>2 DEF PhoneOK
  <1> QED  BY <1>1, <1>2, <1>3, ShelfStays

-----------------------------------------------------------------------------
(* The world around the phone.                                             *)

LEMMA LateLandsKeeps ==
  ASSUME QueueInv, LogInv, NEW r \in late, LateLands(r)
  PROVE  QueueInv' /\ [LogNext]_logVars
  <1>1. /\ PhoneOK /\ late' = late \ {r}
        /\ UNCHANGED <<shelf, session, flights, rerun, timer, owed, known, paired>>
        /\ UNCHANGED <<member, composed, acked, letGo>>
    BY DEF QueueInv, LateLands, phoneVars
  <1>2. r.msg \in Messages
    BY <1>1 DEF PhoneOK, Request
  <1>3. [LogNext]_logVars
    BY <1>2, AnsweredFacts DEF LateLands
  <1>4. PhoneOK'
    BY <1>1 DEF PhoneOK
  <1> QED  BY <1>1, <1>3, <1>4, StoreMoves

LEMMA AppKilledKeeps ==
  ASSUME QueueInv, AppKilled
  PROVE  QueueInv'
  <1>1. /\ PhoneOK /\ flights' = [s \in Slots |-> At("idle")]
        /\ session' = 0 /\ timer' = FALSE /\ owed' = {} /\ rerun' = {} /\ known' = NoEpoch
        /\ UNCHANGED <<logVars, shelf, paired, member, composed, acked, letGo>>
    BY DEF QueueInv, AppKilled
  <1>2. PICK gone \in SUBSET {s \in Slots : flights[s].pc = "wire"} :
          late' = late \union {[msg |-> flights[s].msg, epoch |-> flights[s].epoch] : s \in gone}
    BY DEF AppKilled
  <1>3. \A s \in gone : [msg |-> flights[s].msg, epoch |-> flights[s].epoch] \in Request
    BY <1>1 DEF PhoneOK, FlightsOK, Carries, Flight, Request
  <1>4. late' \subseteq Request
    BY <1>1, <1>2, <1>3 DEF PhoneOK
  <1>5. Carries(At("idle")) /\ At("idle").pc = "idle"
    BY AtFacts DEF Carries, Pcs
  <1>6. FlightsOK(flights') /\ NobodyTold(flights, flights')
    BY <1>1, <1>5 DEF FlightsOK, Carries, NobodyTold
  <1>7. PhoneOK'
    BY <1>1, <1>4, <1>6 DEF PhoneOK
  <1> QED  BY <1>1, <1>6, <1>7, ShelfStays

LEMMA SupersededKeeps ==
  ASSUME QueueInv, Superseded
  PROVE  QueueInv'
  <1>1. /\ PhoneOK /\ paired' = FALSE /\ known' = NoEpoch
        /\ UNCHANGED <<logVars, session, flights, rerun, timer, owed, composed, acked>>
        /\ UNCHANGED <<late, member>>
        /\ \/ shelf' = <<>> /\ letGo' = letGo \union Waiting
           \/ UNCHANGED <<shelf, letGo>>
    BY DEF QueueInv, Superseded, netVars
  <1>2. shelf' \in Seq(Item) /\ Len(shelf') <= MaxQueue
    BY <1>1, EmptyShelf DEF PhoneOK
  <1>3. PhoneOK'
    BY <1>1, <1>2 DEF PhoneOK
  <1>4. Waiting = On(shelf)
    BY DEF Waiting, On
  <1> QED  BY <1>1, <1>3, <1>4, NobodyToldSame, PhoneMoves

LEMMA ForgottenKeeps ==
  ASSUME QueueInv, Forgotten
  PROVE  QueueInv'
  <1>1. /\ PhoneOK /\ member' = FALSE
        /\ UNCHANGED <<shelf, session, flights, rerun, timer, owed, known, paired>>
        /\ UNCHANGED <<logVars, late, composed, acked, letGo>>
    BY DEF QueueInv, Forgotten, phoneVars
  <1>2. PhoneOK'
    BY <1>1 DEF PhoneOK
  <1> QED  BY <1>1, <1>2, NobodyToldSame, ShelfStays

LEMMA RoomHappensKeeps ==
  ASSUME QueueInv, LogInv, RoomHappens
  PROVE  QueueInv' /\ [LogNext]_logVars
  <1>1. /\ PhoneOK
        /\ UNCHANGED <<shelf, session, flights, rerun, timer, owed, known, paired>>
        /\ UNCHANGED <<late, member, composed, acked, letGo>>
    BY DEF QueueInv, RoomHappens, phoneVars, netVars
  <1>2. [LogNext]_logVars
    BY DEF RoomHappens, LogNext, Happens
  <1>3. PhoneOK'
    BY <1>1 DEF PhoneOK
  <1> QED  BY <1>1, <1>2, <1>3, StoreMoves

-----------------------------------------------------------------------------
(* The theorems.                                                           *)

LEMMA QueueInitInv ==
  ASSUME QueueInit
  PROVE  LogInv /\ QueueInv
  <1>1. LogInv
    BY InitInv DEF QueueInit
  <1>2. Carries(At("idle")) /\ At("idle").pc = "idle"
    BY AtFacts DEF Carries, Pcs
  <1>3. FlightsOK(flights) /\ \A s \in Slots : flights[s].pc = "idle"
    BY <1>2 DEF QueueInit, FlightsOK, Carries
  <1>4. PhoneOK
    <2>1. shelf \in Seq(Item) /\ Len(shelf) <= MaxQueue
      BY EmptyShelf DEF QueueInit
    <2>2. /\ session = 0 /\ rerun = {} /\ timer = FALSE /\ owed = {} /\ late = {}
          /\ known = NoEpoch /\ paired = TRUE /\ member = TRUE
      BY DEF QueueInit
    <2>3. composed \in Seq(Messages)
      BY EmptySeq DEF QueueInit
    <2> QED  BY <1>3, <2>1, <2>2, <2>3 DEF PhoneOK
  <1>5. ToldRight
    BY <1>3 DEF QueueInit, ToldRight
  <1>6. NothingLost
    BY DEF QueueInit, NothingLost, Said
  <1> QED  BY <1>1, <1>4, <1>5, <1>6 DEF QueueInv

LEMMA QueueStep ==
  ASSUME LogInv, QueueInv, [QueueNext]_queueVars
  PROVE  QueueInv' /\ [LogNext]_logVars
  <1>1. CASE UNCHANGED queueVars
    <2>1. /\ UNCHANGED <<logVars, shelf, session, flights, rerun, timer, owed, known, paired>>
          /\ UNCHANGED <<late, member, composed, acked, letGo>>
      BY <1>1 DEF queueVars, phoneVars, netVars, pastVars
    <2>2. PhoneOK'
      BY <2>1 DEF QueueInv, PhoneOK
    <2> QED  BY <2>1, <2>2, NobodyToldSame, ShelfStays
  <1>2. ASSUME NEW s \in Slots, FlightNext(s)
        PROVE  QueueInv' /\ [LogNext]_logVars
    <2>1. CASE Probe(s)
      BY <2>1, ProbeKeeps DEF Probe
    <2>2. CASE Look(s)
      BY <2>2, LookKeeps DEF Look
    <2>3. CASE Asks(s)
      BY <2>3, AsksKeeps
    <2>4. CASE DoorRefuses(s)
      BY <2>4, DoorRefusesKeeps
    <2>5. CASE RequestLost(s)
      BY <2>5, RequestLostKeeps
    <2>6. CASE AnswerLost(s)
      BY <2>6, AnswerLostKeeps
    <2>7. CASE DoorDies(s)
      BY <2>7, DoorDiesKeeps
    <2>8. CASE Settle(s)
      BY <2>8, SettleKeeps DEF Settle
    <2>9. CASE StorageFails(s)
      BY <2>9, StorageFailsKeeps DEF StorageFails
    <2>10. CASE DoorUnusable(s)
      BY <2>10, DoorUnusableKeeps
    <2>11. CASE HearsEpoch(s)
      BY <2>11, HearsEpochKeeps
    <2> QED
      BY <1>2, <2>1, <2>2, <2>3, <2>4, <2>5, <2>6, <2>7, <2>8, <2>9, <2>10, <2>11
      DEF FlightNext
  <1>3. CASE UserNext
    <2>1. CASE Subscribe
      BY <2>1, SubscribeKeeps DEF Subscribe
    <2>2. CASE Unsubscribe
      BY <2>2, UnsubscribeKeeps DEF Unsubscribe
    <2>3. CASE StreamOpens
      BY <2>3, StreamOpensKeeps DEF StreamOpens
    <2>4. CASE TimerFires
      BY <2>4, TimerKeeps DEF TimerFires
    <2>5. CASE KickArrives
      BY <2>5, KickKeeps DEF KickArrives
    <2>6. CASE FlushArrives
      BY <2>6, FlushKeeps DEF FlushArrives
    <2>7. ASSUME NEW m \in Messages, Compose(m) \/ Discard(m) \/ UserRetries(m)
          PROVE  QueueInv' /\ UNCHANGED logVars
      BY <2>7, ComposeKeeps, DiscardKeeps, UserRetriesKeeps DEF Compose, Discard, UserRetries
    <2> QED  BY <1>3, <2>1, <2>2, <2>3, <2>4, <2>5, <2>6, <2>7 DEF UserNext
  <1>4. ASSUME NEW r \in late, LateLands(r)
        PROVE  QueueInv' /\ [LogNext]_logVars
    BY <1>4, LateLandsKeeps
  <1>5. CASE AppKilled
    BY <1>5, AppKilledKeeps DEF AppKilled
  <1>6. CASE Superseded
    BY <1>6, SupersededKeeps DEF Superseded
  <1>7. CASE Forgotten
    BY <1>7, ForgottenKeeps DEF Forgotten
  <1>8. CASE RoomHappens
    BY <1>8, RoomHappensKeeps
  <1> QED  BY <1>1, <1>2, <1>3, <1>4, <1>5, <1>6, <1>7, <1>8 DEF QueueNext

(* Whatever phone, network and door do, the store moves as RoomLog allows, *)
(* so that everything proved of the store alone holds under them.          *)
THEOREM PhoneDrivesStore == QueueSpec => LogSpec /\ [](LogInv /\ QueueInv)
  <1>1. QueueInit => LogInit /\ LogInv /\ QueueInv
    BY QueueInitInv DEF QueueInit
  <1>2. LogInv /\ QueueInv /\ [QueueNext]_queueVars => QueueInv' /\ [LogNext]_logVars
    BY QueueStep
  <1>3. LogInv /\ [LogNext]_logVars => LogInv'
    BY LogStep
  <1> QED  BY <1>1, <1>2, <1>3, PTL DEF QueueSpec, LogSpec

(* No message the shelf took is lost on the phone (roomQueue.ts), through  *)
(* kills, lost answers, and two flights at once.                           *)
THEOREM NoMessageIsLost == QueueSpec => []NothingLost
  <1>1. QueueInv => NothingLost
    BY DEF QueueInv
  <1> QED  BY <1>1, PhoneDrivesStore, PTL

(* What the phone took off its shelf as landed is in the room, for as long *)
(* as that epoch lasts, whatever crashed in between.                       *)
THEOREM AckedStays == QueueSpec => []AckedIsKept
  <1>1. LogInv /\ QueueInv => AckedIsKept
    BY DEF LogInv, QueueInv, ToldRight, Remembered, AckedIsKept
  <1> QED  BY <1>1, PhoneDrivesStore, PTL

(* With the phone in front of it, too, a number names one entry.           *)
THEOREM NumbersKeepTheirEntriesUnderThePhone == QueueSpec => []OneEntryPerNumber
  <1> QED  BY PhoneDrivesStore, NumbersKeepTheirEntries, PTL

(* With the phone in front of it, too, the store keeps the room's promise. *)
THEOREM PhoneKeepsPromise == QueueSpec => KeepsPromise
  <1> QED  BY PhoneDrivesStore, StoreKeepsPromise, PTL

(* The types of the phone's state.                                         *)
THEOREM QueueTypes == QueueSpec => []QueueTypeOK
  <1>1. QueueInv => QueueTypeOK
    BY DEF QueueInv, PhoneOK, FlightsOK, QueueTypeOK, Item, Request, Airborne, Flying
  <1> QED  BY <1>1, PhoneDrivesStore, PTL

-----------------------------------------------------------------------------
(* The order of the room: its invariant.                                   *)

\* what the order is told by: what was composed, acked and let go, and the room's epoch
Past == [composed |-> composed, acked |-> acked, letGo |-> letGo, epoch |-> epoch]

Before(h, x, y) ==
  \E i, j \in 1 .. Len(h.composed) : i < j /\ h.composed[i] = x /\ h.composed[j] = y

\* the phone is done with the message, and its turn has come when it is done with all before
Over(h, x) == x \in h.letGo \/ \E was \in h.acked : was.msg = x
InLine(h, y) == y \in Said(h.composed) /\ \A x \in Said(h.composed) : Before(h, x, y) => Over(h, x)

\* InTurn's exceptions
Excused(h, x, y) ==
  x \in h.letGo \/ y \in h.letGo \/ \E was \in h.acked : was.msg = x /\ was.epoch # h.epoch

\* the places of messages in memory, and in the file with what follows its last newline
Memory(ms) == {[at |-> i, msg |-> ms[i]] : i \in 1 .. Len(ms)}
OnFile(ls, tl) ==
  {[at |-> i, msg |-> ls[i].msg] : i \in {k \in 1 .. Len(ls) : ls[k].msg # Nothing}}
    \union {[at |-> Len(ls) + 1, msg |-> tl[i].msg] : i \in {k \in 1 .. Len(tl) : tl[k].msg # Nothing}}

InOrder(h, places) ==
  /\ \A r \in places : InLine(h, r.msg)
  /\ \A r, t \in places : Before(h, r.msg, t.msg) => r.at < t.at \/ Excused(h, r.msg, t.msg)

\* the shelf is in order, and the ones it holds as refused were let go
ShelfInOrder(h, sh) ==
  /\ \A i \in 1 .. Len(sh) : /\ sh[i].msg \in Said(h.composed)
                             /\ sh[i].state = "failed" => sh[i].msg \in h.letGo
  /\ \A i, j \in 1 .. Len(sh) : i < j => ~Before(h, sh[j].msg, sh[i].msg)

\* the requests on their way: those that are waited for, and those that were given up
Asked(h, fs, gone) ==
  /\ \A s \in Slots : fs[s].pc = "wire" => InLine(h, fs[s].msg)
  /\ \A r \in gone : InLine(h, r.msg)

ComposedOnce(h) == \A i, j \in 1 .. Len(h.composed) : h.composed[i] = h.composed[j] => i = j

TurnInv ==
  /\ ComposedOnce(Past) /\ ShelfInOrder(Past, shelf) /\ Asked(Past, flights, late)
  /\ InOrder(Past, OnFile(lines, tail)) /\ InOrder(Past, Memory(messages))

-----------------------------------------------------------------------------
(* What keeps an order.                                                    *)

\* time passes: nobody was composed into the past, what was let go or acked stays so, and
\* an epoch that is over stays over
Continues(h, g) ==
  /\ Said(h.composed) \subseteq Said(g.composed)
  /\ \A x, y : y \in Said(h.composed) /\ Before(g, x, y) => x \in Said(h.composed) /\ Before(h, x, y)
  /\ h.letGo \subseteq g.letGo /\ h.acked \subseteq g.acked
  /\ \A was \in h.acked : was.epoch # h.epoch => was.epoch # g.epoch

LEMMA InLineContinues ==
  ASSUME NEW h, NEW g, Continues(h, g), NEW y, InLine(h, y)
  PROVE  InLine(g, y)
  <1>1. \A x : Over(h, x) => Over(g, x)
    BY DEF Continues, Over
  <1> QED  BY <1>1 DEF Continues, InLine

LEMMA OrderContinues ==
  ASSUME NEW h, NEW g, Continues(h, g), NEW places, InOrder(h, places),
         NEW less, less \subseteq places
  PROVE  InOrder(g, less)
  <1>1. \A r \in less : InLine(h, r.msg) /\ r.msg \in Said(h.composed)
    BY DEF InOrder, InLine
  <1>2. \A r \in less : InLine(g, r.msg)
    BY <1>1, InLineContinues
  <1>3. \A x, y : Excused(h, x, y) => Excused(g, x, y)
    BY DEF Continues, Excused
  <1>4. ASSUME NEW r \in less, NEW t \in less, Before(g, r.msg, t.msg)
        PROVE  r.at < t.at \/ Excused(g, r.msg, t.msg)
    <2>1. Before(h, r.msg, t.msg)
      BY <1>1, <1>4 DEF Continues
    <2>2. r.at < t.at \/ Excused(h, r.msg, t.msg)
      BY <2>1 DEF InOrder
    <2> QED  BY <1>3, <2>2
  <1> QED  BY <1>2, <1>4 DEF InOrder

(* A message whose turn has come lands behind all the others: one that should have *)
(* come after it and is there already found it let go, or acked elsewhere.  *)
LEMMA LandsInOrder ==
  ASSUME NEW h, NEW places, InOrder(h, places), NEW m, InLine(h, m), NEW n \in Nat,
         \A r \in places : r.at \in Nat /\ r.at < n,
         \A was \in h.acked : was.msg = m => was.epoch # h.epoch,
         ComposedOnce(h),
         NEW more, more \subseteq places \union {[at |-> n, msg |-> m]}
  PROVE  InOrder(h, more)
  <1> DEFINE new == [at |-> n, msg |-> m]
  <1>1. new.at = n /\ new.msg = m
    OBVIOUS
  <1>2. \A r \in more : r \in places \/ r = new
    OBVIOUS
  <1> HIDE DEF new
  <1>3. \A r \in more : InLine(h, r.msg)
    BY <1>1, <1>2 DEF InOrder
  <1>4. ~Before(h, m, m)
    BY DEF Before, ComposedOnce
  <1>5. ASSUME NEW r \in more, NEW t \in more, Before(h, r.msg, t.msg)
        PROVE  r.at < t.at \/ Excused(h, r.msg, t.msg)
    <2>1. CASE r \in places /\ t \in places
      BY <1>5, <2>1 DEF InOrder
    <2>2. CASE r \in places /\ t = new
      BY <1>1, <2>2
    <2>3. CASE r = new /\ t \in places
      <3>1. InLine(h, t.msg) /\ r.msg = m /\ m \in Said(h.composed)
        BY <1>1, <2>3 DEF InOrder, InLine
      <3>2. Over(h, m)
        BY <1>5, <3>1 DEF InLine
      <3>3. m \in h.letGo \/ \E was \in h.acked : was.msg = m /\ was.epoch # h.epoch
        BY <3>2 DEF Over
      <3> QED  BY <3>1, <3>3 DEF Excused
    <2>4. CASE r = new /\ t = new
      BY <1>1, <1>4, <1>5, <2>4
    <2> QED  BY <1>2, <2>1, <2>2, <2>3, <2>4
  <1> QED  BY <1>3, <1>5 DEF InOrder

\* where a thinner shelf has its messages from
Thins(f, sh, less) ==
  /\ f \in [1 .. Len(less) -> 1 .. Len(sh)]
  /\ \A i, j \in 1 .. Len(less) : i < j => f[i] < f[j]
  /\ \A i \in 1 .. Len(less) : less[i].msg = sh[f[i]].msg

LEMMA ShelfThins ==
  ASSUME NEW h, NEW g, Continues(h, g), NEW sh, ShelfInOrder(h, sh), NEW less, NEW f,
         Thins(f, sh, less),
         \A i \in 1 .. Len(less) : less[i].state = "failed" =>
           sh[f[i]].state = "failed" \/ less[i].msg \in g.letGo
  PROVE  ShelfInOrder(g, less)
  <1>0. \A i \in 1 .. Len(less) : f[i] \in 1 .. Len(sh) /\ less[i].msg = sh[f[i]].msg
    BY DEF Thins
  <1>1. \A i \in 1 .. Len(less) :
          f[i] \in 1 .. Len(sh) /\ less[i].msg = sh[f[i]].msg /\ less[i].msg \in Said(h.composed)
    <2>1. \A j \in 1 .. Len(sh) : sh[j].msg \in Said(h.composed)
      BY DEF ShelfInOrder
    <2> QED  BY <1>0, <2>1
  <1>2. \A i \in 1 .. Len(less) : /\ less[i].msg \in Said(g.composed)
                                  /\ less[i].state = "failed" => less[i].msg \in g.letGo
    BY <1>1 DEF Continues, ShelfInOrder
  <1>3. ASSUME NEW i \in 1 .. Len(less), NEW j \in 1 .. Len(less), i < j,
               Before(g, less[j].msg, less[i].msg)
        PROVE  FALSE
    <2>1. Before(h, less[j].msg, less[i].msg)
      BY <1>1, <1>3 DEF Continues
    <2>2. f[i] < f[j]
      BY <1>3 DEF Thins
    <2> QED  BY <1>1, <2>1, <2>2 DEF ShelfInOrder
  <1> QED  BY <1>2, <1>3 DEF ShelfInOrder

LEMMA MarkedThins ==
  ASSUME shelf \in Seq(Item), NEW h, NEW g, Continues(h, g), ShelfInOrder(h, shelf), NEW m,
         NEW state \in {"queued", "failed"}, state = "failed" => m \in g.letGo
  PROVE  ShelfInOrder(g, Marked(m, state))
  <1> DEFINE sh == Marked(m, state)
             f == [i \in 1 .. Len(sh) |-> i]
  <1>1. Len(shelf) \in Nat /\ sh \in Seq(Item) /\ Len(sh) = Len(shelf)
    BY MarkedFacts
  <1>2. \A i \in 1 .. Len(sh) :
          sh[i] = IF shelf[i].msg = m THEN [msg |-> m, state |-> state] ELSE shelf[i]
    BY <1>1 DEF Marked
  <1> HIDE DEF sh
  <1>3. \A i \in 1 .. Len(sh) : f[i] = i
    OBVIOUS
  <1>4. \A i \in 1 .. Len(sh) :
          /\ sh[i].msg = shelf[i].msg
          /\ sh[i].state = "failed" => shelf[i].state = "failed" \/ sh[i].msg \in g.letGo
    BY <1>2
  <1>5. Thins(f, shelf, sh)
    BY <1>1, <1>4 DEF Thins
  <1> HIDE DEF f
  <1> QED  BY <1>3, <1>4, <1>5, ShelfThins DEF sh

LEMMA WithoutThins ==
  ASSUME shelf \in Seq(Item), NEW h, NEW g, Continues(h, g), ShelfInOrder(h, shelf), NEW m
  PROVE  ShelfInOrder(g, Without(m))
  <1> DEFINE n == Len(shelf)
  <1>1. n \in Nat
    OBVIOUS
  <1>2. CASE m \notin Waiting
    <2> DEFINE f == [i \in 1 .. Len(shelf) |-> i]
    <2>1. Without(m) = shelf /\ Thins(f, shelf, shelf) /\ \A i \in 1 .. Len(shelf) : f[i] = i
      BY <1>1, <1>2 DEF Without, Thins
    <2> HIDE DEF f
    <2> QED  BY <2>1, ShelfThins
  <1>3. CASE m \in Waiting
    <2> DEFINE at == CHOOSE i \in 1 .. Len(shelf) : shelf[i].msg = m
               f == [i \in 1 .. n - 1 |-> IF i < at THEN i ELSE i + 1]
               sh == [i \in 1 .. n - 1 |-> shelf[IF i < at THEN i ELSE i + 1]]
    <2>1. \E i \in 1 .. Len(shelf) : shelf[i].msg = m
      BY <1>3 DEF Waiting
    <2>2. at \in 1 .. n
      BY <2>1
    <2>3. Without(m) = sh
      BY <1>3 DEF Without
    <2> HIDE DEF at
    <2>4. \A i \in 1 .. n - 1 : (IF i < at THEN i ELSE i + 1) \in 1 .. n
      BY <1>1, <2>2
    <2>5. n - 1 \in Nat /\ Len(sh) = n - 1
      <3>1. n - 1 \in Nat
        BY <1>1, <2>2
      <3>2. \A i \in 1 .. n - 1 : shelf[IF i < at THEN i ELSE i + 1] \in Item
        BY <2>4
      <3>3. sh \in Seq(Item)
        BY <3>1, <3>2
      <3> QED  BY <3>1, <3>3
    <2>6. /\ \A i \in 1 .. Len(sh) : f[i] \in 1 .. n /\ sh[i] = shelf[f[i]]
          /\ f \in [1 .. Len(sh) -> 1 .. n]
      BY <2>4, <2>5
    <2>7. \A i, j \in 1 .. Len(sh) : i < j => f[i] < f[j]
      BY <1>1, <2>2, <2>5
    <2> HIDE DEF f, sh
    <2>8. Thins(f, shelf, sh)
      BY <2>6, <2>7 DEF Thins
    <2> QED  BY <2>3, <2>6, <2>8, ShelfThins
  <1> QED  BY <1>2, <1>3

\* nobody asks the door by this
NobodyAsks(old, new) == \A s \in Slots : new[s].pc = "wire" => new[s] = old[s]

LEMMA AskedContinues ==
  ASSUME NEW h, NEW g, Continues(h, g), NEW fs, NEW gone, Asked(h, fs, gone), NEW new, NEW rs,
         \A s \in Slots : new[s].pc = "wire" => new[s] = fs[s] \/ InLine(h, new[s].msg),
         \A r \in rs : r \in gone \/ InLine(h, r.msg)
  PROVE  Asked(g, new, rs)
  BY InLineContinues DEF Asked

LEMMA StartedAsksNobody ==
  ASSUME NEW fs, FlightsOK(fs), NEW s \in {0} \union Slots
  PROVE  NobodyAsks(fs, Started(fs, s))
  <1>1. At("probe").pc = "probe" /\ 0 \notin Slots /\ fs \in [Slots -> Flight]
    BY AtFacts, RoomQueueAssumption DEF Pcs, FlightsOK
  <1>2. CASE s # 0 /\ fs[s].pc = "idle"
    <2>1. s \in Slots /\ Started(fs, s) = [fs EXCEPT ![s] = At("probe")]
      BY <1>2 DEF Started
    <2> QED  BY <1>1, <2>1 DEF NobodyAsks
  <1>3. CASE ~(s # 0 /\ fs[s].pc = "idle")
    BY <1>3 DEF Started, NobodyAsks
  <1> QED  BY <1>2, <1>3

LEMMA PutAsksNobody ==
  ASSUME FlightsOK(flights), NEW s \in Slots, NEW f, f.pc # "wire"
  PROVE  NobodyAsks(flights, [flights EXCEPT ![s] = f])
  BY DEF FlightsOK, NobodyAsks

LEMMA EndsAsksNobody ==
  ASSUME PhoneOK, NEW s \in Slots, NEW armed, Ends(s, armed)
  PROVE  NobodyAsks(flights, flights')
  <1> DEFINE landed == [flights EXCEPT ![s] = At("idle")]
  <1>1. Carries(At("idle")) /\ At("idle").pc = "idle"
    BY AtFacts DEF Carries, Pcs
  <1>2. FlightsOK(flights) /\ session \in {0} \union Slots
    BY DEF PhoneOK
  <1>3. FlightsOK(landed) /\ NobodyAsks(flights, landed)
    BY <1>1, <1>2, PutFacts, PutAsksNobody
  <1>4. flights' \in {landed, Started(landed, session)}
    BY DEF Ends
  <1> HIDE DEF landed
  <1>5. NobodyAsks(landed, Started(landed, session))
    BY <1>2, <1>3, StartedAsksNobody
  <1> QED  BY <1>3, <1>4, <1>5 DEF NobodyAsks

LEMMA GoesAsksNobody ==
  ASSUME PhoneOK, Goes
  PROVE  NobodyAsks(flights, flights')
  BY StartedAsksNobody DEF PhoneOK, Goes

-----------------------------------------------------------------------------
(* The phone's steps.                                                      *)

(* Nothing is composed, and the room's epoch only leaves those that are over behind. *)
LEMMA TimeContinues ==
  ASSUME composed' = composed, letGo \subseteq letGo', acked \subseteq acked',
         \A was \in acked : was.epoch # epoch => was.epoch # epoch'
  PROVE  Continues(Past, Past')
  <1> DEFINE h == [composed |-> composed, acked |-> acked, letGo |-> letGo, epoch |-> epoch]
             g == [composed |-> composed, acked |-> acked', letGo |-> letGo', epoch |-> epoch']
  <1>1. h = Past /\ g = Past'
    BY DEF Past
  <1>2. /\ h.composed = composed /\ h.acked = acked /\ h.letGo = letGo /\ h.epoch = epoch
        /\ g.composed = composed /\ g.acked = acked' /\ g.letGo = letGo' /\ g.epoch = epoch'
    OBVIOUS
  <1> HIDE DEF h, g
  <1>3. \A x, y : Before(g, x, y) => x \in Said(composed) /\ Before(h, x, y)
    BY <1>2 DEF Before, Said
  <1>4. Continues(h, g)
    BY <1>2, <1>3 DEF Continues
  <1> QED  BY <1>1, <1>4

LEMMA PhoneContinues ==
  ASSUME UNCHANGED <<logVars, composed>>, letGo \subseteq letGo', acked \subseteq acked'
  PROVE  Continues(Past, Past')
  <1>1. epoch' = epoch
    BY DEF logVars, roomVars
  <1> QED  BY <1>1, TimeContinues

LEMMA PhoneTurns ==
  ASSUME TurnInv, UNCHANGED <<logVars, composed>>, letGo \subseteq letGo', acked \subseteq acked',
         ShelfInOrder(Past', shelf'),
         \A s \in Slots : flights'[s].pc = "wire" =>
           flights'[s] = flights[s] \/ InLine(Past, flights'[s].msg),
         \A r \in late' : r \in late \/ InLine(Past, r.msg)
  PROVE  TurnInv'
  <1>1. Continues(Past, Past')
    BY PhoneContinues
  <1>2. lines' = lines /\ tail' = tail /\ messages' = messages
    BY DEF logVars, diskVars, roomVars
  <1>3. ComposedOnce(Past')
    BY DEF TurnInv, ComposedOnce, Past
  <1>4. Asked(Past', flights', late')
    BY <1>1, AskedContinues DEF TurnInv
  <1>5. InOrder(Past', OnFile(lines, tail)) /\ InOrder(Past', Memory(messages))
    BY <1>1, OrderContinues DEF TurnInv
  <1>6. InOrder(Past', OnFile(lines', tail')) /\ InOrder(Past', Memory(messages'))
    BY <1>2, <1>5
  <1> QED  BY <1>3, <1>4, <1>6 DEF TurnInv

(* A shelf that is left alone. *)
LEMMA SameShelf ==
  ASSUME shelf \in Seq(Item), NEW h, NEW g, Continues(h, g), ShelfInOrder(h, shelf)
  PROVE  ShelfInOrder(g, shelf)
  <1> DEFINE f == [i \in 1 .. Len(shelf) |-> i]
  <1>1. Len(shelf) \in Nat
    OBVIOUS
  <1>2. Thins(f, shelf, shelf) /\ \A i \in 1 .. Len(shelf) : f[i] = i
    BY <1>1 DEF Thins
  <1> HIDE DEF f
  <1> QED  BY <1>2, ShelfThins

LEMMA NobodyAsksSame == UNCHANGED flights => NobodyAsks(flights, flights')
  BY DEF NobodyAsks

(* A step of the phone that asks nobody and leaves the shelf alone. *)
LEMMA QuietTurns ==
  ASSUME QueueInv, TurnInv, UNCHANGED <<logVars, shelf, composed, acked, letGo, late>>,
         NobodyAsks(flights, flights')
  PROVE  TurnInv'
  <1>1. Continues(Past, Past') /\ shelf \in Seq(Item)
    BY PhoneContinues DEF QueueInv, PhoneOK
  <1>2. ShelfInOrder(Past', shelf)
    BY <1>1, SameShelf DEF TurnInv
  <1>3. ShelfInOrder(Past', shelf')
    BY <1>2
  <1> QED  BY <1>3, PhoneTurns DEF NobodyAsks

(* One that changes the shelf, too. *)
LEMMA ShelvedTurns ==
  ASSUME TurnInv, UNCHANGED <<logVars, composed, late>>, letGo \subseteq letGo',
         acked \subseteq acked', ShelfInOrder(Past', shelf'), NobodyAsks(flights, flights')
  PROVE  TurnInv'
  BY PhoneTurns DEF NobodyAsks

(* What is composed comes after all there is. *)
LEMMA ComposeTurns ==
  ASSUME QueueInv, TurnInv, NEW m \in Messages, Compose(m)
  PROVE  TurnInv'
  <1>1. /\ UNCHANGED <<logVars, flights>> /\ UNCHANGED <<late, acked, letGo>>
        /\ shelf \in Seq(Item) /\ composed \in Seq(Messages)
    BY DEF QueueInv, PhoneOK, Compose, netVars
  <1>2. CASE UNCHANGED <<shelf, composed>>
    BY <1>1, <1>2, NobodyAsksSame, QuietTurns
  <1>3. CASE /\ m \notin Said(composed)
             /\ shelf' = Append(shelf, [msg |-> m, state |-> "queued"])
             /\ composed' = Append(composed, m)
    <2> DEFINE n == Len(composed)
               k == Len(shelf)
               sh == Append(shelf, [msg |-> m, state |-> "queued"])
               cs == Append(composed, m)
    <2>1. n \in Nat /\ k \in Nat
      BY <1>1
    <2>2. Len(cs) = n + 1 /\ (\A i \in 1 .. n : cs[i] = composed[i]) /\ cs[n + 1] = m
      BY <1>1, AppendProperties
    <2>3. /\ Len(sh) = k + 1 /\ (\A i \in 1 .. k : sh[i] = shelf[i])
          /\ sh[k + 1].msg = m /\ sh[k + 1].state = "queued"
      <3>1. [msg |-> m, state |-> "queued"] \in Item
        BY DEF Item
      <3> QED  BY <1>1, <3>1, AppendProperties
    <2> HIDE DEF cs, sh
    <2> DEFINE h == [composed |-> composed, acked |-> acked, letGo |-> letGo, epoch |-> epoch]
               g == [composed |-> cs, acked |-> acked, letGo |-> letGo, epoch |-> epoch]
    <2>4. h = Past /\ g = Past'
      <3>1. epoch' = epoch /\ composed' = cs
        BY <1>1, <1>3 DEF logVars, roomVars, cs
      <3> QED  BY <1>1, <3>1 DEF Past
    <2>5. /\ h.composed = composed /\ g.composed = cs /\ g.acked = h.acked /\ g.letGo = h.letGo
          /\ g.epoch = h.epoch
      OBVIOUS
    <2> HIDE DEF h, g
    <2>6. Said(composed) \subseteq Said(cs) /\ m \in Said(cs)
      BY <2>1, <2>2 DEF Said
    <2>7. ASSUME NEW x, NEW y \in Said(composed), Before(g, x, y)
          PROVE  x \in Said(composed) /\ Before(h, x, y)
      <3>1. PICK i \in 1 .. n + 1, j \in 1 .. n + 1 : i < j /\ cs[i] = x /\ cs[j] = y
        BY <2>2, <2>5, <2>7 DEF Before
      <3>2. j # n + 1
        BY <1>3, <2>2, <3>1
      <3>3. i \in 1 .. n /\ j \in 1 .. n
        BY <2>1, <3>1, <3>2
      <3>4. composed[i] = x /\ composed[j] = y
        BY <2>2, <3>1, <3>3
      <3> QED  BY <2>5, <3>1, <3>3, <3>4 DEF Before, Said
    <2>8. Continues(h, g)
      BY <2>5, <2>6, <2>7 DEF Continues
    <2>9. ComposedOnce(g)
      <3>1. \A i \in 1 .. n : composed[i] # m
        BY <1>3 DEF Said
      <3>2. \A i, j \in 1 .. n : composed[i] = composed[j] => i = j
        BY <2>4, <2>5 DEF TurnInv, ComposedOnce
      <3> QED  BY <2>1, <2>2, <2>5, <3>1, <3>2 DEF ComposedOnce
    <2>10. ShelfInOrder(h, shelf)
      BY <2>4 DEF TurnInv
    <2>11. ShelfInOrder(g, sh)
      <3>1. \A i \in 1 .. k : /\ shelf[i].msg \in Said(composed)
                              /\ shelf[i].state = "failed" => shelf[i].msg \in g.letGo
        BY <2>5, <2>10 DEF ShelfInOrder
      <3>2. \A i \in 1 .. k + 1 : /\ sh[i].msg \in Said(cs)
                                  /\ sh[i].state = "failed" => sh[i].msg \in g.letGo
        <4>1. TAKE i \in 1 .. k + 1
        <4>2. CASE i = k + 1
          BY <2>3, <2>6, <4>2
        <4>3. CASE i \in 1 .. k
          <5>1. sh[i] = shelf[i]
            BY <2>3, <4>3
          <5>2. shelf[i].msg \in Said(cs)
            BY <2>6, <3>1, <4>3
          <5> QED  BY <3>1, <4>3, <5>1, <5>2
        <4> QED  BY <2>1, <4>2, <4>3
      <3>3. ASSUME NEW i \in 1 .. k + 1, NEW j \in 1 .. k + 1, i < j,
                   Before(g, sh[j].msg, sh[i].msg)
            PROVE  FALSE
        <4>1. i \in 1 .. k /\ (j \in 1 .. k \/ j = k + 1)
          BY <2>1, <3>3
        <4>2. sh[i].msg = shelf[i].msg /\ shelf[i].msg \in Said(composed)
          <5>1. sh[i] = shelf[i]
            BY <2>3, <4>1
          <5> QED  BY <3>1, <4>1, <5>1
        <4>3. sh[j].msg \in Said(composed) /\ Before(h, sh[j].msg, shelf[i].msg)
          BY <2>7, <3>3, <4>2
        <4>4. CASE j \in 1 .. k
          BY <2>3, <2>10, <3>3, <4>1, <4>3, <4>4 DEF ShelfInOrder
        <4>5. CASE j = k + 1
          BY <1>3, <2>3, <4>3, <4>5
        <4> QED  BY <4>1, <4>4, <4>5
      <3> QED  BY <2>3, <2>5, <3>2, <3>3 DEF ShelfInOrder
    <2>12. /\ lines' = lines /\ tail' = tail /\ messages' = messages
           /\ flights' = flights /\ late' = late /\ shelf' = sh
      BY <1>1, <1>3 DEF logVars, diskVars, roomVars, sh
    <2>13. /\ Asked(h, flights, late) /\ InOrder(h, OnFile(lines, tail))
           /\ InOrder(h, Memory(messages))
      BY <2>4 DEF TurnInv
    <2>14. Asked(g, flights, late)
      BY <2>8, <2>13, AskedContinues
    <2>15. InOrder(g, OnFile(lines, tail)) /\ InOrder(g, Memory(messages))
      BY <2>8, <2>13, OrderContinues
    <2> QED  BY <2>4, <2>9, <2>11, <2>12, <2>14, <2>15 DEF TurnInv
  <1> QED  BY <1>2, <1>3 DEF Compose

LEMMA SubscribeTurns ==
  ASSUME QueueInv, TurnInv, Subscribe
  PROVE  TurnInv'
  <1>1. PICK s \in Slots : flights' = Started(flights, s)
    BY DEF Subscribe
  <1>2. FlightsOK(flights) /\ UNCHANGED <<logVars, shelf, composed, acked, letGo, late>>
    BY DEF QueueInv, PhoneOK, Subscribe, netVars, pastVars
  <1>3. NobodyAsks(flights, flights')
    BY <1>1, <1>2, StartedAsksNobody
  <1> QED  BY <1>2, <1>3, QuietTurns

LEMMA UnsubscribeTurns ==
  ASSUME QueueInv, TurnInv, Unsubscribe
  PROVE  TurnInv'
  <1>1. UNCHANGED <<logVars, shelf, composed, acked, letGo, late>> /\ UNCHANGED flights
    BY DEF Unsubscribe, netVars, pastVars
  <1> QED  BY <1>1, NobodyAsksSame, QuietTurns

LEMMA DiscardTurns ==
  ASSUME QueueInv, TurnInv, NEW m \in Messages, Discard(m)
  PROVE  TurnInv'
  <1>1. /\ shelf' = Without(m) /\ letGo' = letGo \union {m}
        /\ UNCHANGED <<logVars, composed, late>> /\ UNCHANGED <<flights, acked>>
        /\ shelf \in Seq(Item)
    BY DEF QueueInv, PhoneOK, Discard, netVars
  <1>2. Continues(Past, Past')
    BY <1>1, PhoneContinues
  <1>3. ShelfInOrder(Past', Without(m))
    BY <1>1, <1>2, WithoutThins DEF TurnInv
  <1> QED  BY <1>1, <1>3, NobodyAsksSame, ShelvedTurns

LEMMA UserRetriesTurns ==
  ASSUME QueueInv, TurnInv, NEW m \in Messages, UserRetries(m)
  PROVE  TurnInv'
  <1>1. /\ shelf' = Marked(m, "queued") /\ UNCHANGED <<logVars, composed, late>>
        /\ UNCHANGED <<flights, acked, letGo>> /\ shelf \in Seq(Item)
    BY DEF QueueInv, PhoneOK, UserRetries, netVars, pastVars
  <1>2. Continues(Past, Past')
    BY <1>1, PhoneContinues
  <1>3. ShelfInOrder(Past', Marked(m, "queued"))
    BY <1>1, <1>2, MarkedThins DEF TurnInv
  <1> QED  BY <1>1, <1>3, NobodyAsksSame, ShelvedTurns

(* What starts a flight, or has one run again. *)
LEMMA CallTurns ==
  ASSUME QueueInv, TurnInv, KickArrives \/ FlushArrives \/ StreamOpens \/ TimerFires
  PROVE  TurnInv'
  <1>1. UNCHANGED <<logVars, shelf, composed, acked, letGo, late>>
    BY DEF KickArrives, FlushArrives, StreamOpens, TimerFires, netVars, pastVars
  <1>2. UNCHANGED flights \/ Goes \/ flights' = Started(flights, session)
    BY DEF KickArrives, FlushArrives, StreamOpens, TimerFires
  <1>3. NobodyAsks(flights, flights')
    BY <1>2, NobodyAsksSame, GoesAsksNobody, StartedAsksNobody DEF QueueInv, PhoneOK
  <1> QED  BY <1>1, <1>3, QuietTurns

LEMMA EmptyInOrder == \A h : ShelfInOrder(h, <<>>)
  BY EmptySeq DEF ShelfInOrder

LEMMA ProbeTurns ==
  ASSUME QueueInv, TurnInv, NEW s \in Slots, Probe(s)
  PROVE  TurnInv'
  <1>1. PhoneOK /\ FlightsOK(flights) /\ UNCHANGED <<logVars, composed, late>> /\ UNCHANGED acked
    BY DEF QueueInv, PhoneOK, Probe, netVars
  <1>2. CASE flights' = [flights EXCEPT ![s] = At("look")] /\ UNCHANGED <<shelf, rerun, letGo>>
    <2>1. At("look").pc # "wire"
      BY AtFacts DEF Pcs
    <2>2. NobodyAsks(flights, flights')
      BY <1>1, <1>2, <2>1, PutAsksNobody
    <2> QED  BY <1>1, <1>2, <2>2, QuietTurns
  <1>3. CASE /\ shelf' = <<>> /\ letGo' = letGo \union Waiting
             /\ Ends(s, s = session /\ timer)
    <2>1. NobodyAsks(flights, flights')
      BY <1>1, <1>3, EndsAsksNobody
    <2>2. ShelfInOrder(Past', shelf')
      BY <1>3, EmptyInOrder
    <2> QED  BY <1>1, <1>3, <2>1, <2>2, ShelvedTurns
  <1> QED  BY <1>2, <1>3 DEF Probe

(* The head of the shelf is next: all that was composed before it is over. *)
LEMMA HeadInLine ==
  ASSUME QueueInv, TurnInv, NEW i \in Heads
  PROVE  InLine(Past, shelf[i].msg)
  <1> DEFINE y == shelf[i].msg
             h == [composed |-> composed, acked |-> acked, letGo |-> letGo, epoch |-> epoch]
  <1>1. h = Past
    BY DEF Past
  <1>2. h.composed = composed /\ h.acked = acked /\ h.letGo = letGo
    OBVIOUS
  <1> HIDE DEF h
  <1>3. ComposedOnce(h) /\ ShelfInOrder(h, shelf)
    BY <1>1 DEF TurnInv
  <1>4. /\ i \in 1 .. Len(shelf) /\ Len(shelf) \in Nat /\ shelf \in Seq(Item)
        /\ \A j \in 1 .. i - 1 : shelf[j].state # "queued"
    BY DEF Heads, QueueInv, PhoneOK
  <1>5. y \in Said(composed)
    BY <1>2, <1>3, <1>4 DEF ShelfInOrder
  <1>6. ASSUME NEW x \in Said(composed), Before(h, x, y)
        PROVE  Over(h, x)
    <2>1. CASE x \in letGo \/ \E a \in acked : a.msg = x
      BY <1>2, <2>1 DEF Over
    <2>2. CASE x \in Waiting
      <3>1. PICK k \in 1 .. Len(shelf) : shelf[k].msg = x
        BY <2>2 DEF Waiting
      <3>2. CASE k < i
        <4>1. shelf[k] \in Item /\ k \in 1 .. i - 1
          BY <1>4, <3>1, <3>2
        <4>2. shelf[k].state = "failed"
          BY <1>4, <4>1 DEF Item
        <4>3. x \in letGo
          BY <1>2, <1>3, <3>1, <4>2 DEF ShelfInOrder
        <4> QED  BY <2>1, <4>3
      <3>3. CASE k = i
        BY <1>3, <1>6, <3>1, <3>3 DEF Before, ComposedOnce
      <3>4. CASE i < k
        BY <1>3, <1>4, <1>6, <3>1, <3>4 DEF ShelfInOrder
      <3> QED  BY <1>4, <3>1, <3>2, <3>3, <3>4
    <2> QED  BY <2>1, <2>2 DEF QueueInv, NothingLost
  <1>7. InLine(h, y)
    BY <1>2, <1>5, <1>6 DEF InLine
  <1> QED  BY <1>1, <1>7

LEMMA LookTurns ==
  ASSUME QueueInv, TurnInv, NEW s \in Slots, Look(s)
  PROVE  TurnInv'
  <1>1. /\ PhoneOK /\ FlightsOK(flights)
        /\ UNCHANGED <<logVars, shelf, composed, acked, letGo, late>>
    BY DEF QueueInv, PhoneOK, Look, netVars, pastVars
  <1>2. CASE Ends(s, s = session /\ timer)
    BY <1>1, <1>2, EndsAsksNobody, QuietTurns
  <1>3. ASSUME NEW i \in Heads,
               flights' = [flights EXCEPT ![s] = [At("wire") EXCEPT !.msg = shelf[i].msg,
                                                                    !.epoch = known]]
        PROVE  TurnInv'
    <2> DEFINE f == [At("wire") EXCEPT !.msg = shelf[i].msg, !.epoch = known]
    <2>1. f.msg = shelf[i].msg
      BY DEF At
    <2> HIDE DEF f
    <2>2. flights' = [flights EXCEPT ![s] = f] /\ flights \in [Slots -> Flight]
      BY <1>1, <1>3 DEF FlightsOK, f
    <2>3. \A x \in Slots : flights'[x] = flights[x] \/ flights'[x] = f
      BY <2>2
    <2>4. InLine(Past, shelf[i].msg)
      BY HeadInLine
    <2>5. \A x \in Slots : flights'[x] = flights[x] \/ InLine(Past, flights'[x].msg)
      BY <2>1, <2>3, <2>4
    <2>6. Continues(Past, Past')
      BY <1>1, PhoneContinues
    <2>7. ShelfInOrder(Past', shelf)
      BY <1>1, <2>6, SameShelf DEF PhoneOK, TurnInv
    <2> QED  BY <1>1, <2>5, <2>7, PhoneTurns
  <1> QED  BY <1>2, <1>3 DEF Look

LEMMA ToldAsksNobody ==
  ASSUME FlightsOK(flights), NEW s \in Slots, NEW verdict, Told(s, verdict)
  PROVE  NobodyAsks(flights, flights')
  <1> DEFINE f == [flights[s] EXCEPT !.pc = "told", !.answer = verdict,
                                     !.epoch = IF verdict = "sent" THEN epoch ELSE NoEpoch]
  <1>1. flights' = [flights EXCEPT ![s] = f]
    BY DEF Told
  <1>2. flights[s] \in Flight
    BY DEF FlightsOK
  <1>3. f.pc = "told"
    BY <1>2 DEF Flight
  <1> HIDE DEF f
  <1> QED  BY <1>1, <1>3, PutAsksNobody

LEMMA RefusedTurns ==
  ASSUME QueueInv, TurnInv, NEW s \in Slots,
         DoorRefuses(s) \/ DoorUnusable(s) \/ AnswerLost(s) \/ HearsEpoch(s)
  PROVE  TurnInv'
  <1>1. FlightsOK(flights) /\ UNCHANGED <<logVars, shelf, composed, acked, letGo, late>>
    BY DEF QueueInv, PhoneOK, DoorRefuses, DoorUnusable, AnswerLost, HearsEpoch, netVars,
           pastVars
  <1>2. NobodyAsks(flights, flights')
    BY <1>1, ToldAsksNobody DEF DoorRefuses, DoorUnusable, AnswerLost, HearsEpoch
  <1> QED  BY <1>1, <1>2, QuietTurns

(* What was given up was in line when it went out. *)
LEMMA RequestLostTurns ==
  ASSUME QueueInv, TurnInv, NEW s \in Slots, RequestLost(s)
  PROVE  TurnInv'
  <1>1. /\ FlightsOK(flights) /\ shelf \in Seq(Item) /\ Told(s, "retry")
        /\ UNCHANGED <<logVars, composed>> /\ UNCHANGED <<shelf, acked, letGo>>
        /\ flights[s].pc = "wire"
        /\ late' \in {late, late \union {[msg |-> flights[s].msg, epoch |-> flights[s].epoch]}}
    BY DEF QueueInv, PhoneOK, RequestLost
  <1>2. NobodyAsks(flights, flights')
    BY <1>1, ToldAsksNobody
  <1>3. Continues(Past, Past')
    BY <1>1, PhoneContinues
  <1>4. ShelfInOrder(Past', shelf)
    BY <1>1, <1>3, SameShelf DEF TurnInv
  <1>5. InLine(Past, flights[s].msg)
    BY <1>1 DEF TurnInv, Asked
  <1>6. \A r \in late' : r \in late \/ InLine(Past, r.msg)
    BY <1>1, <1>5
  <1> QED  BY <1>1, <1>2, <1>4, <1>6, PhoneTurns DEF NobodyAsks

LEMMA SettleTurns ==
  ASSUME QueueInv, TurnInv, NEW s \in Slots, Settle(s)
  PROVE  TurnInv'
  <1> DEFINE m == flights[s].msg
             verdict == flights[s].answer
  <1>1. /\ PhoneOK /\ FlightsOK(flights) /\ shelf \in Seq(Item) /\ SettlesAs(s, m, verdict)
        /\ UNCHANGED <<logVars, composed, late>>
    BY DEF QueueInv, PhoneOK, Settle, netVars
  <1>2. ASSUME letGo \subseteq letGo', acked \subseteq acked', NobodyAsks(flights, flights'),
               \/ shelf' = Without(m) \/ shelf' = Marked(m, "queued")
               \/ shelf' = Marked(m, "failed") /\ m \in letGo'
        PROVE  TurnInv'
    <2>1. Continues(Past, Past') /\ ShelfInOrder(Past, shelf)
      BY <1>1, <1>2, PhoneContinues DEF TurnInv
    <2>2. Past'.letGo = letGo'
      BY DEF Past
    <2>3. ShelfInOrder(Past', Without(m)) /\ ShelfInOrder(Past', Marked(m, "queued"))
      BY <1>1, <2>1, WithoutThins, MarkedThins
    <2>4. m \in letGo' => ShelfInOrder(Past', Marked(m, "failed"))
      BY <1>1, <2>1, <2>2, MarkedThins
    <2>5. ShelfInOrder(Past', shelf')
      BY <1>2, <2>3, <2>4
    <2> QED  BY <1>1, <1>2, <2>5, ShelvedTurns
  <1>3. CASE flights' = [flights EXCEPT ![s] = At("look")]
    <2>1. At("look").pc # "wire"
      BY AtFacts DEF Pcs
    <2>2. NobodyAsks(flights, flights')
      BY <1>1, <1>3, <2>1, PutAsksNobody
    <2>3. \/ shelf' = Without(m) /\ acked \subseteq acked' /\ letGo' = letGo
          \/ shelf' = Marked(m, "failed") /\ letGo' = letGo \union {m} /\ acked' = acked
          \/ shelf' = Marked(m, "queued") /\ letGo' = letGo /\ acked' = acked
      BY <1>1 DEF SettlesAs
    <2> QED  BY <1>2, <2>2, <2>3
  <1>4. ASSUME NEW armed, Ends(s, armed), shelf' = Marked(m, "queued"), UNCHANGED <<acked, letGo>>
        PROVE  TurnInv'
    BY <1>1, <1>2, <1>4, EndsAsksNobody
  <1>5. CASE /\ shelf' = Marked(m, "queued") /\ Ends(s, s = session /\ timer)
             /\ UNCHANGED <<acked, letGo>>
    BY <1>4, <1>5
  <1>6. CASE shelf' = Marked(m, "queued") /\ Ends(s, s = session) /\ UNCHANGED <<acked, letGo>>
    BY <1>4, <1>6
  <1> QED  BY <1>1, <1>3, <1>5, <1>6 DEF SettlesAs

LEMMA StorageFailsTurns ==
  ASSUME QueueInv, TurnInv, NEW s \in Slots, StorageFails(s)
  PROVE  TurnInv'
  <1>1. /\ PhoneOK /\ Ends(s, s = session /\ timer)
        /\ UNCHANGED <<logVars, shelf, composed, acked, letGo, late>>
    BY DEF QueueInv, StorageFails, netVars
  <1> QED  BY <1>1, EndsAsksNobody, QuietTurns

LEMMA AppKilledTurns ==
  ASSUME QueueInv, TurnInv, AppKilled
  PROVE  TurnInv'
  <1>1. /\ shelf \in Seq(Item) /\ flights' = [s \in Slots |-> At("idle")]
        /\ UNCHANGED <<logVars, composed>> /\ UNCHANGED <<shelf, acked, letGo>>
    BY DEF QueueInv, PhoneOK, AppKilled
  <1>2. At("idle").pc # "wire"
    BY AtFacts DEF Pcs
  <1>3. \A s \in Slots : flights'[s].pc # "wire"
    BY <1>1, <1>2
  <1>4. PICK gone \in SUBSET {s \in Slots : flights[s].pc = "wire"} :
          late' = late \union {[msg |-> flights[s].msg, epoch |-> flights[s].epoch] : s \in gone}
    BY DEF AppKilled
  <1>5. \A s \in gone : InLine(Past, flights[s].msg)
    BY DEF TurnInv, Asked
  <1>6. \A r \in late' : r \in late \/ InLine(Past, r.msg)
    BY <1>4, <1>5
  <1>7. Continues(Past, Past')
    BY <1>1, PhoneContinues
  <1>8. ShelfInOrder(Past', shelf)
    BY <1>1, <1>7, SameShelf DEF TurnInv
  <1> QED  BY <1>1, <1>3, <1>6, <1>8, PhoneTurns

LEMMA SupersededTurns ==
  ASSUME QueueInv, TurnInv, Superseded
  PROVE  TurnInv'
  <1>1. /\ UNCHANGED <<logVars, composed, late>> /\ UNCHANGED acked /\ UNCHANGED flights
        /\ \/ shelf' = <<>> /\ letGo' = letGo \union Waiting
           \/ UNCHANGED <<shelf, letGo>>
    BY DEF Superseded, netVars
  <1>2. CASE shelf' = <<>> /\ letGo' = letGo \union Waiting
    <2>1. ShelfInOrder(Past', shelf')
      BY <1>2, EmptyInOrder
    <2> QED  BY <1>1, <1>2, <2>1, NobodyAsksSame, ShelvedTurns
  <1>3. CASE UNCHANGED <<shelf, letGo>>
    BY <1>1, <1>3, NobodyAsksSame, QuietTurns
  <1> QED  BY <1>1, <1>2, <1>3

LEMMA ForgottenTurns ==
  ASSUME QueueInv, TurnInv, Forgotten
  PROVE  TurnInv'
  <1>1. UNCHANGED <<logVars, shelf, composed, acked, letGo, late>> /\ UNCHANGED flights
    BY DEF Forgotten, phoneVars
  <1> QED  BY <1>1, NobodyAsksSame, QuietTurns

-----------------------------------------------------------------------------
(* The store's steps.                                                      *)

(* The places in a file of complete lines. *)
LEMMA WholeLines ==
  ASSUME NEW ls, NEW all, \A i \in 1 .. Len(ls) : [at |-> i, msg |-> ls[i].msg] \in all
  PROVE  OnFile(ls, <<>>) \subseteq all
  <1>1. Len(<<>>) = 0
    BY EmptySeq
  <1>2. {k \in 1 .. 0 : <<>>[k].msg # Nothing} = {}
    OBVIOUS
  <1> QED  BY <1>1, <1>2 DEF OnFile

(* Opening a file moves no message, and memory has what the file has. *)
LEMMA OpenedRows ==
  ASSUME NEW ls \in Seq(LineRecords), NEW tl \in Seq(LineRecords), Len(tl) <= 1,
         NEW o \in Opened(ls, tl)
  PROVE  /\ OnFile(o.lines, o.tail) \subseteq OnFile(ls, tl)
         /\ Memory(o.messages) \subseteq OnFile(ls, tl)
  <1>1. PICK n \in Accepted(ls) : o \in FromPrefix(ls, tl, n)
    BY DEF Opened
  <1>2. /\ n \in 0 .. Len(ls) /\ Len(ls) \in Nat /\ Len(tl) \in Nat
        /\ \A i \in 1 .. n : ls[i].msg # Nothing
    BY AcceptedPrefix, RoomLogAssumption
  <1> DEFINE ms == Read(ls, n)
             kept == SubSeq(ls, 1, n)
             row(i, m) == [at |-> i, msg |-> m]
             all == OnFile(ls, tl)
  <1>3. Len(ms) = n /\ \A i \in 1 .. n : ms[i] = ls[i].msg
    BY <1>2 DEF Read
  <1>4. Len(kept) = n /\ \A i \in 1 .. n : kept[i] = ls[i]
    BY <1>2
  <1> HIDE DEF ms, kept
  <1>5. \A i \in 1 .. Len(ls) : ls[i].msg # Nothing => row(i, ls[i].msg) \in all
    BY DEF OnFile
  <1>6. \A i \in 1 .. Len(tl) : tl[i].msg # Nothing => row(Len(ls) + 1, tl[i].msg) \in all
    BY DEF OnFile
  <1> HIDE DEF all
  <1>7. \A i \in 1 .. n : row(i, ls[i].msg) \in all
    BY <1>2, <1>5
  <1>8. Memory(ms) \subseteq all
    BY <1>3, <1>7 DEF Memory
  <1>9. OnFile(kept, <<>>) \subseteq all
    <2>1. \A i \in 1 .. Len(kept) : [at |-> i, msg |-> kept[i].msg] \in all
      BY <1>4, <1>7
    <2> QED  BY <2>1, WholeLines
  <1>10. CASE \E w \in BOOLEAN : o = Found(ls, tl, n, w)
    <2>1. o.messages = ms /\ o.lines = ls /\ o.tail = tl
      BY <1>10 DEF Found, ms
    <2> QED  BY <1>8, <2>1 DEF all
  <1>11. CASE \E what \in {"middle", "tail"} : o = Cut(ls, n, what)
    <2>1. PICK what \in {"middle", "tail"} : o = Cut(ls, n, what)
      BY <1>11
    <2>2. o = [messages |-> ms, lines |-> kept, tail |-> <<>>, writable |-> TRUE, recovery |-> what]
      BY <2>1 DEF Cut, ms, kept
    <2>3. o.messages = ms /\ o.lines = kept /\ o.tail = <<>>
      BY <2>2
    <2> QED  BY <1>8, <1>9, <2>3 DEF all
  <1>12. CASE o = Mended(ls, tl, n) /\ n = Len(ls) /\ tl # <<>> /\ Fits(tl[1], ls)
    <2> DEFINE more == Append(ms, tl[1].msg)
               mended == Append(ls, tl[1])
    <2>1. Len(tl) = 1 /\ tl[1] \in LineRecords /\ tl[1].msg # Nothing
      <3> DEFINE k == Len(tl)
      <3>1. k \in Nat /\ k # 0 /\ k <= 1
        BY <1>12, EmptySeq
      <3> HIDE DEF k
      <3>2. k = 1
        BY <3>1
      <3>3. tl[1] \in LineRecords
        BY <3>2 DEF k
      <3> QED  BY <1>12, <3>2, <3>3 DEF k, Fits
    <2>2. row(n + 1, tl[1].msg) \in all
      BY <1>6, <1>12, <2>1
    <2>3. /\ Len(more) = n + 1 /\ more[n + 1] = tl[1].msg
          /\ \A i \in 1 .. n : more[i] = ls[i].msg
      <3>1. \A i \in 1 .. n : ms[i] \in Messages \union {Nothing}
        <4>1. TAKE i \in 1 .. n
        <4>2. ls[i] \in LineRecords
          BY <1>2
        <4> QED  BY <1>3, <4>2 DEF LineRecords
      <3>2. ms = [i \in 1 .. n |-> ls[i].msg]
        BY DEF ms, Read
      <3>3. ms \in Seq(Messages \union {Nothing})
        BY <1>2, <1>3, <3>1, <3>2
      <3>4. tl[1].msg \in Messages \union {Nothing}
        BY <2>1 DEF LineRecords
      <3> QED  BY <1>3, <3>3, <3>4, AppendProperties
    <2>4. /\ Len(mended) = n + 1 /\ mended[n + 1] = tl[1]
          /\ \A i \in 1 .. n : mended[i] = ls[i]
      BY <1>12, <2>1, AppendProperties
    <2> HIDE DEF more, mended
    <2>5. \A i \in 1 .. n + 1 : row(i, more[i]) \in all /\ row(i, mended[i].msg) \in all
      <3>1. TAKE i \in 1 .. n + 1
      <3>2. CASE i = n + 1
        BY <2>2, <2>3, <2>4, <3>2
      <3>3. CASE i \in 1 .. n
        BY <1>7, <2>3, <2>4, <3>3
      <3> QED  BY <1>2, <3>2, <3>3
    <2>6. Memory(more) \subseteq all
      BY <2>3, <2>5 DEF Memory
    <2>7. OnFile(mended, <<>>) \subseteq all
      <3>1. \A i \in 1 .. Len(mended) : [at |-> i, msg |-> mended[i].msg] \in all
        BY <2>4, <2>5
      <3> QED  BY <3>1, WholeLines
    <2>8. o.messages = more /\ o.lines = mended /\ o.tail = <<>>
      BY <1>12 DEF Mended, more, mended, ms
    <2> QED  BY <2>6, <2>7, <2>8 DEF all
  <1>13. \/ \E w \in BOOLEAN : o = Found(ls, tl, n, w)
         \/ \E what \in {"middle", "tail"} : o = Cut(ls, n, what)
         \/ o = Mended(ls, tl, n) /\ n = Len(ls) /\ tl # <<>> /\ Fits(tl[1], ls)
    <2>1. CASE n < Len(ls)
      BY <1>1, <2>1 DEF FromPrefix
    <2>2. CASE n = Len(ls) /\ tl = <<>>
      BY <1>1, <1>2, <2>2 DEF FromPrefix
    <2>3. CASE n = Len(ls) /\ tl # <<>>
      <3>1. CASE tl[1] = Garbage
        BY <1>1, <1>2, <2>3, <3>1 DEF FromPrefix
      <3>2. CASE tl[1] # Garbage
        BY <1>1, <1>2, <2>3, <3>2 DEF FromPrefix
      <3> QED  BY <3>1, <3>2
    <2>4. n < Len(ls) \/ n = Len(ls)
      BY <1>2
    <2> QED  BY <2>1, <2>2, <2>3, <2>4
  <1> QED  BY <1>10, <1>11, <1>12, <1>13

(* An append that failed, or did not, put nothing in the file but the message, at its end. *)
LEMMA WroteRows ==
  ASSUME lines \in Seq(LineRecords), tail = <<>>, NEW m \in Messages, NEW d \in Wrote(Line(m))
  PROVE  OnFile(d.lines, d.tail) \subseteq
           OnFile(lines, tail) \union {[at |-> Len(lines) + 1, msg |-> m]}
  <1> DEFINE n == Len(lines)
             line == Line(m)
             more == Append(lines, line)
             all == OnFile(lines, tail) \union {[at |-> n + 1, msg |-> m]}
  <1>1. n \in Nat /\ Landing(line) = line /\ line.msg = m /\ Garbage.msg = Nothing
    BY DEF Landing, Line, Garbage
  <1>2. Len(more) = n + 1 /\ more[n + 1] = line /\ \A i \in 1 .. n : more[i] = lines[i]
    <2> DEFINE any == LineRecords \union {line}
    <2>1. lines \in Seq(any) /\ line \in any
      OBVIOUS
    <2> HIDE DEF any, line
    <2> QED  BY <2>1, AppendProperties
  <1>3. \A i \in 1 .. n : lines[i].msg # Nothing => [at |-> i, msg |-> lines[i].msg] \in all
    BY DEF OnFile
  <1>4. [at |-> n + 1, msg |-> m] \in all
    OBVIOUS
  <1>5. OnFile(lines, tail) \subseteq all
    OBVIOUS
  <1> HIDE DEF all, more, line
  <1>6. ASSUME NEW part, part.msg \in {Nothing, m}
        PROVE  OnFile(lines, <<part>>) \subseteq all
    <2>1. Len(<<part>>) = 1 /\ <<part>>[1] = part
      OBVIOUS
    <2>2. \A k \in 1 .. 1 : k = 1
      OBVIOUS
    <2> QED  BY <1>3, <1>4, <1>6, <2>1, <2>2 DEF OnFile
  <1>7. OnFile(more, <<>>) \subseteq all
    <2>1. ASSUME NEW i \in 1 .. n + 1, more[i].msg # Nothing
          PROVE  [at |-> i, msg |-> more[i].msg] \in all
      <3>1. CASE i = n + 1
        BY <1>1, <1>2, <1>4, <3>1
      <3>2. CASE i \in 1 .. n
        BY <1>2, <1>3, <2>1, <3>2
      <3> QED  BY <1>1, <3>1, <3>2
    <2>2. Len(<<>>) = 0 /\ {k \in 1 .. 0 : <<>>[k].msg # Nothing} = {}
      BY EmptySeq
    <2> QED  BY <1>2, <2>1, <2>2 DEF OnFile
  <1>8. \/ d.lines = lines /\ d.tail = tail
        \/ d.lines = lines /\ d.tail = <<Garbage>>
        \/ d.lines = lines /\ d.tail = <<line>>
        \/ d.lines = more /\ d.tail = <<>>
    BY <1>1 DEF Wrote, more, line
  <1>9. \/ OnFile(d.lines, d.tail) = OnFile(lines, tail)
        \/ OnFile(d.lines, d.tail) = OnFile(lines, <<Garbage>>)
        \/ OnFile(d.lines, d.tail) = OnFile(lines, <<line>>)
        \/ OnFile(d.lines, d.tail) = OnFile(more, <<>>)
    BY <1>8
  <1>10. OnFile(d.lines, d.tail) \subseteq all
    BY <1>1, <1>5, <1>6, <1>7, <1>9
  <1> QED  BY <1>10 DEF all

(* Time passes for the history with every step of the store. *)
LEMMA StoreContinues ==
  ASSUME LogInv, QueueInv, [LogNext]_logVars, UNCHANGED <<composed, acked, letGo>>
  PROVE  Continues(Past, Past')
  <1>1. epoch \in Nat /\ Epochs \subseteq Nat /\ (epoch' = epoch \/ epoch' = epoch + 1)
    BY BookGrows, RoomLogAssumption DEF LogInv, LogTypeOK, Epochs
  <1>2. \A was \in acked : was.epoch \in Epochs /\ was.epoch <= epoch
    BY DEF QueueInv, ToldRight, Remembered
  <1>3. \A was \in acked : was.epoch # epoch => was.epoch # epoch'
    BY <1>1, <1>2
  <1> QED  BY <1>3, TimeContinues

(* A step of the store, seen by the phone. *)
LEMMA StoreTurns ==
  ASSUME QueueInv, TurnInv, UNCHANGED <<shelf, composed, acked, letGo>>, Continues(Past, Past'),
         NobodyAsks(flights, flights'), late' \subseteq late,
         InOrder(Past', OnFile(lines', tail')), InOrder(Past', Memory(messages'))
  PROVE  TurnInv'
  <1>1. ComposedOnce(Past')
    BY DEF TurnInv, ComposedOnce, Past
  <1>2. ShelfInOrder(Past', shelf)
    BY SameShelf DEF QueueInv, PhoneOK, TurnInv
  <1>3. ShelfInOrder(Past', shelf')
    BY <1>2
  <1>4. Asked(Past', flights', late')
    BY AskedContinues DEF TurnInv, NobodyAsks
  <1> QED  BY <1>1, <1>3, <1>4 DEF TurnInv

(* What comes to the end of the transcript in line, and is not there yet, is in order. *)
LEMMA PostedInOrder ==
  ASSUME LogInv, QueueInv, TurnInv, [LogNext]_logVars, UNCHANGED <<composed, acked, letGo>>,
         running, writable, NEW m \in Messages, m \notin Said(messages), InLine(Past, m),
         OnFile(lines', tail') \subseteq
           OnFile(lines, tail) \union {[at |-> Len(lines) + 1, msg |-> m]},
         Memory(messages') \subseteq
           Memory(messages) \union {[at |-> Len(messages) + 1, msg |-> m]}
  PROVE  InOrder(Past', OnFile(lines', tail')) /\ InOrder(Past', Memory(messages'))
  <1> DEFINE h == [composed |-> composed, acked |-> acked, letGo |-> letGo, epoch |-> epoch]
  <1>1. h = Past
    BY DEF Past
  <1>2. h.acked = acked /\ h.epoch = epoch
    OBVIOUS
  <1> HIDE DEF h
  <1>3. /\ lines \in Seq(LineRecords) /\ messages \in Seq(Messages) /\ tail = <<>>
        /\ Len(lines) \in Nat /\ Len(messages) \in Nat
    BY DEF LogInv, LogTypeOK
  <1>4. \A was \in h.acked : was.msg = m => was.epoch # h.epoch
    BY <1>2 DEF LogInv, QueueInv, ToldRight, Remembered
  <1>5. \A r \in OnFile(lines, tail) : r.at \in Nat /\ r.at < Len(lines) + 1
    <2>1. Len(<<>>) = 0 /\ {k \in 1 .. 0 : <<>>[k].msg # Nothing} = {}
      BY EmptySeq
    <2> QED  BY <1>3, <2>1 DEF OnFile
  <1>6. \A r \in Memory(messages) : r.at \in Nat /\ r.at < Len(messages) + 1
    BY <1>3 DEF Memory
  <1>7. /\ InOrder(h, OnFile(lines, tail)) /\ InOrder(h, Memory(messages))
        /\ ComposedOnce(h) /\ InLine(h, m)
    BY <1>1 DEF TurnInv
  <1>8. Len(lines) + 1 \in Nat /\ Len(messages) + 1 \in Nat
    BY <1>3
  <1>9. InOrder(h, OnFile(lines', tail'))
    BY <1>4, <1>5, <1>7, <1>8, LandsInOrder
  <1>10. InOrder(h, Memory(messages'))
    BY <1>4, <1>6, <1>7, <1>8, LandsInOrder
  <1>11. Continues(h, Past')
    BY <1>1, StoreContinues
  <1> QED  BY <1>9, <1>10, <1>11, OrderContinues

LEMMA MemoryGrows ==
  ASSUME NEW m \in Messages, messages \in Seq(Messages), NEW ms, ms \in {messages, Append(messages, m)}
  PROVE  Memory(ms) \subseteq Memory(messages) \union {[at |-> Len(messages) + 1, msg |-> m]}
  <1> DEFINE more == Append(messages, m)
  <1>1. /\ Len(messages) \in Nat /\ Len(more) = Len(messages) + 1
        /\ more[Len(messages) + 1] = m /\ \A i \in 1 .. Len(messages) : more[i] = messages[i]
    BY AppendProperties
  <1> HIDE DEF more
  <1>2. Memory(more) \subseteq Memory(messages) \union {[at |-> Len(messages) + 1, msg |-> m]}
    <2>1. \A i \in 1 .. Len(messages) + 1 : i \in 1 .. Len(messages) \/ i = Len(messages) + 1
      BY <1>1
    <2> QED  BY <1>1, <2>1 DEF Memory
  <1> QED  BY <1>2 DEF more

(* Posting, whether the append fails or not. *)
LEMMA PostInOrder ==
  ASSUME LogInv, QueueInv, TurnInv, UNCHANGED <<composed, acked, letGo>>,
         NEW m \in Messages, InLine(Past, m), NEW answer \in Answers,
         Lands(m) \/ AppendFails(m, answer)
  PROVE  InOrder(Past', OnFile(lines', tail')) /\ InOrder(Past', Memory(messages'))
  <1>1. /\ running /\ writable /\ m \notin Said(messages)
        /\ messages \in Seq(Messages) /\ lines \in Seq(LineRecords) /\ tail = <<>>
    BY DEF Lands, AppendFails, LogInv, LogTypeOK
  <1>2. [LogNext]_logVars
    <2>1. CASE Lands(m)
      BY <2>1 DEF LogNext, Post, Answers
    <2>2. CASE AppendFails(m, answer)
      BY <2>2 DEF LogNext, Post
    <2> QED  BY <2>1, <2>2
  <1>3. messages' \in {messages, Append(messages, m)}
    <2>1. CASE Lands(m)
      BY <2>1 DEF Lands, Serve
    <2>2. CASE AppendFails(m, answer)
      BY <2>2 DEF AppendFails, Settles, Serve
    <2> QED  BY <2>1, <2>2
  <1> DEFINE all == OnFile(lines, tail) \union {[at |-> Len(lines) + 1, msg |-> m]}
  <1>4. OnFile(lines', tail') \subseteq all
    <2>1. CASE Lands(m)
      <3> DEFINE d == [lines |-> Append(lines, Landing(Line(m))), tail |-> <<>>]
      <3>1. d \in Wrote(Line(m))
        BY DEF Wrote
      <3>2. d.lines = lines' /\ d.tail = tail'
        BY <2>1 DEF Lands
      <3> HIDE DEF d
      <3>3. OnFile(d.lines, d.tail) \subseteq all
        BY <1>1, <3>1, WroteRows
      <3> QED  BY <3>2, <3>3
    <2>2. CASE AppendFails(m, answer)
      <3>1. PICK d \in Wrote(Line(m)) : \E o \in Opened(d.lines, d.tail) : Settles(m, o, answer)
        BY <2>2 DEF AppendFails
      <3>2. PICK o \in Opened(d.lines, d.tail) : Settles(m, o, answer)
        BY <3>1
      <3>3. Line(m) \in LineRecords
        BY <1>1 DEF Line, LineRecords
      <3>4. d.lines \in Seq(LineRecords) /\ d.tail \in Seq(LineRecords) /\ Len(d.tail) <= 1
        BY <1>1, <3>3, WroteSound DEF LogInv
      <3>5. OnFile(o.lines, o.tail) \subseteq OnFile(d.lines, d.tail)
        BY <3>4, OpenedRows
      <3>6. OnFile(d.lines, d.tail) \subseteq all
        BY <1>1, WroteRows
      <3>7. lines' = o.lines /\ tail' = o.tail
        BY <3>2 DEF Settles
      <3> QED  BY <3>5, <3>6, <3>7
    <2> QED  BY <2>1, <2>2
  <1>5. Memory(messages') \subseteq
          Memory(messages) \union {[at |-> Len(messages) + 1, msg |-> m]}
    BY <1>1, <1>3, MemoryGrows
  <1> QED  BY <1>1, <1>2, <1>4, <1>5, PostedInOrder

(* What is on disk or in memory only goes. *)
LEMMA LeftInOrder ==
  ASSUME LogInv, QueueInv, TurnInv, [LogNext]_logVars, UNCHANGED <<composed, acked, letGo>>,
         OnFile(lines', tail') \subseteq OnFile(lines, tail),
         \/ Memory(messages') \subseteq Memory(messages)
         \/ Memory(messages') \subseteq OnFile(lines, tail)
  PROVE  InOrder(Past', OnFile(lines', tail')) /\ InOrder(Past', Memory(messages'))
  <1>1. Continues(Past, Past')
    BY StoreContinues
  <1>2. InOrder(Past, OnFile(lines, tail)) /\ InOrder(Past, Memory(messages))
    BY DEF TurnInv
  <1> QED  BY <1>1, <1>2, OrderContinues

LEMMA SameInOrder ==
  ASSUME LogInv, QueueInv, TurnInv, [LogNext]_logVars, UNCHANGED <<composed, acked, letGo>>,
         UNCHANGED <<lines, tail, messages>>
  PROVE  InOrder(Past', OnFile(lines', tail')) /\ InOrder(Past', Memory(messages'))
  BY LeftInOrder

LEMMA AnsweredInOrder ==
  ASSUME LogInv, QueueInv, TurnInv, UNCHANGED <<composed, acked, letGo>>,
         NEW m \in Messages, InLine(Past, m), NEW stamp, NEW verdict, Answered(m, stamp, verdict)
  PROVE  InOrder(Past', OnFile(lines', tail')) /\ InOrder(Past', Memory(messages'))
  <1>1. CASE UNCHANGED logVars
    BY <1>1, SameInOrder DEF logVars, diskVars, roomVars
  <1>2. CASE Lands(m)
    <2>1. "ok" \in Answers
      BY DEF Answers
    <2> QED  BY <1>2, <2>1, PostInOrder
  <1>3. ASSUME NEW answer \in Answers, AppendFails(m, answer)
        PROVE  InOrder(Past', OnFile(lines', tail')) /\ InOrder(Past', Memory(messages'))
    BY <1>3, PostInOrder
  <1> QED  BY <1>1, <1>2, <1>3 DEF Answered, Repeats, Refuses

LEMMA AsksTurns ==
  ASSUME LogInv, QueueInv, TurnInv, NEW s \in Slots, Asks(s)
  PROVE  TurnInv'
  <1>1. /\ FlightsOK(flights) /\ flights[s].pc = "wire" /\ flights[s].msg \in Messages
        /\ UNCHANGED <<composed, acked, letGo>> /\ UNCHANGED shelf /\ late' = late
        /\ [LogNext]_logVars
    BY AsksKeeps DEF QueueInv, PhoneOK, FlightsOK, Carries, Asks, netVars
  <1>2. PICK verdict :
          /\ Told(s, verdict)
          /\ \/ Answered(flights[s].msg, flights[s].epoch, verdict)
             \/ UNCHANGED logVars
    BY DEF Asks
  <1>3. InLine(Past, flights[s].msg)
    BY <1>1 DEF TurnInv, Asked
  <1>4. InOrder(Past', OnFile(lines', tail')) /\ InOrder(Past', Memory(messages'))
    <2>1. CASE UNCHANGED logVars
      BY <1>1, <2>1, SameInOrder DEF logVars, diskVars, roomVars
    <2>2. CASE Answered(flights[s].msg, flights[s].epoch, verdict)
      BY <1>1, <1>3, <2>2, AnsweredInOrder
    <2> QED  BY <1>2, <2>1, <2>2
  <1>5. NobodyAsks(flights, flights') /\ Continues(Past, Past')
    BY <1>1, <1>2, ToldAsksNobody, StoreContinues
  <1> QED  BY <1>1, <1>4, <1>5, StoreTurns

(* The computer goes down while it answers: the message may be on the disk. *)
LEMMA DoorDiesTurns ==
  ASSUME LogInv, QueueInv, TurnInv, NEW s \in Slots, DoorDies(s)
  PROVE  TurnInv'
  <1> DEFINE m == flights[s].msg
  <1>1. /\ FlightsOK(flights) /\ flights[s].pc = "wire" /\ m \in Messages
        /\ UNCHANGED <<composed, acked, letGo>> /\ UNCHANGED shelf /\ late' = late
        /\ [LogNext]_logVars /\ CrashInPost(m) /\ Told(s, "retry")
    BY DoorDiesKeeps DEF QueueInv, PhoneOK, FlightsOK, Carries, DoorDies, netVars
  <1>2. InLine(Past, m)
    BY <1>1 DEF TurnInv, Asked
  <1> HIDE DEF m
  <1>3. /\ running /\ writable /\ m \notin Said(messages) /\ messages' = messages
        /\ lines \in Seq(LineRecords) /\ tail = <<>>
    BY <1>1 DEF CrashInPost, LogInv, LogTypeOK
  <1>4. PICK d \in Wrote(Line(m)) : lines' = d.lines /\ tail' = d.tail
    BY <1>1 DEF CrashInPost
  <1>5. OnFile(d.lines, d.tail) \subseteq
          OnFile(lines, tail) \union {[at |-> Len(lines) + 1, msg |-> m]}
    BY <1>1, <1>3, WroteRows
  <1>6. InOrder(Past', OnFile(lines', tail')) /\ InOrder(Past', Memory(messages'))
    BY <1>1, <1>2, <1>3, <1>4, <1>5, PostedInOrder
  <1>7. NobodyAsks(flights, flights') /\ Continues(Past, Past')
    BY <1>1, ToldAsksNobody, StoreContinues
  <1> QED  BY <1>1, <1>6, <1>7, StoreTurns

LEMMA LateLandsTurns ==
  ASSUME LogInv, QueueInv, TurnInv, NEW r \in late, LateLands(r)
  PROVE  TurnInv'
  <1>1. /\ UNCHANGED <<composed, acked, letGo>> /\ UNCHANGED shelf /\ UNCHANGED flights
        /\ late' \subseteq late /\ [LogNext]_logVars /\ r.msg \in Messages
    BY LateLandsKeeps DEF QueueInv, PhoneOK, Request, LateLands, phoneVars
  <1>2. PICK verdict \in Verdicts : Answered(r.msg, r.epoch, verdict)
    BY DEF LateLands
  <1>3. InLine(Past, r.msg)
    BY DEF TurnInv, Asked
  <1>4. InOrder(Past', OnFile(lines', tail')) /\ InOrder(Past', Memory(messages'))
    BY <1>1, <1>2, <1>3, AnsweredInOrder
  <1>5. Continues(Past, Past')
    BY <1>1, StoreContinues
  <1> QED  BY <1>1, <1>4, <1>5, NobodyAsksSame, StoreTurns

LEMMA RoomHappensTurns ==
  ASSUME LogInv, QueueInv, TurnInv, RoomHappens
  PROVE  TurnInv'
  <1>1. /\ UNCHANGED <<composed, acked, letGo>> /\ UNCHANGED shelf /\ UNCHANGED flights
        /\ late' \subseteq late /\ [LogNext]_logVars
        /\ lines \in Seq(LineRecords) /\ tail \in Seq(LineRecords) /\ Len(tail) <= 1
    BY RoomHappensKeeps DEF RoomHappens, phoneVars, netVars, LogInv, LogTypeOK
  <1>2. ASSUME Crash
        PROVE  InOrder(Past', OnFile(lines', tail')) /\ InOrder(Past', Memory(messages'))
    BY <1>1, <1>2, SameInOrder DEF Crash, diskVars
  <1>3. ASSUME Open
        PROVE  InOrder(Past', OnFile(lines', tail')) /\ InOrder(Past', Memory(messages'))
    <2>1. PICK o \in Opened(lines, tail) :
            lines' = o.lines /\ tail' = o.tail /\ messages' = o.messages
      BY <1>3, OpenServes
    <2>2. /\ OnFile(o.lines, o.tail) \subseteq OnFile(lines, tail)
          /\ Memory(o.messages) \subseteq OnFile(lines, tail)
      BY <1>1, OpenedRows
    <2> QED  BY <1>1, <2>1, <2>2, LeftInOrder
  <1>4. ASSUME NEW i \in 1 .. Len(lines), Damage(i)
        PROVE  InOrder(Past', OnFile(lines', tail')) /\ InOrder(Past', Memory(messages'))
    <2>1. /\ Len(lines') = Len(lines) /\ tail' = tail /\ messages' = messages
          /\ \A k \in 1 .. Len(lines) : lines'[k] = lines[k] \/ lines'[k].msg = Nothing
      BY <1>1, <1>4 DEF Damage, Garbage, roomVars
    <2>2. OnFile(lines', tail') \subseteq OnFile(lines, tail)
      BY <2>1 DEF OnFile
    <2> QED  BY <1>1, <2>1, <2>2, LeftInOrder
  <1>5. InOrder(Past', OnFile(lines', tail')) /\ InOrder(Past', Memory(messages'))
    BY <1>2, <1>3, <1>4 DEF RoomHappens
  <1>6. Continues(Past, Past')
    BY <1>1, StoreContinues
  <1> QED  BY <1>1, <1>5, <1>6, NobodyAsksSame, StoreTurns

LEMMA TurnStarts == QueueInit => TurnInv
  <1> SUFFICES ASSUME QueueInit  PROVE TurnInv
    OBVIOUS
  <1>1. /\ shelf = <<>> /\ late = {} /\ composed = <<>> /\ lines = <<>> /\ tail = <<>>
        /\ messages = <<>>
    BY DEF QueueInit, LogInit
  <1>2. At("idle").pc # "wire"
    BY AtFacts DEF Pcs
  <1>3. \A s \in Slots : flights[s].pc # "wire"
    BY <1>2 DEF QueueInit
  <1>4. Asked(Past, flights, late)
    BY <1>1, <1>3 DEF Asked
  <1>5. ComposedOnce(Past) /\ ShelfInOrder(Past, shelf)
    BY <1>1, EmptyInOrder, EmptySeq DEF ComposedOnce, Past
  <1>6. OnFile(lines, tail) = {} /\ Memory(messages) = {}
    <2>1. Len(<<>>) = 0 /\ 1 .. 0 = {}
      BY EmptySeq
    <2> QED  BY <1>1, <2>1 DEF OnFile, Memory
  <1> QED  BY <1>4, <1>5, <1>6 DEF TurnInv, InOrder

LEMMA TurnStep ==
  ASSUME LogInv, QueueInv, TurnInv, [QueueNext]_queueVars
  PROVE  TurnInv'
  <1>1. CASE UNCHANGED queueVars
    <2>1. UNCHANGED <<logVars, shelf, composed, acked, letGo, late>> /\ UNCHANGED flights
      BY <1>1 DEF queueVars, phoneVars, netVars, pastVars
    <2> QED  BY <2>1, NobodyAsksSame, QuietTurns
  <1>2. ASSUME NEW s \in Slots, FlightNext(s)
        PROVE  TurnInv'
    BY <1>2, ProbeTurns, LookTurns, AsksTurns, RefusedTurns, RequestLostTurns, DoorDiesTurns,
       SettleTurns, StorageFailsTurns DEF FlightNext
  <1>3. CASE UserNext
    BY <1>3, SubscribeTurns, UnsubscribeTurns, CallTurns, ComposeTurns, DiscardTurns,
       UserRetriesTurns DEF UserNext
  <1>4. ASSUME NEW r \in late, LateLands(r)
        PROVE  TurnInv'
    BY <1>4, LateLandsTurns
  <1>5. CASE AppKilled \/ Superseded \/ Forgotten \/ RoomHappens
    BY <1>5, AppKilledTurns, SupersededTurns, ForgottenTurns, RoomHappensTurns
  <1> QED  BY <1>1, <1>2, <1>3, <1>4, <1>5 DEF QueueNext

(* The room hears a member's messages in the order they were composed (the FIFO of *)
(* roomQueue.ts against the posts of append.rs), through retries, late requests,   *)
(* kills, crashes and several sessions at once.                            *)
THEOREM MessagesInTurn == QueueSpec => []InTurn
  <1>1. TurnInv => InTurn
    <2> SUFFICES ASSUME InOrder(Past, Memory(messages)),
                        NEW i \in 1 .. Len(composed), NEW j \in 1 .. Len(composed),
                        NEW p \in 1 .. Len(messages), NEW q \in 1 .. Len(messages),
                        i < j, messages[p] = composed[i], messages[q] = composed[j]
                 PROVE  \/ p < q \/ {composed[i], composed[j]} \intersect letGo # {}
                        \/ \E was \in acked : was.msg = composed[i] /\ was.epoch # epoch
      BY DEF TurnInv, InTurn
    <2>1. [at |-> p, msg |-> messages[p]] \in Memory(messages)
          /\ [at |-> q, msg |-> messages[q]] \in Memory(messages)
      BY DEF Memory
    <2>2. Before(Past, messages[p], messages[q])
      BY DEF Before, Past
    <2>3. p < q \/ Excused(Past, messages[p], messages[q])
      BY <2>1, <2>2 DEF InOrder
    <2> QED  BY <2>3 DEF Excused, Past
  <1>2. LogInv /\ QueueInv /\ TurnInv /\ [QueueNext]_queueVars => TurnInv'
    BY TurnStep
  <1> QED  BY <1>1, <1>2, TurnStarts, PhoneDrivesStore, PTL DEF QueueSpec
=============================================================================
