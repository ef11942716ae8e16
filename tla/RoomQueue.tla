----------------------------- MODULE RoomQueue -----------------------------
(***************************************************************************)
(* A phone's outgoing messages, from the composer to the room's transcript *)
(* (phone/src/room: roomQueue.ts, roomQueueStore.ts, roomQueueOutcome.ts,  *)
(* roomApi.ts), and the door's post route before the store of RoomLog.     *)
(*                                                                         *)
(* A session lives while a listener holds the room. It runs at most one    *)
(* flight, which asks for the pairing, then takes the first queued message *)
(* to the door, and the next, until nothing can be sent. Every await in it *)
(* is a step of its own: the shelf, the pairing and the subscription may   *)
(* change meanwhile, and a flight outlives its session. An answer may be   *)
(* lost, a request may land after the phone gave it up, and the app may be *)
(* killed. "sending" is "queued" here: the shelf reads it back as that.    *)
(***************************************************************************)
EXTENDS RoomLog

CONSTANTS
  Slots,        \* the session objects alive at once: positive numbers
  MaxQueue,     \* MAX_QUEUE_ITEMS
  MaxUpsets     \* bound: lost requests and answers, refusals, kills, crashes, failures

ASSUME RoomQueueAssumption ==
  /\ Slots \subseteq Nat \ {0} /\ MaxQueue \in Nat \ {0}
  /\ MaxUpsets \in Nat

VARIABLES
  shelf,       \* what waits on the phone's disk: messages and their states
  session,     \* the session the subscribers hold, 0 when nobody listens
  flights,     \* slot -> what its session's flight is doing
  rerun,       \* the slots with pendingRerun
  timer,       \* whether the session has a retry timer
  owed,        \* the kicks and flushes on their way
  late,        \* requests the phone gave up that may still reach the door
  known,       \* the epoch the phone has cached
  paired,      \* whether the phone still holds the pairing's record
  member,      \* whether the computer still knows the device
  composed,    \* history: what the shelf took, in order
  acked,       \* history: what the phone was told had landed, and in which epoch
  letGo,       \* history: discarded, dropped with its pairing, or burned once
  upsets,      \* how many upsets happened
  shelfFailed  \* history: whether the phone's store failed, or its record was of no use

phoneVars == <<shelf, session, flights, rerun, timer, owed, known, paired>>
netVars == <<late, member>>
pastVars == <<composed, acked, letGo, upsets, shelfFailed>>
queueVars == <<logVars, phoneVars, netVars, pastVars>>

NoEpoch == -1
Pcs == {"idle", "probe", "look", "wire", "told"}
Verdicts == {"sent", "failed", "hold", "retry", "epoch_changed"}
At(pc) == [pc |-> pc, msg |-> Nothing, epoch |-> NoEpoch, answer |-> "retry"]
Waiting == {shelf[i].msg : i \in 1 .. Len(shelf)}
Holds(m, state) == \E i \in 1 .. Len(shelf) : shelf[i] = [msg |-> m, state |-> state]
Flying == {s \in Slots : flights[s].pc # "idle"}

QueueInit ==
  /\ LogInit
  /\ shelf = <<>> /\ session = 0 /\ flights = [s \in Slots |-> At("idle")]
  /\ rerun = {} /\ timer = FALSE /\ owed = {} /\ late = {} /\ known = NoEpoch
  /\ paired = TRUE /\ member = TRUE
  /\ composed = <<>> /\ acked = {} /\ letGo = {} /\ upsets = 0 /\ shelfFailed = FALSE

Upset == upsets < MaxUpsets /\ upsets' = upsets + 1

\* `mutateRoomQueue` on the one item with this id, if it is still there
Marked(m, state) ==
  [i \in 1 .. Len(shelf) |-> IF shelf[i].msg = m THEN [msg |-> m, state |-> state] ELSE shelf[i]]
\* (slip: whatever is first goes)
WithoutFirst(m) == IF shelf = <<>> THEN shelf ELSE Tail(shelf)
Without(m) ==
  IF m \notin Waiting THEN shelf
  ELSE LET at == CHOOSE i \in 1 .. Len(shelf) : shelf[i].msg = m
       IN [i \in 1 .. Len(shelf) - 1 |-> shelf[IF i < at THEN i ELSE i + 1]]

-----------------------------------------------------------------------------
(* Sessions and what starts a flight.                                      *)

\* `runAttempt` up to its first await: the session of the moment, when idle
Started(fs, s) ==
  IF s # 0 /\ fs[s].pc = "idle" THEN [fs EXCEPT ![s] = At("probe")] ELSE fs

\* `kick` and `flushRoomQueue` once they may go: now, or when this flight ends
Goes ==
  /\ flights' = Started(flights, session)
  /\ rerun' = IF session \in Flying THEN rerun \union {session} ELSE rerun

\* the `finally` of `runAttempt`: a rerun that was asked for, unless a timer owns it
\* (slip: pendingRerun is left set)
EndsOwing(s, armed) ==
  LET landed == [flights EXCEPT ![s] = At("idle")]
  IN /\ flights' = IF s \in rerun /\ ~armed THEN Started(landed, session) ELSE landed
     /\ UNCHANGED rerun
Ends(s, armed) ==
  LET landed == [flights EXCEPT ![s] = At("idle")]
  IN /\ flights' = IF s \in rerun /\ ~armed THEN Started(landed, session) ELSE landed
     /\ rerun' = rerun \ {s}

Subscribe ==
  /\ session = 0
  /\ \E s \in Slots \ Flying :
       /\ \A other \in Slots \ Flying : s <= other
       /\ session' = s /\ flights' = Started(flights, s)
  /\ UNCHANGED <<logVars, netVars, pastVars, shelf, rerun, timer, owed, known, paired>>

Unsubscribe ==
  /\ session # 0
  /\ session' = 0 /\ timer' = FALSE
  /\ UNCHANGED <<logVars, netVars, pastVars, shelf, flights, rerun, owed, known, paired>>

\* `enqueueRoomMessage`: a draft already on the shelf is only kicked again
Compose(m) ==
  /\ \/ m \notin Said(composed) /\ Len(shelf) < MaxQueue
        /\ shelf' = Append(shelf, [msg |-> m, state |-> "queued"])
        /\ composed' = Append(composed, m)
     \/ m \in Waiting /\ "kick" \notin owed /\ UNCHANGED <<shelf, composed>>
  /\ owed' = owed \union {"kick"}
  /\ UNCHANGED <<logVars, netVars, session, flights, rerun, timer, known, paired,
                 acked, letGo, upsets, shelfFailed>>

Discard(m) ==
  /\ m \in Waiting
  /\ shelf' = Without(m) /\ letGo' = letGo \union {m}
  /\ UNCHANGED <<logVars, netVars, session, flights, rerun, timer, owed, known, paired,
                 composed, acked, upsets, shelfFailed>>

\* `retryRoomQueueItem`: the user asks for a message again, refused or still waiting
UserRetries(m) ==
  /\ m \in Waiting
  /\ shelf' = Marked(m, "queued") /\ owed' = owed \union {"flush"}
  /\ UNCHANGED <<logVars, netVars, pastVars, session, flights, rerun, timer, known, paired>>

KickArrives ==
  /\ "kick" \in owed /\ owed' = owed \ {"kick"}
  /\ IF session # 0 /\ ~timer THEN Goes ELSE UNCHANGED <<flights, rerun>>
  /\ UNCHANGED <<logVars, netVars, pastVars, shelf, session, timer, known, paired>>

FlushArrives ==
  /\ "flush" \in owed /\ owed' = owed \ {"flush"}
  /\ IF session # 0 THEN Goes ELSE UNCHANGED <<flights, rerun>>
  /\ timer' = FALSE
  /\ UNCHANGED <<logVars, netVars, pastVars, shelf, session, known, paired>>

\* `onOpen` of the room's stream flushes, and a reconnect reads the epoch
StreamOpens ==
  /\ session # 0 /\ running /\ paired /\ member
  /\ known' = epoch /\ timer' = FALSE /\ Goes
  /\ UNCHANGED <<logVars, netVars, pastVars, shelf, session, owed, paired>>

TimerFires ==
  /\ timer /\ timer' = FALSE
  /\ flights' = Started(flights, session)
  /\ UNCHANGED <<logVars, netVars, pastVars, shelf, session, rerun, owed, known, paired>>

-----------------------------------------------------------------------------
(* A flight.                                                               *)

\* a shelf whose pairing is gone goes with it
Probe(s) ==
  /\ flights[s].pc = "probe"
  /\ IF paired
     THEN /\ flights' = [flights EXCEPT ![s] = At("look")]
          /\ UNCHANGED <<shelf, rerun, letGo>>
     ELSE /\ shelf' = <<>> /\ letGo' = letGo \union Waiting
          /\ Ends(s, s = session /\ timer)
  /\ UNCHANGED <<logVars, netVars, session, timer, owed, known, paired,
                 composed, acked, upsets, shelfFailed>>

\* the FIFO's head (slip: any queued message)
AnyQueued == {i \in 1 .. Len(shelf) : shelf[i].state = "queued"}
Heads == {i \in 1 .. Len(shelf) : /\ shelf[i].state = "queued"
                                  /\ \A j \in 1 .. i - 1 : shelf[j].state # "queued"}

\* the head goes out, with the epoch cached now, even if it is discarded meanwhile
Look(s) ==
  /\ flights[s].pc = "look"
  /\ \/ \E i \in Heads :
          /\ flights' = [flights EXCEPT ![s] = [At("wire") EXCEPT !.msg = shelf[i].msg,
                                                                  !.epoch = known]]
          /\ UNCHANGED rerun
     \/ Heads = {} /\ Ends(s, s = session /\ timer)
  /\ UNCHANGED <<logVars, netVars, pastVars, shelf, session, timer, owed, known, paired>>

\* the answer is on its way; with "sent", the epoch it landed in is remembered
Told(s, verdict) ==
  flights' = [flights EXCEPT ![s] =
    [@ EXCEPT !.pc = "told", !.answer = verdict,
              !.epoch = IF verdict = "sent" THEN epoch ELSE NoEpoch]]

\* the door's guards, and `Room::post` behind them
Answered(m, stamp, verdict) ==
  \/ ~running /\ verdict = "retry" /\ UNCHANGED <<logVars, upsets>>
  \/ running /\ ~member /\ verdict = "hold" /\ UNCHANGED <<logVars, upsets>>
  \/ /\ running /\ member /\ stamp \notin {NoEpoch, epoch}
     /\ verdict = "epoch_changed" /\ UNCHANGED <<logVars, upsets>>
  \/ /\ running /\ member /\ stamp \in {NoEpoch, epoch}
     /\ \/ (Lands(m) \/ Repeats(m)) /\ verdict = "sent" /\ UNCHANGED upsets
        \/ Refuses /\ verdict = "retry" /\ UNCHANGED upsets
        \/ \E answer \in Answers :
             /\ AppendFails(m, answer) /\ Upset
             /\ verdict = IF answer = "ok" THEN "sent" ELSE "retry"

\* a phone without the record, or marked removed, asks nobody
Asks(s) ==
  /\ flights[s].pc = "wire"
  /\ IF paired
     THEN \E verdict \in Verdicts :
            Answered(flights[s].msg, flights[s].epoch, verdict) /\ Told(s, verdict)
     ELSE Told(s, "hold") /\ UNCHANGED <<logVars, upsets>>
  /\ UNCHANGED <<netVars, shelf, session, rerun, timer, owed, known, paired,
                 composed, acked, letGo, shelfFailed>>

\* the computer serves no room routes for now: a refusal for good
DoorRefuses(s) ==
  /\ flights[s].pc = "wire" /\ paired /\ Upset
  /\ Told(s, "failed")
  /\ UNCHANGED <<logVars, netVars, shelf, session, rerun, timer, owed, known, paired,
                 composed, acked, letGo, shelfFailed>>

\* a damaged pairing store, or a record without a road or a token: nothing is dialled
DoorUnusable(s) ==
  /\ flights[s].pc = "wire" /\ Upset /\ shelfFailed' = TRUE
  /\ Told(s, "hold")
  /\ UNCHANGED <<logVars, netVars, shelf, session, rerun, timer, owed, known, paired,
                 composed, acked, letGo>>

\* the request is given up: it never arrives, or it does later
RequestLost(s) ==
  /\ flights[s].pc = "wire" /\ paired /\ Upset
  /\ Told(s, "retry")
  /\ late' \in {late, late \union {[msg |-> flights[s].msg, epoch |-> flights[s].epoch]}}
  /\ UNCHANGED <<logVars, member, shelf, session, rerun, timer, owed, known, paired,
                 composed, acked, letGo, shelfFailed>>

AnswerLost(s) ==
  /\ flights[s].pc = "told" /\ flights[s].answer # "retry" /\ Upset
  /\ Told(s, "retry")
  /\ UNCHANGED <<logVars, netVars, shelf, session, rerun, timer, owed, known, paired,
                 composed, acked, letGo, shelfFailed>>

\* the computer goes down while it answers
DoorDies(s) ==
  /\ flights[s].pc = "wire" /\ paired /\ member /\ Upset
  /\ flights[s].epoch \in {NoEpoch, epoch} /\ CrashInPost(flights[s].msg)
  /\ Told(s, "retry")
  /\ UNCHANGED <<netVars, shelf, session, rerun, timer, owed, known, paired,
                 composed, acked, letGo, shelfFailed>>

\* a refused epoch is forgotten, and the retry goes out bare (slip: it is kept)
CachedStill == known
Cached == NoEpoch

\* the refusal of its epoch arrives, before the shelf hears of it
HearsEpoch(s) ==
  /\ flights[s].pc = "told" /\ flights[s].answer = "epoch_changed"
  /\ known' = Cached /\ Told(s, "retry")
  /\ UNCHANGED <<logVars, netVars, pastVars, shelf, session, rerun, timer, owed, paired>>

\* what the verdict does to the shelf; only "sent" and "failed" go on to the next
SettlesAs(s, m, verdict) ==
  \/ /\ verdict = "sent"
     /\ shelf' = Without(m) /\ acked' = acked \union {[msg |-> m, epoch |-> flights[s].epoch]}
     /\ flights' = [flights EXCEPT ![s] = At("look")]
     /\ UNCHANGED <<rerun, timer, known, letGo>>
  \/ /\ verdict = "failed"
     /\ shelf' = Marked(m, "failed") /\ letGo' = letGo \union {m}
     /\ flights' = [flights EXCEPT ![s] = At("look")]
     /\ UNCHANGED <<rerun, timer, known, acked>>
  \/ /\ verdict = "hold"
     /\ shelf' = Marked(m, "queued")
     /\ Ends(s, s = session /\ timer)
     /\ UNCHANGED <<timer, known, acked, letGo>>
  \/ /\ verdict = "retry"
     /\ shelf' = Marked(m, "queued")
     /\ timer' = (timer \/ s = session)
     /\ Ends(s, s = session)
     /\ UNCHANGED <<known, acked, letGo>>

Settle(s) ==
  /\ flights[s].pc = "told"
  /\ SettlesAs(s, flights[s].msg, flights[s].answer)
  /\ UNCHANGED <<logVars, netVars, session, owed, paired, composed, upsets, shelfFailed>>

\* a read or a write of the phone's store fails: the flight ends, and no timer is set
StorageFails(s) ==
  /\ flights[s].pc \in {"probe", "look", "told"} /\ flights[s].answer # "epoch_changed"
  /\ Upset /\ shelfFailed' = TRUE
  /\ Ends(s, s = session /\ timer)
  /\ UNCHANGED <<logVars, netVars, shelf, session, timer, owed, known, paired,
                 composed, acked, letGo>>

-----------------------------------------------------------------------------
(* The world around it.                                                    *)

LateLands(r) ==
  /\ r \in late /\ late' = late \ {r}
  /\ running
  /\ \E verdict \in Verdicts : Answered(r.msg, r.epoch, verdict)
  /\ UNCHANGED <<phoneVars, member, composed, acked, letGo, shelfFailed>>

\* the app is killed; what it had sent may still arrive
AppKilled ==
  /\ Upset
  /\ session' = 0 /\ timer' = FALSE /\ owed' = {} /\ rerun' = {} /\ known' = NoEpoch
  /\ flights' = [s \in Slots |-> At("idle")]
  /\ \E gone \in SUBSET {s \in Slots : flights[s].pc = "wire"} :
       late' = late \union {[msg |-> flights[s].msg, epoch |-> flights[s].epoch] : s \in gone}
  /\ UNCHANGED <<logVars, shelf, paired, member, composed, acked, letGo, shelfFailed>>

\* another pairing took the room: the record goes, and the shelf unless its
\* deletion fails
Superseded ==
  /\ Upset /\ paired /\ paired' = FALSE /\ known' = NoEpoch
  /\ \/ shelf' = <<>> /\ letGo' = letGo \union Waiting
     \/ UNCHANGED <<shelf, letGo>>
  /\ UNCHANGED <<logVars, netVars, session, flights, rerun, timer, owed,
                 composed, acked, shelfFailed>>

Forgotten ==
  /\ Upset /\ member /\ member' = FALSE
  /\ UNCHANGED <<logVars, phoneVars, late, composed, acked, letGo, shelfFailed>>

RoomHappens ==
  /\ \/ Crash /\ Upset
     \/ (Open \/ \E i \in 1 .. Len(lines) : Damage(i)) /\ UNCHANGED upsets
  /\ UNCHANGED <<phoneVars, netVars, composed, acked, letGo, shelfFailed>>

FlightNext(s) ==
  Probe(s) \/ Look(s) \/ Asks(s) \/ DoorRefuses(s) \/ DoorUnusable(s) \/ RequestLost(s)
    \/ AnswerLost(s) \/ DoorDies(s) \/ HearsEpoch(s) \/ Settle(s) \/ StorageFails(s)

UserNext ==
  \/ Subscribe \/ Unsubscribe \/ StreamOpens \/ TimerFires
  \/ KickArrives \/ FlushArrives
  \/ \E m \in Messages : Compose(m) \/ Discard(m) \/ UserRetries(m)

QueueNext ==
  \/ \E s \in Slots : FlightNext(s)
  \/ UserNext
  \/ \E r \in late : LateLands(r)
  \/ AppKilled \/ Superseded \/ Forgotten \/ RoomHappens

QueueSpec == QueueInit /\ [][QueueNext]_queueVars

\* The event loop runs what is due, the door answers, and a room that is down is
\* opened again; nothing is owed by users, failures or the stream.
Fairness ==
  /\ \A s \in Slots : WF_queueVars(Probe(s) \/ Look(s) \/ Asks(s) \/ HearsEpoch(s) \/ Settle(s))
  /\ WF_queueVars(KickArrives) /\ WF_queueVars(FlushArrives)
  /\ WF_queueVars(TimerFires)
  /\ WF_queueVars(RoomHappens /\ Open)

FairQueueSpec == QueueSpec /\ Fairness

-----------------------------------------------------------------------------
(* What it must do.                                                        *)

Flight == [pc : Pcs, msg : Messages \union {Nothing}, epoch : {NoEpoch} \union Epochs,
           answer : Verdicts]

QueueTypeOK ==
  /\ shelf \in Seq([msg : Messages, state : {"queued", "failed"}]) /\ Len(shelf) <= MaxQueue
  /\ session \in {0} \union Slots /\ flights \in [Slots -> Flight]
  /\ rerun \subseteq Flying /\ timer \in BOOLEAN
  /\ owed \subseteq {"kick", "flush"}
  /\ late \subseteq [msg : Messages, epoch : {NoEpoch} \union Epochs]
  /\ known \in {NoEpoch} \union Epochs /\ paired \in BOOLEAN /\ member \in BOOLEAN

\* A message the shelf took is never lost on the phone: it waits, or the phone was
\* told that it landed, or somebody let it go (the user, or the pairing's end).
NothingLost ==
  \A m \in Said(composed) :
    m \in Waiting \/ m \in letGo \/ \E a \in acked : a.msg = m

\* What the phone was told had landed is in the room for as long as its epoch lasts,
\* whatever crashed in between; a read-only room may show less than it holds.
AckedIsKept ==
  \A a \in acked : running /\ writable /\ a.epoch = epoch => a.msg \in Said(messages)

\* The room hears a member's messages in the order they were composed, through
\* retries, late requests, kills and two sessions at once. One that was refused and
\* asked for again, or discarded, has lost its place, and so has one that landed in
\* an epoch that is over.
InTurn ==
  \A i, j \in 1 .. Len(composed) : \A p, q \in 1 .. Len(messages) :
    i < j /\ messages[p] = composed[i] /\ messages[q] = composed[j]
      => \/ p < q \/ {composed[i], composed[j]} \intersect letGo # {}
         \/ \E was \in acked : was.msg = composed[i] /\ was.epoch # epoch

\* While somebody listens, the phone is a member, the room takes messages, no
\* operation of the phone's store has failed and its record leads to the door, a
\* queued message does not wait for ever.
EventuallyPosted ==
  \A m \in Messages :
    Holds(m, "queued") ~> \/ ~Holds(m, "queued") \/ session = 0
                          \/ ~paired \/ ~member \/ ~writable \/ shelfFailed
=============================================================================
