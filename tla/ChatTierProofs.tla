--------------------------- MODULE ChatTierProofs ---------------------------
(***************************************************************************)
(* Proofs about ChatTier. Every variable keeps its type on every instance  *)
(* (TierTypes). And for every set of devices, threads and chats, any       *)
(* number of turns and every way an engine call of a switch, a recall or a *)
(* tick may fail, a chat's file holds its own words only, a clean slot is  *)
(* on disk, and no request takes a chat out of the slot unsaved.           *)
(*                                                                         *)
(* These hold for one slot and one request at a time per device            *)
(* (OneByOne): each part of that assumption has a configuration that       *)
(* breaks OwnWordsOnly without it.                                         *)
(*                                                                         *)
(* The argument: a device has one thread, a slot one device, so the thread *)
(* that stands in a slot stands there alone (Seated, Alone), and the claim *)
(* it finds is its own or the one it took the seat from (ClaimOK, Holder). *)
(* The ticker's save knows whether its chat ever left the slot (TickOK),   *)
(* and what it has in hand is what the slot holds unless the slot is       *)
(* marked again (LateOK).                                                  *)
(***************************************************************************)
EXTENDS ChatTier, TLAPS

-----------------------------------------------------------------------------
(* The invariant.                                                          *)

\* what `tier` assumes: one request at a time per device, no slot that leaves and regains
\* a chat under one tick, handover saves not refused, one slot
OneByOne ==
  /\ HandoverFaults = {} /\ ~ParallelRequests /\ ~SiblingTurns /\ ~TickOvertaken
  /\ \A s, r \in Slots : s = r

State == Words \union {Nothing}
Saving == {"saving", "written", "rename", "settle", "nothing"}
TickAt == {"idle", "sampled", "relax", "write"} \union Saving

Requested == [at : {"idle", "sent", "handover", "recall", "ready", "answering", "switch"},
              dev : Devices \union {None}, op : {"turn", "activate", "erase"},
              chat : Chats \union {None}, slot : Slots \union {None},
              from : Devices \union {None}]
Ticking == [at : TickAt, slot : Slots \union {None}, dev : Devices \union {None},
            chat : Chats \union {None}, same : BOOLEAN, moved : BOOLEAN]
Stored == [Devices -> [Chats -> State]]

\* TypeOK, with its sets named
Typed ==
  /\ seat \in [Devices -> Slots \union {None}] /\ thr \in [Threads -> Requested]
  /\ claim \in [Slots -> Claims]
  /\ dirty \in [Slots -> BOOLEAN] /\ fresh \in [Slots -> BOOLEAN] /\ live \in [Slots -> BOOLEAN]
  /\ eng \in [Slots -> State] /\ asleep \in BOOLEAN
  /\ file \in Stored /\ staged \in Stored /\ tick \in Ticking
  /\ open \in [Windows -> Chats \union {None}] /\ said \in [Windows -> [Chats -> {Deleted} \union 0 .. MaxTurns]]

\* a request under way has a device, from its lease on a slot, and a chat if its route or
\* its window names one; the ticker saves one chat of one slot
PlacedAs(r) ==
  /\ r.at # "idle" =>
       /\ r.dev \in Devices
       /\ r.op # "turn" => r.dev \in Windows
       /\ r.dev \in Windows => r.chat \in Chats
  /\ r.at \notin {"idle", "sent"} => r.slot \in Slots
TickPlaced == tick.at \in Saving => tick.slot \in Slots /\ tick.dev \in Devices /\ tick.chat \in Chats
Placed == TickPlaced /\ \A t \in Threads : PlacedAs(thr[t])

\* one thread: its device has no other, and the seat it stands in
ThreadOK(t) ==
  /\ (thr[t].at = "idle") <=> (thr[t].dev = None)
  /\ (thr[t].at \in {"idle", "sent"}) <=> (thr[t].slot = None)
  /\ thr[t].slot # None => seat[thr[t].dev] = thr[t].slot
  /\ thr[t].at = "ready" => thr[t].op = "turn"
  /\ thr[t].at = "answering" => thr[t].op = "turn"
  /\ thr[t].at = "switch" => thr[t].op # "turn"
  /\ \A u \in Threads : thr[u].dev = thr[t].dev /\ thr[t].dev # None => u = t

\* what a window asks is about the chat it shows
AskOK(t) ==
  thr[t].at # "idle" =>
    /\ thr[t].op # "turn" => thr[t].dev \in Windows /\ thr[t].chat \in Chats
    /\ thr[t].op = "turn" /\ thr[t].dev \in Windows =>
         thr[t].chat = open[thr[t].dev] /\ thr[t].chat # None
    /\ thr[t].op = "erase" => said[thr[t].dev][thr[t].chat] = Deleted

Seated ==
  /\ \A t \in Threads : ThreadOK(t) /\ AskOK(t)
  /\ \A d, e \in Devices : seat[d] = seat[e] /\ seat[d] # None => d = e

Own(w, d, c) == w # Nothing => w.dev = d /\ w.chat = c

\* a slot's claim: a window's, and of the chat it shows, if it shows one; a resident
\* one's device has the seat, or just lost it; the engine holds its words or none
ClaimOK(s) ==
  LET d == claim[s].dev
      c == claim[s].chat IN
  /\ claim[s].is \in {"resident", "evicted"} => d \in Windows /\ open[d] \in {c, None}
  /\ claim[s].is = "resident" =>
       /\ \/ seat[d] = s
          \/ \E t \in Threads : thr[t].at = "handover" /\ thr[t].slot = s /\ thr[t].from = d
       /\ Own(eng[s], d, c)

\* the ticker's save: it knows whether its chat left the slot, and then it commits nothing
TickOK ==
  /\ (tick.at \in Saving) <=> (tick.slot # None)
  /\ tick.slot # None =>
       /\ tick.dev \in Devices /\ tick.chat \in Chats
       /\ tick.moved <=> ~StillHeld
       /\ tick.moved => ~tick.same
       /\ (tick.at = "written" /\ StillHeld) \/ tick.at = "rename" =>
            Own(staged[tick.dev][tick.chat], tick.dev, tick.chat)

\* what the ticker is about to commit, or has committed, is still what the slot holds,
\* unless the slot is marked again
Settled(s) == ~Generating(s) /\ eng[s] # Nothing
LateOK ==
  tick.slot # None /\ StillHeld /\ Settled(tick.slot) =>
    LET w == staged[tick.dev][tick.chat] IN
    /\ tick.at \in {"written", "rename"} /\ (tick.same \/ ~dirty[tick.slot]) /\ w # Nothing =>
         w = eng[tick.slot]
    /\ tick.at = "settle" /\ tick.same => file[tick.dev][tick.chat] = eng[tick.slot]

-----------------------------------------------------------------------------
(* Types.                                                                  *)

LEMMA ClaimFacts ==
  ASSUME NEW k \in Claims
  PROVE  /\ k.is \in {"unknown", "empty", "resident", "evicted"}
         /\ k.is = "resident" => k.dev \in Devices /\ k.chat \in Chats /\ k = Resident(k.dev, k.chat)
         /\ k.is = "evicted" => k.dev \in Devices /\ k.chat \in Chats /\ k = Evicted(k.dev, k.chat)
  BY DEF Claims, Unknown, Empty, Resident, Evicted

LEMMA ClaimsAre ==
  /\ Unknown \in Claims /\ Empty \in Claims
  /\ \A d \in Devices, c \in Chats : Resident(d, c) \in Claims /\ Evicted(d, c) \in Claims
  BY DEF Claims

LEMMA NothingIsState == Nothing \in State
  BY DEF State

LEMMA StoredWrite ==
  ASSUME NEW f \in Stored, NEW d \in Devices, NEW c \in Chats, NEW w \in State
  PROVE  /\ [f EXCEPT ![d][c] = w] \in Stored /\ [f EXCEPT ![d][c] = w][d][c] = w
         /\ \A e \in Devices, k \in Chats : e # d \/ k # c => [f EXCEPT ![d][c] = w][e][k] = f[e][k]
  BY DEF Stored

LEMMA SaveTyped ==
  ASSUME Typed, NEW s \in Slots, NEW d \in Devices, NEW c \in Chats, SaveTo(d, c, s)
  PROVE  file' \in Stored /\ staged' \in Stored
  <1>1. eng[s] \in State /\ file \in Stored /\ staged \in Stored
    BY DEF Typed
  <1> QED  BY <1>1, NothingIsState DEF SaveTo, Stored

LEMMA ClaimTyped ==
  ASSUME Typed, NEW s \in Slots, NEW k \in Claims, Claim(s, k)
  PROVE  /\ claim' \in [Slots -> Claims] /\ dirty' \in [Slots -> BOOLEAN] /\ tick' \in Ticking
         /\ TickPlaced => TickPlaced'
  <1>1. claim' \in [Slots -> Claims] /\ dirty' \in [Slots -> BOOLEAN]
    BY DEF Typed, Claim
  <1>2. tick' \in Ticking
    BY DEF Typed, Claim, Moved, Ticking
  <1>3. tick'.at = tick.at /\ tick'.slot = tick.slot /\ tick'.dev = tick.dev /\ tick'.chat = tick.chat
    BY DEF Typed, Claim, Moved, Ticking
  <1> QED  BY <1>1, <1>2, <1>3 DEF TickPlaced

LEMMA TypedStarts == Init => Typed
  <1> SUFFICES ASSUME Init PROVE Typed
    OBVIOUS
  <1>1. NoRequest \in Requested /\ NoTick \in Ticking
    BY DEF NoRequest, NoTick, Requested, Ticking, TickAt
  <1>2. file \in Stored /\ staged \in Stored
    BY NothingIsState DEF Init, Stored
  <1>3. claim \in [Slots -> Claims] /\ eng \in [Slots -> State]
    BY ClaimsAre, NothingIsState DEF Init
  <1>4. thr \in [Threads -> Requested] /\ tick \in Ticking
    BY <1>1 DEF Init
  <1>5. said \in [Windows -> [Chats -> {Deleted} \union 0 .. MaxTurns]] /\ open \in [Windows -> Chats \union {None}]
    BY TierAssumption DEF Init
  <1>6. /\ seat \in [Devices -> Slots \union {None}] /\ asleep \in BOOLEAN
        /\ dirty \in [Slots -> BOOLEAN] /\ fresh \in [Slots -> BOOLEAN]
        /\ live \in [Slots -> BOOLEAN]
    BY DEF Init
  <1> QED  BY <1>2, <1>3, <1>4, <1>5, <1>6 DEF Typed

LEMMA SeatedPlaced ==
  ASSUME Typed, Seated, NEW t \in Threads
  PROVE  PlacedAs(thr[t])
  <1>1. ThreadOK(t) /\ AskOK(t) /\ thr[t] \in Requested
    BY DEF Typed, Seated
  <1> QED  BY <1>1 DEF ThreadOK, AskOK, Requested, PlacedAs

(* Where a thread stands in a slot, and with what.                         *)
LEMMA Standing ==
  ASSUME Typed, Seated, NEW t \in Threads, thr[t].at \notin {"idle", "sent"}
  PROVE  /\ thr[t].slot \in Slots /\ thr[t].dev \in Devices /\ seat[thr[t].dev] = thr[t].slot
         /\ thr[t].op # "turn" => thr[t].dev \in Windows /\ thr[t].chat \in Chats
         /\ claim[thr[t].slot] \in Claims /\ eng[thr[t].slot] \in State
  BY DEF Typed, Seated, ThreadOK, AskOK, Requested

(* The request's own record.                                               *)
LEMMA Moves ==
  ASSUME Typed, NEW t \in Threads, NEW r \in Requested, Put(t, r)
  PROVE  /\ thr' \in [Threads -> Requested] /\ thr'[t] = r
         /\ \A u \in Threads : u # t => thr'[u] = thr[u]
  BY DEF Typed, Put

LEMMA Going ==
  ASSUME Typed, NEW t \in Threads
  PROVE  /\ NoRequest \in Requested
         /\ \A place \in {"recall", "ready", "answering", "switch"} :
              [thr[t] EXCEPT !.at = place] \in Requested
         /\ [thr[t] EXCEPT !.at = "recall", !.from = None] \in Requested
  <1>1. thr[t] \in Requested
    BY DEF Typed
  <1>2. NoRequest \in Requested
    BY DEF NoRequest, Requested
  <1>3. \A place \in {"recall", "ready", "answering", "switch"} :
          [thr[t] EXCEPT !.at = place] \in Requested
    BY <1>1 DEF Requested
  <1>4. [thr[t] EXCEPT !.at = "recall", !.from = None] \in Requested
    BY <1>1 DEF Requested
  <1> QED  BY <1>2, <1>3, <1>4

-----------------------------------------------------------------------------
(* What a switch may leave in the slot.                                    *)

\* the target opened, nothing done to the claim, the slot given up, or the previous chat back
LeavesTarget(left, d, c, kept) ==
  /\ left.claim = Resident(d, c) /\ left.clean = TRUE /\ left.opened = TRUE
  /\ left.state \in {kept[d][c], Nothing}
LeavesAsWas(left, now, s, foreign) ==
  /\ left.claim = now /\ left.clean = foreign /\ left.opened = FALSE
  /\ left.state \in {eng[s], Nothing}
LeavesOpen(left) ==
  /\ left.claim \in {Unknown, Empty} /\ left.clean = TRUE /\ left.opened = FALSE
LeavesPrevious(left, d, previous, kept) ==
  /\ previous # None
  /\ left.claim = Resident(d, previous) /\ left.clean = TRUE /\ left.opened = FALSE
  /\ left.state = kept[d][previous]

LEMMA ColdOutcomes ==
  ASSUME NEW s, NEW d, NEW c, NEW now, NEW states, NEW f, NEW left \in Colds(s, d, c, now, states, f)
  PROVE  \/ left = Left(Nothing, Resident(d, c), TRUE, TRUE)
         \/ \E e \in states \union {Nothing} : left = Left(e, now, f, FALSE)
  BY DEF Colds

LEMMA RepairOutcomes ==
  ASSUME NEW d, NEW previous, NEW kept, NEW left \in Repairs(d, previous, kept)
  PROVE  \/ left = Left(kept[d][previous], Resident(d, previous), TRUE, FALSE)
         \/ \E e \in {Nothing, kept[d][previous]}, k \in {Unknown, Empty} : left = Left(e, k, TRUE, FALSE)
  BY DEF Repairs

LEMMA SwitchOutcomes ==
  ASSUME Typed, NEW s \in Slots, NEW d \in Devices, NEW c \in Chats, NEW now,
         NEW previous, NEW foreign, NEW kept,
         NEW left \in Switches(s, d, c, now, previous, foreign, kept)
  PROVE  /\ \/ left.state \in {Nothing, eng[s], kept[d][c]}
            \/ previous # None /\ left.state = kept[d][previous]
         /\ \/ LeavesTarget(left, d, c, kept) \/ LeavesAsWas(left, now, s, foreign)
            \/ LeavesOpen(left) \/ LeavesPrevious(left, d, previous, kept)
  <1> DEFINE target == kept[d][c]
  <1>1. \/ /\ target = Nothing /\ left \in Colds(s, d, c, now, {eng[s]}, foreign)
        \/ left = Left(target, Resident(d, c), TRUE, TRUE)
        \/ left \in Colds(s, d, c, Unknown, {eng[s], target}, TRUE)
        \/ \E e \in {eng[s], target} : left = Left(e, Unknown, TRUE, FALSE)
        \/ left \in Colds(s, d, c, Empty, {Nothing}, TRUE)
        \/ previous # None /\ left \in Repairs(d, previous, kept)
    BY DEF Switches
  <1>2. CASE left \in Colds(s, d, c, now, {eng[s]}, foreign)
    BY <1>2, ColdOutcomes DEF LeavesTarget, LeavesAsWas, Left
  <1>3. CASE left = Left(target, Resident(d, c), TRUE, TRUE)
    BY <1>3 DEF LeavesTarget, Left
  <1>4. CASE left \in Colds(s, d, c, Unknown, {eng[s], target}, TRUE)
    <2>1. \/ left = Left(Nothing, Resident(d, c), TRUE, TRUE)
          \/ \E e \in {eng[s], target} \union {Nothing} : left = Left(e, Unknown, TRUE, FALSE)
      BY <1>4 DEF Colds
    <2> QED  BY <2>1 DEF LeavesTarget, LeavesOpen, Left
  <1>5. CASE \E e \in {eng[s], target} : left = Left(e, Unknown, TRUE, FALSE)
    BY <1>5 DEF LeavesOpen, Left
  <1>6. CASE left \in Colds(s, d, c, Empty, {Nothing}, TRUE)
    <2>1. \/ left = Left(Nothing, Resident(d, c), TRUE, TRUE)
          \/ \E e \in {Nothing} \union {Nothing} : left = Left(e, Empty, TRUE, FALSE)
      BY <1>6 DEF Colds
    <2> QED  BY <2>1 DEF LeavesTarget, LeavesOpen, Left
  <1>7. CASE previous # None /\ left \in Repairs(d, previous, kept)
    BY <1>7, RepairOutcomes DEF LeavesOpen, LeavesPrevious, Left
  <1> QED  BY <1>1, <1>2, <1>3, <1>4, <1>5, <1>6, <1>7

-----------------------------------------------------------------------------
(* Seats and requests.                                                     *)

LEMMA SeatedStarts == Init => Seated
  BY TierAssumption DEF Init, Seated, ThreadOK, AskOK, NoRequest

(* A request that moves on in its slot, or leaves, touching nobody else's window. *)
Stays(r, q) ==
  /\ r.dev = q.dev /\ r.op = q.op /\ r.chat = q.chat /\ r.slot = q.slot
  /\ r.at \in {"recall", "ready", "answering", "switch"}
  /\ r.at \in {"ready", "answering"} => r.op = "turn"
  /\ r.at = "switch" => r.op # "turn"

LEMMA SeatedInPlace ==
  ASSUME Typed, Seated, NEW t \in Threads, thr[t].at \notin {"idle", "sent"},
         NEW r \in Requested, Put(t, r), seat' = seat,
         \/ r = NoRequest
         \/ Stays(r, thr[t]) /\ open' = open /\ (r.op = "erase" => said' = said),
         \A e \in Windows : e # thr[t].dev => open'[e] = open[e] /\ said'[e] = said[e]
  PROVE  Seated'
  <1>1. thr'[t] = r /\ \A u \in Threads : u # t => thr'[u] = thr[u]
    BY Moves
  <1>2. ThreadOK(t) /\ AskOK(t) /\ thr[t].dev # None
    BY DEF Seated, ThreadOK
  <1>3. ASSUME NEW u \in Threads
        PROVE  ThreadOK(u)'
    <2>1. CASE u = t
      BY <1>1, <1>2, <1>3, <2>1 DEF ThreadOK, NoRequest, Stays, Seated
    <2>2. CASE u # t
      BY <1>1, <1>2, <1>3, <2>2 DEF ThreadOK, NoRequest, Stays, Seated
    <2> QED  BY <2>1, <2>2
  <1>4. ASSUME NEW u \in Threads
        PROVE  AskOK(u)'
    <2>1. CASE u = t
      BY <1>1, <1>2, <1>4, <2>1 DEF AskOK, NoRequest, Stays
    <2>2. CASE u # t
      <3>1. thr'[u] = thr[u] /\ AskOK(u) /\ thr[u].dev # thr[t].dev
        BY <1>1, <1>2, <1>4, <2>2 DEF Seated, ThreadOK
      <3> QED  BY <3>1 DEF AskOK
    <2> QED  BY <2>1, <2>2
  <1> QED  BY <1>3, <1>4 DEF Seated

LEMMA SeatedSend ==
  ASSUME Typed, Seated, OneByOne, NEW t \in Threads, NEW d \in Devices,
         NEW op \in {"turn", "activate", "erase"}, NEW c \in Chats \union {None}, Send(t, d, op, c)
  PROVE  Seated'
  <1> DEFINE r == [at |-> "sent", dev |-> d, op |-> op, chat |-> c, slot |-> None, from |-> None]
  <1>1. r \in Requested /\ r.at = "sent" /\ r.dev = d /\ r.op = op /\ r.chat = c /\ r.slot = None
    BY DEF Requested
  <1>2. thr'[t] = r /\ \A u \in Threads : u # t => thr'[u] = thr[u]
    BY <1>1, Moves DEF Send
  <1>3. thr[t].at = "idle" /\ seat' = seat /\ d # None
    BY TierAssumption DEF Send
  <1>4. \A u \in Threads : thr[u].dev # d
    BY DEF Send, OneByOne, Requests
  <1>5. /\ d \notin Windows => op = "turn" /\ UNCHANGED clientVars
        /\ \A e \in Windows : e # d => open'[e] = open[e] /\ said'[e] = said[e]
    BY DEF Send, Typed, clientVars
  <1>6. ASSUME NEW u \in Threads
        PROVE  ThreadOK(u)'
    <2>1. ThreadOK(u) /\ ThreadOK(t)
      BY <1>6 DEF Seated
    <2>2. CASE u = t
      BY <1>1, <1>2, <1>3, <1>4, <2>1, <2>2 DEF ThreadOK, Seated
    <2>3. CASE u # t
      BY <1>1, <1>2, <1>3, <1>4, <1>6, <2>1, <2>3 DEF ThreadOK, Seated
    <2> QED  BY <2>2, <2>3
  <1>7. AskOK(t)'
    <2>1. d \in Windows => \/ op = "turn" /\ c = open[d] /\ c # None
                           \/ op = "activate" /\ c \in Chats
                           \/ op = "erase" /\ c \in Chats
      BY DEF Send
    <2>2. op # "erase" => open' = open
      BY DEF Send, clientVars
    <2>3. d \in Windows /\ op = "erase" => said'[d][c] = Deleted
      BY <2>1 DEF Send, Typed
    <2> QED  BY <1>1, <1>2, <1>5, <2>1, <2>2, <2>3 DEF AskOK
  <1>8. ASSUME NEW u \in Threads, u # t
        PROVE  AskOK(u)'
    <2>1. thr'[u] = thr[u] /\ AskOK(u) /\ thr[u].dev # d
      BY <1>2, <1>4, <1>8 DEF Seated
    <2> QED  BY <1>5, <2>1 DEF AskOK
  <1> QED  BY <1>3, <1>6, <1>7, <1>8 DEF Seated

(* What a lease does: the request stands in slot s as r, in its own seat, in a *)
(* spare one, or in the seat of a device that serves nothing.                 *)
LeaseTo(t, s, r) ==
  LET d == thr[t].dev IN
  /\ r.dev = d /\ r.op = thr[t].op /\ r.chat = thr[t].chat /\ r.slot = s
  /\ r.at \in {"recall", "handover"} /\ Put(t, r) /\ s # None /\ seat'[d] = s
  /\ \/ seat' = seat
     \/ (\A e \in Devices : seat[e] # s) /\ seat[d] = None /\ seat' = [seat EXCEPT ![d] = s]
     \/ \E e \in Devices :
          /\ seat[e] = s /\ seat[d] = None /\ ~Busy(s) /\ r.at = "handover" /\ r.from = e
          /\ seat' = [seat EXCEPT ![e] = None, ![d] = s]

LEMMA LeaseDoes ==
  ASSUME Typed, NEW t \in Threads, PlacedAs(thr[t]), Lease(t)
  PROVE  \E s \in Slots \union {None}, r \in Requested : LeaseTo(t, s, r)
  <1> DEFINE d == thr[t].dev
  <1>1. d \in Devices /\ thr[t] \in Requested /\ seat \in [Devices -> Slots \union {None}]
    BY DEF Lease, PlacedAs, Typed
  <1>2. \A s \in Slots : [thr[t] EXCEPT !.slot = s, !.at = "recall"] \in Requested
    BY <1>1 DEF Requested
  <1>3. \A s \in Slots, e \in Devices :
          [thr[t] EXCEPT !.slot = s, !.from = e, !.at = "handover"] \in Requested
    BY <1>1 DEF Requested
  <1>4. ASSUME seat[d] # None, Put(t, [thr[t] EXCEPT !.slot = seat[d], !.at = "recall"]), seat' = seat
        PROVE  \E r \in Requested : LeaseTo(t, seat[d], r)
    <2>1. seat[d] \in Slots
      BY <1>1, <1>4
    <2> QED  BY <1>1, <1>2, <1>4, <2>1 DEF Requested, LeaseTo
  <1>5. ASSUME NEW s \in Slots, \A e \in Devices : seat[e] # s, seat[d] = None,
               Put(t, [thr[t] EXCEPT !.slot = s, !.at = "recall"]), seat' = [seat EXCEPT ![d] = s]
        PROVE  \E r \in Requested : LeaseTo(t, s, r)
    BY <1>1, <1>2, <1>5, TierAssumption DEF Requested, LeaseTo
  <1>6. ASSUME NEW e \in Devices, seat[e] # None, ~Busy(seat[e]), seat[d] = None,
               Put(t, [thr[t] EXCEPT !.slot = seat[e], !.from = e, !.at = "handover"]),
               seat' = [seat EXCEPT ![e] = None, ![d] = seat[e]]
        PROVE  \E r \in Requested : LeaseTo(t, seat[e], r)
    <2>1. seat[e] \in Slots
      BY <1>1, <1>6
    <2>2. PICK r \in Requested : r = [thr[t] EXCEPT !.slot = seat[e], !.from = e, !.at = "handover"]
      BY <1>3, <2>1
    <2>3. /\ r.dev = d /\ r.op = thr[t].op /\ r.chat = thr[t].chat /\ r.slot = seat[e]
          /\ r.at = "handover" /\ r.from = e /\ Put(t, r)
      BY <1>1, <1>6, <2>2 DEF Requested
    <2>4. seat'[d] = seat[e]
      BY <1>1, <1>6
    <2> QED  BY <1>6, <2>3, <2>4 DEF LeaseTo
  <1>7. \/ /\ seat[d] # None
           /\ Put(t, [thr[t] EXCEPT !.slot = seat[d], !.at = "recall"]) /\ seat' = seat
        \/ \E s \in Slots : /\ \A e \in Devices : seat[e] # s
                            /\ seat[d] = None
                            /\ Put(t, [thr[t] EXCEPT !.slot = s, !.at = "recall"])
                            /\ seat' = [seat EXCEPT ![d] = s]
        \/ \E e \in Devices : /\ seat[e] # None /\ ~Busy(seat[e]) /\ seat[d] = None
                              /\ Put(t, [thr[t] EXCEPT !.slot = seat[e], !.from = e, !.at = "handover"])
                              /\ seat' = [seat EXCEPT ![e] = None, ![d] = seat[e]]
    BY DEF Lease
  <1>8. \A e \in Devices : seat[e] \in Slots \union {None}
    BY <1>1
  <1> QED  BY <1>1, <1>4, <1>5, <1>6, <1>7, <1>8

LEMMA SeatedLease ==
  ASSUME Typed, Seated, NEW t \in Threads, Lease(t)
  PROVE  Seated'
  <1> DEFINE d == thr[t].dev
  <1>1. thr[t].at = "sent" /\ d \in Devices /\ UNCHANGED clientVars
    BY DEF Lease, Seated, ThreadOK, Typed, Requested
  <1>2. PICK s \in Slots \union {None}, r \in Requested : LeaseTo(t, s, r)
    BY LeaseDoes, SeatedPlaced
  <1>3. thr'[t] = r /\ \A u \in Threads : u # t => thr'[u] = thr[u]
    BY <1>2, Moves DEF LeaseTo
  <1>4. \A e, f \in Devices : seat'[e] = seat'[f] /\ seat'[e] # None => e = f
    BY <1>1, <1>2 DEF Seated, Typed, LeaseTo
  <1>5. ASSUME NEW u \in Threads
        PROVE  ThreadOK(u)' /\ AskOK(u)'
    <2>1. ThreadOK(u) /\ ThreadOK(t) /\ AskOK(u) /\ AskOK(t)
      BY <1>5 DEF Seated
    <2>2. CASE u = t
      BY <1>1, <1>2, <1>3, <2>1, <2>2 DEF ThreadOK, AskOK, clientVars, Seated, LeaseTo
    <2>3. CASE u # t
      <3>1. thr[u].slot # None => thr[u].dev \in Devices /\ seat'[thr[u].dev] = seat[thr[u].dev]
        BY <1>1, <1>2, <1>5, <2>1, <2>3 DEF ThreadOK, Busy, Typed, Requested, LeaseTo
      <3>2. \A v \in Threads : thr'[v].dev = thr[v].dev
        BY <1>2, <1>3 DEF LeaseTo
      <3> QED  BY <1>1, <1>3, <2>1, <2>3, <3>1, <3>2, <1>5 DEF ThreadOK, AskOK, clientVars
    <2> QED  BY <2>2, <2>3
  <1> QED  BY <1>4, <1>5 DEF Seated

-----------------------------------------------------------------------------
(* Every step keeps the types, whatever the requests.                      *)

LEMMA Goes ==
  ASSUME Typed, Placed, NEW t \in Threads, NEW r \in Requested, Put(t, r), PlacedAs(r)
  PROVE  thr' \in [Threads -> Requested] /\ \A u \in Threads : PlacedAs(thr'[u])
  <1>1. thr' \in [Threads -> Requested] /\ thr'[t] = r /\ \A u \in Threads : u # t => thr'[u] = thr[u]
    BY Moves
  <1> QED  BY <1>1 DEF Placed

LEMMA GoesOn ==
  ASSUME Typed, Placed, NEW t \in Threads, thr[t].at \notin {"idle", "sent"},
         \/ \E place \in {"recall", "ready", "answering", "switch"} : At(t, place)
         \/ Put(t, [thr[t] EXCEPT !.at = "recall", !.from = None])
         \/ Leave(t)
  PROVE  thr' \in [Threads -> Requested] /\ \A u \in Threads : PlacedAs(thr'[u])
  <1>1. thr[t] \in Requested /\ PlacedAs(thr[t])
    BY DEF Typed, Placed
  <1>2. ASSUME NEW place \in {"recall", "ready", "answering", "switch"}, At(t, place)
        PROVE  thr' \in [Threads -> Requested] /\ \A u \in Threads : PlacedAs(thr'[u])
    <2>1. PlacedAs([thr[t] EXCEPT !.at = place])
      BY <1>1 DEF PlacedAs, Requested
    <2> QED  BY <1>2, <2>1, Going, Goes DEF At
  <1>3. CASE Put(t, [thr[t] EXCEPT !.at = "recall", !.from = None])
    <2>1. PlacedAs([thr[t] EXCEPT !.at = "recall", !.from = None])
      BY <1>1 DEF PlacedAs, Requested
    <2> QED  BY <1>3, <2>1, Going, Goes
  <1>4. CASE Leave(t)
    <2>1. PlacedAs(NoRequest)
      BY DEF PlacedAs, NoRequest
    <2> QED  BY <1>4, <2>1, Going, Goes DEF Leave
  <1> QED  BY <1>2, <1>3, <1>4

(* Where it stands, and with what. *)
LEMMA Stands ==
  ASSUME Typed, Placed, NEW t \in Threads, thr[t].at \notin {"idle", "sent"}
  PROVE  /\ thr[t].slot \in Slots /\ thr[t].dev \in Devices
         /\ thr[t].op # "turn" => thr[t].dev \in Windows
         /\ thr[t].dev \in Windows => thr[t].chat \in Chats
         /\ claim[thr[t].slot] \in Claims /\ eng[thr[t].slot] \in State
  <1>1. PlacedAs(thr[t])
    BY DEF Placed
  <1>2. thr[t].at # "idle"
    OBVIOUS
  <1> QED  BY <1>1, <1>2 DEF Typed, PlacedAs

LEMMA SendTypes ==
  ASSUME Typed, Placed, NEW t \in Threads, NEW d \in Devices,
         NEW op \in {"turn", "activate", "erase"}, NEW c \in Chats \union {None}, Send(t, d, op, c)
  PROVE  Typed' /\ Placed'
  <1> DEFINE r == [at |-> "sent", dev |-> d, op |-> op, chat |-> c, slot |-> None, from |-> None]
  <1>1. d \notin Windows => op = "turn"
    BY DEF Send
  <1>2. d \in Windows => c \in Chats
    BY DEF Send
  <1>3. r \in Requested /\ PlacedAs(r)
    BY <1>1, <1>2 DEF Requested, PlacedAs
  <1>4. thr' \in [Threads -> Requested] /\ \A u \in Threads : PlacedAs(thr'[u])
    BY <1>3, Goes DEF Send
  <1>5. /\ open' \in [Windows -> Chats \union {None}]
        /\ said' \in [Windows -> [Chats -> {Deleted} \union 0 .. MaxTurns]]
    <2>1. CASE op # "erase"
      BY <2>1 DEF Send, Typed, clientVars
    <2>2. CASE op = "erase"
      <3>1. said' = [said EXCEPT ![d][c] = Deleted] /\ (open' = open \/ open' = [open EXCEPT ![d] = None])
        BY <2>2 DEF Send
      <3> QED  BY <1>1, <1>2, <2>2, <3>1 DEF Typed
    <2> QED  BY <2>1, <2>2
  <1> QED  BY <1>4, <1>5 DEF Typed, Placed, TickPlaced, Send, tierVars, diskVars

LEMMA LeaseTypes ==
  ASSUME Typed, Placed, NEW t \in Threads, Lease(t)
  PROVE  Typed' /\ Placed'
  <1>1. PlacedAs(thr[t]) /\ thr[t].at = "sent"
    BY DEF Placed, Lease
  <1>2. PICK s \in Slots \union {None}, r \in Requested : LeaseTo(t, s, r)
    BY <1>1, LeaseDoes
  <1>3. PlacedAs(r)
    BY <1>1, <1>2, TierAssumption DEF PlacedAs, LeaseTo
  <1>4. thr' \in [Threads -> Requested] /\ \A u \in Threads : PlacedAs(thr'[u])
    BY <1>2, <1>3, Goes DEF LeaseTo
  <1>5. seat' \in [Devices -> Slots \union {None}]
    BY <1>2 DEF Typed, LeaseTo
  <1> QED  BY <1>4, <1>5 DEF Typed, Placed, TickPlaced, Lease, tierVars, diskVars, clientVars

LEMMA HandoverTypes ==
  ASSUME Typed, Placed, NEW t \in Threads, Handover(t)
  PROVE  Typed' /\ Placed'
  <1> DEFINE s == thr[t].slot
             e == thr[t].from
             c == claim[s].chat
  <1>1. thr[t].at = "handover" /\ seat' = seat /\ UNCHANGED clientVars
    BY DEF Handover
  <1>2. s \in Slots /\ claim[s] \in Claims
    BY <1>1, Stands
  <1>3. Held(s, e) => e \in Devices /\ c \in Chats /\ Evicted(e, c) \in Claims
    BY <1>2, ClaimFacts, ClaimsAre DEF Held
  <1>4. \/ UNCHANGED <<tierVars, eng, asleep, diskVars, tick>>
        \/ Held(s, e) /\ Claim(s, Evicted(e, c)) /\ UNCHANGED <<fresh, live, eng, asleep, diskVars>>
        \/ Held(s, e) /\ Claim(s, Evicted(e, c)) /\ SaveTo(e, c, s) /\ asleep' = FALSE
           /\ UNCHANGED <<fresh, live, eng>>
        \/ Held(s, e) /\ SaveFails(e, c) /\ UNCHANGED <<tierVars, eng, asleep, tick>>
    BY DEF Handover
  <1>5. Put(t, [thr[t] EXCEPT !.at = "recall", !.from = None]) \/ Leave(t)
    BY DEF Handover
  <1>6. thr' \in [Threads -> Requested] /\ \A u \in Threads : PlacedAs(thr'[u])
    BY <1>1, <1>5, GoesOn
  <1>7. /\ claim' \in [Slots -> Claims] /\ dirty' \in [Slots -> BOOLEAN] /\ tick' \in Ticking
        /\ TickPlaced'
    BY <1>2, <1>3, <1>4, ClaimTyped DEF Typed, Placed, TickPlaced, tierVars
  <1>8. file' \in Stored /\ staged' \in Stored
    <2>1. ASSUME SaveFails(e, c), Held(s, e)
          PROVE  file' = file /\ staged' \in Stored
      BY <1>3, <2>1, NothingIsState DEF SaveFails, Typed, Stored
    <2> QED  BY <1>2, <1>3, <1>4, <2>1, SaveTyped DEF Typed, diskVars
  <1>9. asleep' \in BOOLEAN /\ UNCHANGED <<fresh, live, eng>>
    BY <1>4 DEF Typed, tierVars
  <1> QED  BY <1>1, <1>6, <1>7, <1>8, <1>9 DEF Typed, Placed, clientVars

LEMMA RecallTypes ==
  ASSUME Typed, Placed, NEW t \in Threads, Recall(t)
  PROVE  Typed' /\ Placed'
  <1> DEFINE s == thr[t].slot
             d == thr[t].dev
             c == claim[s].chat
  <1>1. /\ thr[t].at = "recall" /\ seat' = seat /\ UNCHANGED clientVars /\ UNCHANGED diskVars
        /\ \E place \in {"recall", "ready", "answering", "switch"} : At(t, place)
    BY DEF Recall, Served
  <1>2. s \in Slots /\ claim[s] \in Claims /\ d \in Devices
    BY <1>1, Stands
  <1>3. claim[s] = Evicted(d, c) => c \in Chats
    BY <1>2, ClaimFacts DEF Evicted
  <1>4. thr' \in [Threads -> Requested] /\ \A u \in Threads : PlacedAs(thr'[u])
    BY <1>1, GoesOn
  <1>5. \/ UNCHANGED <<tierVars, eng, asleep, tick>>
        \/ /\ claim' = [claim EXCEPT ![s] = Unknown]
           /\ UNCHANGED <<dirty, fresh, live, eng, asleep, tick>>
        \/ /\ claim[s] = Evicted(d, c) /\ asleep' = FALSE
           /\ \E w \in {eng[s], Nothing, file[d][c]}, k \in {Resident(d, c), Empty, Unknown} :
                eng' = [eng EXCEPT ![s] = w] /\ Claim(s, k)
           /\ \/ UNCHANGED <<fresh, live>>
              \/ Count(s) /\ live' = [live EXCEPT ![s] = TRUE]
    <2>1. eng = [eng EXCEPT ![s] = eng[s]]
      BY <1>2 DEF Typed
    <2> QED  BY <2>1 DEF Recall
  <1>6. /\ claim' \in [Slots -> Claims] /\ dirty' \in [Slots -> BOOLEAN] /\ tick' \in Ticking
        /\ TickPlaced' /\ eng' \in [Slots -> State]
    <2>1. CASE UNCHANGED <<tierVars, eng, asleep, tick>>
      BY <2>1 DEF Typed, Placed, TickPlaced, tierVars
    <2>2. CASE claim' = [claim EXCEPT ![s] = Unknown] /\ UNCHANGED <<dirty, fresh, live, eng, asleep, tick>>
      BY <2>2, <1>2, ClaimsAre DEF Typed, Placed, TickPlaced
    <2>3. ASSUME claim[s] = Evicted(d, c), NEW w \in {eng[s], Nothing, file[d][c]},
                 NEW k \in {Resident(d, c), Empty, Unknown}, eng' = [eng EXCEPT ![s] = w], Claim(s, k)
          PROVE  /\ claim' \in [Slots -> Claims] /\ dirty' \in [Slots -> BOOLEAN]
                 /\ tick' \in Ticking /\ TickPlaced' /\ eng' \in [Slots -> State]
      <3>1. k \in Claims /\ w \in State
        BY <1>2, <1>3, <2>3, ClaimsAre, NothingIsState DEF Typed, Stored
      <3>2. eng' \in [Slots -> State]
        BY <1>2, <2>3, <3>1 DEF Typed
      <3> QED  BY <1>2, <2>3, <3>1, <3>2, ClaimTyped DEF Placed
    <2> QED  BY <1>5, <2>1, <2>2, <2>3
  <1>7. asleep' \in BOOLEAN /\ fresh' \in [Slots -> BOOLEAN] /\ live' \in [Slots -> BOOLEAN]
    BY <1>5 DEF Typed, Count, tierVars
  <1> QED  BY <1>1, <1>4, <1>6, <1>7 DEF Typed, Placed, clientVars, diskVars

LEMMA CompleteTypes ==
  ASSUME Typed, Placed, NEW t \in Threads, Complete(t)
  PROVE  Typed' /\ Placed'
  <1> DEFINE s == thr[t].slot
             d == thr[t].dev
             c == thr[t].chat
             n == IF d \in Windows THEN said[d][c] + 1 ELSE 0
  <1>1. thr[t].at = "ready" /\ seat' = seat /\ open' = open /\ At(t, "answering")
    BY DEF Complete
  <1>2. s \in Slots /\ d \in Devices /\ c \in Chats \union {None} /\ (d \in Windows => c \in Chats)
    BY <1>1, Stands DEF Typed, Requested
  <1>3. n \in 0 .. MaxTurns
    <2>1. CASE d \in Windows
      <3>1. said[d][c] \in {Deleted} \union 0 .. MaxTurns /\ said[d][c] < MaxTurns
        BY <1>2, <2>1 DEF Complete, Typed
      <3> QED  BY <2>1, <3>1, TierAssumption DEF Deleted
    <2>2. CASE d \notin Windows
      BY <2>2, TierAssumption
    <2> QED  BY <2>1, <2>2
  <1>4. said' \in [Windows -> [Chats -> {Deleted} \union 0 .. MaxTurns]]
    <2>1. said' = IF d \in Windows THEN [said EXCEPT ![d][c] = n] ELSE said
      BY DEF Complete
    <2> HIDE DEF n
    <2> QED  BY <1>2, <1>3, <2>1 DEF Typed
  <1>5. thr' \in [Threads -> Requested] /\ \A u \in Threads : PlacedAs(thr'[u])
    BY <1>1, GoesOn
  <1>6. eng' \in [Slots -> State]
    <2>1. eng' = [eng EXCEPT ![s] = [dev |-> d, chat |-> c, turns |-> n]]
      BY DEF Complete
    <2> HIDE DEF n
    <2>2. [dev |-> d, chat |-> c, turns |-> n] \in State
      BY <1>2, <1>3 DEF State, Words
    <2> QED  BY <2>1, <2>2 DEF Typed
  <1> QED  BY <1>1, <1>4, <1>5, <1>6 DEF Typed, Placed, TickPlaced, Complete, tierVars, diskVars

LEMMA EndTurnTypes ==
  ASSUME Typed, Placed, NEW t \in Threads, EndTurn(t)
  PROVE  Typed' /\ Placed'
  <1>1. thr[t].at = "answering" /\ Leave(t) /\ seat' = seat
    BY DEF EndTurn
  <1>2. thr' \in [Threads -> Requested] /\ \A u \in Threads : PlacedAs(thr'[u])
    BY <1>1, GoesOn
  <1>3. dirty' \in [Slots -> BOOLEAN] /\ tick' \in Ticking
    BY DEF EndTurn, Remark, Typed, Ticking, Marked
  <1>4. tick'.at = tick.at /\ tick'.slot = tick.slot /\ tick'.dev = tick.dev /\ tick'.chat = tick.chat
    BY DEF EndTurn, Remark, Typed, Ticking
  <1> QED  BY <1>1, <1>2, <1>3, <1>4 DEF Typed, Placed, TickPlaced, EndTurn, diskVars, clientVars

LEMMA AbandonTypes ==
  ASSUME Typed, Placed, NEW t \in Threads, Abandon(t)
  PROVE  Typed' /\ Placed'
  <1>1. thr[t].at = "ready" /\ Leave(t)
    BY DEF Abandon
  <1>2. thr' \in [Threads -> Requested] /\ \A u \in Threads : PlacedAs(thr'[u])
    BY <1>1, GoesOn
  <1> QED  BY <1>2 DEF Typed, Placed, TickPlaced, Abandon, tierVars, diskVars, clientVars

(* What opening a chat does, case by case. *)
Mine(s, d) == claim[s].is = "resident" /\ claim[s].dev = d
Foreign(s, d) == claim[s].is = "resident" /\ claim[s].dev # d
Previous(s, d) == IF Mine(s, d) THEN claim[s].chat ELSE None
Kept(s, d) ==
  IF Mine(s, d) /\ eng[s] # Nothing THEN [file EXCEPT ![d][Previous(s, d)] = eng[s]] ELSE file
Now(s, d) == IF Foreign(s, d) THEN Empty ELSE claim[s]

OpensResident(s, d, c) ==
  /\ claim[s] = Resident(d, c)
  /\ open' = [open EXCEPT ![d] = c]
  /\ UNCHANGED <<tierVars, eng, asleep, diskVars, tick>>
FailsToSave(s, d, c) ==
  /\ Mine(s, d) /\ Previous(s, d) # c
  /\ SaveFails(d, Previous(s, d)) /\ Count(s)
  /\ UNCHANGED <<claim, dirty, live, eng, asleep, tick, open>>
Switched(s, d, c, left) ==
  /\ claim[s] # Resident(d, c)
  /\ file' = Kept(s, d)
  /\ staged' = IF Mine(s, d) THEN [staged EXCEPT ![d][Previous(s, d)] = Nothing] ELSE staged
  /\ Count(s) /\ asleep' = FALSE
  /\ eng' = [eng EXCEPT ![s] = left.state]
  /\ IF left.clean \/ left.claim # claim[s] THEN Claim(s, left.claim) ELSE UNCHANGED <<claim, dirty, tick>>
  /\ live' = [live EXCEPT ![s] = left.claim.is = "resident" /\ (left.clean \/ @)]
  /\ IF left.opened THEN open' = [open EXCEPT ![d] = c] ELSE UNCHANGED open

LEMMA ActivateCases ==
  ASSUME Typed, NEW t \in Threads, PlacedAs(thr[t]), Activate(t)
  PROVE  LET s == thr[t].slot
             d == thr[t].dev
             c == thr[t].chat IN
         /\ thr[t].at = "switch" /\ thr[t].op = "activate" /\ ~Generating(s)
         /\ Leave(t) /\ UNCHANGED <<seat, said>>
         /\ s \in Slots /\ d \in Devices /\ d \in Windows /\ c \in Chats
         /\ \/ OpensResident(s, d, c) \/ FailsToSave(s, d, c)
            \/ \E left \in Switches(s, d, c, Now(s, d), Previous(s, d), Foreign(s, d), Kept(s, d)) :
                 Switched(s, d, c, left)
  <1> DEFINE s == thr[t].slot
             d == thr[t].dev
             c == thr[t].chat
  <1>1. /\ thr[t].at = "switch" /\ thr[t].op = "activate" /\ ~Generating(s)
        /\ Leave(t) /\ UNCHANGED <<seat, said>>
    BY DEF Activate
  <1>2. s \in Slots /\ d \in Devices /\ d \in Windows /\ c \in Chats
    BY <1>1 DEF PlacedAs
  <1>3. \/ OpensResident(s, d, c) \/ FailsToSave(s, d, c)
        \/ \E left \in Switches(s, d, c, Now(s, d), Previous(s, d), Foreign(s, d), Kept(s, d)) :
             Switched(s, d, c, left)
    BY DEF Activate, Answer, OpensResident, FailsToSave, Switched, Mine, Foreign, Previous, Kept, Now
  <1> QED  BY <1>1, <1>2, <1>3

LEMMA ActivateDoes ==
  ASSUME Typed, Seated, NEW t \in Threads, Activate(t)
  PROVE  LET s == thr[t].slot
             d == thr[t].dev
             c == thr[t].chat IN
         /\ thr[t].at = "switch" /\ thr[t].op = "activate" /\ ~Generating(s)
         /\ Leave(t) /\ UNCHANGED <<seat, said>>
         /\ s \in Slots /\ d \in Devices /\ d \in Windows /\ c \in Chats
         /\ \/ OpensResident(s, d, c) \/ FailsToSave(s, d, c)
            \/ \E left \in Switches(s, d, c, Now(s, d), Previous(s, d), Foreign(s, d), Kept(s, d)) :
                 Switched(s, d, c, left)
  BY ActivateCases, SeatedPlaced

LEMMA SwitchFacts ==
  ASSUME Typed, NEW s \in Slots, NEW d \in Devices
  PROVE  /\ Mine(s, d) => Previous(s, d) \in Chats /\ claim[s] = Resident(d, Previous(s, d))
         /\ Previous(s, d) # None => Mine(s, d)
         /\ Kept(s, d) \in Stored /\ Now(s, d) \in Claims
         /\ Previous(s, d) # None => Kept(s, d)[d][Previous(s, d)] \in State
         /\ \A c \in Chats : Kept(s, d)[d][c] \in State
  <1>1. claim[s] \in Claims /\ eng[s] \in State /\ file \in Stored
    BY DEF Typed
  <1>2. Mine(s, d) => Previous(s, d) \in Chats /\ claim[s] = Resident(d, Previous(s, d))
    BY <1>1, ClaimFacts DEF Mine, Previous
  <1>3. Previous(s, d) # None => Mine(s, d)
    BY DEF Previous
  <1>4. Kept(s, d) \in Stored
    BY <1>1, <1>2 DEF Kept, Stored
  <1>5. Now(s, d) \in Claims
    BY <1>1, ClaimsAre DEF Now
  <1> QED  BY <1>2, <1>3, <1>4, <1>5 DEF Stored

LEMMA ActivateTypes ==
  ASSUME Typed, Placed, NEW t \in Threads, Activate(t)
  PROVE  Typed' /\ Placed'
  <1> DEFINE s == thr[t].slot
             d == thr[t].dev
             c == thr[t].chat
             previous == Previous(s, d)
             kept == Kept(s, d)
  <1>0. PlacedAs(thr[t])
    BY DEF Placed
  <1>1. /\ thr[t].at = "switch" /\ Leave(t) /\ UNCHANGED <<seat, said>>
        /\ s \in Slots /\ d \in Devices /\ d \in Windows /\ c \in Chats
    BY <1>0, ActivateCases
  <1>2. \/ OpensResident(s, d, c) \/ FailsToSave(s, d, c)
        \/ \E left \in Switches(s, d, c, Now(s, d), previous, Foreign(s, d), kept) : Switched(s, d, c, left)
    BY <1>0, ActivateCases
  <1>3. open' = open \/ open' = [open EXCEPT ![d] = c]
    BY <1>2 DEF OpensResident, FailsToSave, Switched
  <1>4. open' \in [Windows -> Chats \union {None}]
    BY <1>1, <1>3 DEF Typed
  <1>5. thr' \in [Threads -> Requested] /\ \A u \in Threads : PlacedAs(thr'[u])
    BY <1>1, GoesOn
  <1>6. CASE OpensResident(s, d, c)
    BY <1>1, <1>4, <1>5, <1>6 DEF OpensResident, Typed, Placed, TickPlaced, tierVars, diskVars
  <1>7. CASE FailsToSave(s, d, c)
    <2>1. staged' \in Stored
      BY <1>1, <1>7, SwitchFacts, NothingIsState DEF FailsToSave, SaveFails, Typed, Stored
    <2> QED  BY <1>1, <1>4, <1>5, <1>7, <2>1 DEF FailsToSave, SaveFails, Count, Typed, Placed, TickPlaced
  <1>8. ASSUME NEW left \in Switches(s, d, c, Now(s, d), previous, Foreign(s, d), kept),
               Switched(s, d, c, left)
        PROVE  Typed' /\ Placed'
    <2>1. /\ \/ left.state \in {Nothing, eng[s], kept[d][c]}
             \/ previous # None /\ left.state = kept[d][previous]
          /\ \/ LeavesTarget(left, d, c, kept) \/ LeavesAsWas(left, Now(s, d), s, Foreign(s, d))
             \/ LeavesOpen(left) \/ LeavesPrevious(left, d, previous, kept)
      BY <1>1, <1>8, SwitchOutcomes
    <2>2. left.state \in State /\ left.claim \in Claims
      <3>1. Nothing \in State /\ eng[s] \in State /\ kept[d][c] \in State /\ Now(s, d) \in Claims
        BY <1>1, SwitchFacts, NothingIsState DEF Typed
      <3>2. previous # None => kept[d][previous] \in State /\ Resident(d, previous) \in Claims
        BY <1>1, SwitchFacts, ClaimsAre
      <3>3. Resident(d, c) \in Claims /\ Unknown \in Claims /\ Empty \in Claims
        BY <1>1, ClaimsAre
      <3>4. left.state \in State
        BY <2>1, <3>1, <3>2
      <3>5. left.claim \in Claims
        BY <2>1, <3>1, <3>2, <3>3 DEF LeavesTarget, LeavesAsWas, LeavesOpen, LeavesPrevious
      <3> QED  BY <3>4, <3>5
    <2>3. eng' \in [Slots -> State]
      BY <1>1, <1>8, <2>2 DEF Switched, Typed
    <2>4. claim' \in [Slots -> Claims] /\ dirty' \in [Slots -> BOOLEAN] /\ tick' \in Ticking /\ TickPlaced'
      BY <1>1, <1>8, <2>2, ClaimTyped DEF Switched, Typed, Placed, TickPlaced
    <2>5. file' \in Stored
      BY <1>1, <1>8, SwitchFacts DEF Switched
    <2>6. staged' \in Stored
      BY <1>1, <1>8, SwitchFacts, NothingIsState DEF Switched, Typed, Stored
    <2>7. asleep' \in BOOLEAN /\ fresh' \in [Slots -> BOOLEAN] /\ live' \in [Slots -> BOOLEAN]
      BY <1>1, <1>8 DEF Switched, Typed, Count
    <2> QED  BY <1>1, <1>4, <1>5, <2>3, <2>4, <2>5, <2>6, <2>7 DEF Typed, Placed
  <1> QED  BY <1>2, <1>6, <1>7, <1>8

LEMMA EraseTypes ==
  ASSUME Typed, Placed, NEW t \in Threads, Erase(t)
  PROVE  Typed' /\ Placed'
  <1> DEFINE s == thr[t].slot
             d == thr[t].dev
             c == thr[t].chat
  <1>1. thr[t].at = "switch" /\ thr[t].op = "erase" /\ Leave(t) /\ UNCHANGED <<seat, fresh, live, clientVars>>
    BY DEF Erase
  <1>2. s \in Slots /\ d \in Devices /\ c \in Chats
    BY <1>1, Stands
  <1>3. thr' \in [Threads -> Requested] /\ \A u \in Threads : PlacedAs(thr'[u])
    BY <1>1, GoesOn
  <1>4. /\ eng' = eng \/ eng' = [eng EXCEPT ![s] = Nothing]
        /\ Claim(s, Empty) \/ UNCHANGED <<claim, dirty, tick>>
        /\ asleep' = FALSE \/ asleep' = asleep
        /\ \/ UNCHANGED diskVars
           \/ /\ file' = [file EXCEPT ![d][c] = Nothing]
              /\ staged' = [staged EXCEPT ![d][c] = Nothing]
    BY DEF Erase
  <1>5. claim' \in [Slots -> Claims] /\ dirty' \in [Slots -> BOOLEAN] /\ tick' \in Ticking /\ TickPlaced'
    BY <1>2, <1>4, ClaimTyped, ClaimsAre DEF Typed, Placed, TickPlaced
  <1>6. eng' \in [Slots -> State] /\ asleep' \in BOOLEAN
    BY <1>2, <1>4, NothingIsState DEF Typed
  <1>7. file' \in Stored /\ staged' \in Stored
    BY <1>2, <1>4, NothingIsState, StoredWrite DEF Typed, diskVars
  <1> QED  BY <1>1, <1>3, <1>5, <1>6, <1>7 DEF Typed, Placed, clientVars

LEMMA ReleaseTypes ==
  ASSUME Typed, Placed, Sleep \/ \E s \in Slots : PurgeIdle(s)
  PROVE  Typed' /\ Placed'
  <1>1. UNCHANGED <<seat, thr, claim, dirty, fresh, diskVars, tick, clientVars>>
    BY DEF Sleep, PurgeIdle
  <1>2. eng' \in [Slots -> State] /\ asleep' \in BOOLEAN /\ live' \in [Slots -> BOOLEAN]
    BY NothingIsState DEF Sleep, PurgeIdle, Typed
  <1> QED  BY <1>1, <1>2 DEF Typed, Placed, TickPlaced, diskVars, clientVars

LEMMA TickerTypes ==
  ASSUME Typed, Placed, Ticker
  PROVE  Typed' /\ Placed'
  <1>1. UNCHANGED <<seat, thr, clientVars, live, eng>>
    BY DEF Ticker, TickSample, TickRead, TickRelax, TickDone, TickPick, TickEngine, TickCheck,
           TickRename, TickSettle, TickNothing, tierVars
  <1>2. /\ tick \in Ticking /\ claim \in [Slots -> Claims] /\ eng \in [Slots -> State]
        /\ file \in Stored /\ staged \in Stored
    BY DEF Typed
  <1>3. NoTick \in Ticking /\ \A place \in TickAt : [NoTick EXCEPT !.at = place] \in Ticking
                                                /\ [tick EXCEPT !.at = place] \in Ticking
    BY <1>2 DEF NoTick, Ticking, TickAt
  <1>4. tick.at \in Saving => tick.slot \in Slots /\ tick.dev \in Devices /\ tick.chat \in Chats
    BY DEF Placed, TickPlaced
  <1>5. tick' \in Ticking /\ TickPlaced'
    <2>1. ASSUME NEW s \in Slots, TickPick(s)
          PROVE  tick' \in Ticking /\ TickPlaced'
      <3>1. claim[s].dev \in Devices /\ claim[s].chat \in Chats
        BY <1>2, <2>1, ClaimFacts DEF TickPick
      <3> QED  BY <2>1, <3>1 DEF TickPick, Ticking, TickAt, Saving, TickPlaced
    <2>2. CASE TickSample \/ TickRead \/ TickRelax \/ TickDone \/ TickEngine \/ TickCheck \/ TickRename
               \/ TickSettle \/ TickNothing
      <3>1. tick' \in Ticking
        BY <1>3, <2>2 DEF TickSample, TickRead, TickRelax, TickDone, TickEngine, TickCheck,
             TickRename, TickSettle, TickNothing, TickAt, Saving
      <3>2. \/ tick'.at \notin Saving
            \/ tick.at \in Saving /\ tick'.slot = tick.slot /\ tick'.dev = tick.dev /\ tick'.chat = tick.chat
        BY <1>2, <2>2 DEF TickSample, TickRead, TickRelax, TickDone, TickEngine, TickCheck,
             TickRename, TickSettle, TickNothing, Ticking, Saving, NoTick
      <3> QED  BY <1>4, <3>1, <3>2 DEF TickPlaced
    <2> QED  BY <2>1, <2>2 DEF Ticker
  <1>6. claim' \in [Slots -> Claims]
    <2>1. CASE TickRelax
      BY <1>2, <2>1, ClaimFacts, ClaimsAre DEF TickRelax, Relaxed
    <2>2. CASE TickNothing
      BY <1>2, <2>2, ClaimsAre DEF TickNothing
    <2> QED  BY <1>2, <2>1, <2>2 DEF Ticker, TickSample, TickRead, TickDone, TickPick, TickEngine,
           TickCheck, TickRename, TickSettle, tierVars
  <1>7. dirty' \in [Slots -> BOOLEAN] /\ fresh' \in [Slots -> BOOLEAN] /\ asleep' \in BOOLEAN
    BY DEF Typed, Ticker, TickSample, TickRead, TickRelax, TickDone, TickPick, TickEngine, TickCheck,
           TickRename, TickSettle, TickNothing, tierVars, NoSample
  <1>8. file' \in Stored /\ staged' \in Stored
    <2>1. CASE TickEngine
      <3>1. tick.slot \in Slots /\ tick.dev \in Devices /\ tick.chat \in Chats
        BY <1>4, <2>1 DEF TickEngine, Saving
      <3>2. PICK w \in State : staged' = [staged EXCEPT ![tick.dev][tick.chat] = w]
        BY <1>2, <2>1, <3>1, NothingIsState DEF TickEngine
      <3>3. file' = file
        BY <2>1 DEF TickEngine
      <3> QED  BY <1>2, <3>1, <3>2, <3>3 DEF Stored
    <2>2. CASE TickCheck
      BY <1>2, <1>4, <2>2, NothingIsState, StoredWrite DEF TickCheck, Saving
    <2>3. CASE TickRename
      <3>1. tick.dev \in Devices /\ tick.chat \in Chats
        BY <1>4, <2>3 DEF TickRename, Saving
      <3>2. staged[tick.dev][tick.chat] \in State
        BY <1>2, <3>1 DEF Stored
      <3> QED  BY <1>2, <2>3, <3>1, <3>2, NothingIsState, StoredWrite DEF TickRename, diskVars
    <2> QED  BY <1>2, <2>1, <2>2, <2>3 DEF Ticker, TickSample, TickRead, TickRelax, TickDone, TickPick,
           TickSettle, TickNothing, tierVars, diskVars
  <1> QED  BY <1>1, <1>2, <1>5, <1>6, <1>7, <1>8 DEF Typed, Placed, clientVars

LEMMA TypesKept ==
  ASSUME Typed, Placed, [Next]_vars
  PROVE  Typed' /\ Placed'
  <1>1. CASE UNCHANGED vars
    BY <1>1 DEF vars, Typed, Placed, TickPlaced, tierVars, diskVars, clientVars
  <1>2. ASSUME NEW t \in Threads, Request(t)
        PROVE  Typed' /\ Placed'
    BY <1>2, SendTypes, LeaseTypes, HandoverTypes, RecallTypes, CompleteTypes, EndTurnTypes,
       AbandonTypes, ActivateTypes, EraseTypes DEF Request
  <1> QED  BY <1>1, <1>2, TickerTypes, ReleaseTypes DEF Next

(* Every variable keeps its type, on every instance: whatever the slots, the requests *)
(* and the engine's failures (paging.rs `Chats`, door.rs `lease`).                     *)
THEOREM TierTypes == Spec => []TypeOK
  <1>1. Init => Typed /\ Placed
    BY TypedStarts DEF Init, Placed, TickPlaced, PlacedAs, NoRequest, NoTick, Saving
  <1>2. Typed /\ Placed /\ [Next]_vars => (Typed /\ Placed)'
    BY TypesKept
  <1>3. Typed => TypeOK
    BY DEF Typed, TypeOK, Requested, Ticking, TickAt, Saving, Stored, State
  <1> QED  BY <1>1, <1>2, <1>3, PTL DEF Spec

-----------------------------------------------------------------------------
(* Every step keeps the seats.                                             *)

LEMMA LeavingKeepsSeats ==
  ASSUME Typed, Seated, NEW t \in Threads, thr[t].at \notin {"idle", "sent"}, Leave(t), seat' = seat,
         \A e \in Windows : e # thr[t].dev => open'[e] = open[e] /\ said'[e] = said[e]
  PROVE  Seated'
  <1>1. NoRequest \in Requested /\ Put(t, NoRequest)
    BY Going DEF Leave
  <1> QED  BY <1>1, SeatedInPlace

LEMMA HandoverKeepsSeats ==
  ASSUME Typed, Seated, OneByOne, NEW t \in Threads, Handover(t)
  PROVE  Seated'
  <1> DEFINE r == [thr[t] EXCEPT !.at = "recall", !.from = None]
  <1>1. thr[t].at = "handover" /\ seat' = seat /\ UNCHANGED clientVars /\ Put(t, r)
    BY DEF Handover, OneByOne
  <1>2. r \in Requested
    BY Going
  <1>3. Stays(r, thr[t])
    BY <1>1 DEF Stays, Typed, Requested
  <1> HIDE DEF r
  <1> QED  BY <1>1, <1>2, <1>3, SeatedInPlace DEF clientVars

LEMMA RecallKeepsSeats ==
  ASSUME Typed, Seated, NEW t \in Threads, Recall(t)
  PROVE  Seated'
  <1> DEFINE r == [thr[t] EXCEPT !.at = Served(t)]
  <1>1. thr[t].at = "recall" /\ seat' = seat /\ UNCHANGED clientVars /\ Put(t, r)
    BY DEF Recall, At
  <1>2. r \in Requested
    BY Going DEF Served
  <1>3. Stays(r, thr[t])
    BY <1>1 DEF Stays, Typed, Requested, Served
  <1> HIDE DEF r
  <1> QED  BY <1>1, <1>2, <1>3, SeatedInPlace DEF clientVars

LEMMA CompleteKeepsSeats ==
  ASSUME Typed, Seated, NEW t \in Threads, Complete(t)
  PROVE  Seated'
  <1> DEFINE r == [thr[t] EXCEPT !.at = "answering"]
  <1>1. thr[t].at = "ready" /\ thr[t].op = "turn" /\ seat' = seat /\ open' = open /\ Put(t, r)
    BY DEF Complete, At, Seated, ThreadOK
  <1>2. r \in Requested /\ Stays(r, thr[t]) /\ r.op = "turn"
    BY <1>1, Going DEF Stays, Typed, Requested
  <1>3. \A w \in Windows : w # thr[t].dev => open'[w] = open[w] /\ said'[w] = said[w]
    BY DEF Complete, Typed
  <1> HIDE DEF r
  <1> QED  BY <1>1, <1>2, <1>3, SeatedInPlace

LEMMA ActivateKeepsSeats ==
  ASSUME Typed, Seated, NEW t \in Threads, Activate(t)
  PROVE  Seated'
  <1> DEFINE d == thr[t].dev
             c == thr[t].chat
  <1>1. thr[t].at = "switch" /\ Leave(t) /\ UNCHANGED <<seat, said>>
    BY ActivateDoes
  <1>2. open' = open \/ open' = [open EXCEPT ![d] = c]
    BY ActivateDoes DEF OpensResident, FailsToSave, Switched
  <1>3. \A w \in Windows : w # d => open'[w] = open[w] /\ said'[w] = said[w]
    BY <1>1, <1>2 DEF Typed
  <1> QED  BY <1>1, <1>3, LeavingKeepsSeats

LEMMA RequestKeepsSeats ==
  ASSUME Typed, Seated, OneByOne, NEW t \in Threads, Request(t)
  PROVE  Seated'
  <1>1. CASE EndTurn(t) \/ Abandon(t) \/ Erase(t)
    <2>1. /\ thr[t].at \notin {"idle", "sent"} /\ Leave(t) /\ seat' = seat
          /\ \A e \in Windows : open'[e] = open[e] /\ said'[e] = said[e]
      BY <1>1 DEF EndTurn, Abandon, Erase, clientVars
    <2> QED  BY <2>1, LeavingKeepsSeats
  <1> QED  BY <1>1, SeatedSend, SeatedLease, HandoverKeepsSeats, RecallKeepsSeats, CompleteKeepsSeats,
           ActivateKeepsSeats DEF Request

LEMMA TypesAndSeats ==
  ASSUME Typed, Seated, TickOK, OneByOne, [Next]_vars
  PROVE  Typed' /\ Seated'
  <1>1. Placed
    <2>1. TickPlaced
      BY DEF Typed, TickOK, TickPlaced, Ticking
    <2> QED  BY <2>1, SeatedPlaced DEF Placed
  <1>2. Typed'
    BY <1>1, TypesKept
  <1>3. CASE Ticker \/ Sleep \/ (\E s \in Slots : PurgeIdle(s)) \/ UNCHANGED vars
    <2>1. UNCHANGED <<seat, thr, open, said>>
      BY <1>3 DEF Ticker, TickSample, TickRead, TickRelax, TickDone, TickPick, TickEngine, TickCheck,
           TickRename, TickSettle, TickNothing, Sleep, PurgeIdle, vars, clientVars
    <2> QED  BY <1>2, <2>1 DEF Seated, ThreadOK, AskOK
  <1> QED  BY <1>2, <1>3, RequestKeepsSeats DEF Next

-----------------------------------------------------------------------------
(* One request in a slot at a time, and whose claim it can find there.     *)

SlotInv ==
  (\A s \in Slots : ClaimOK(s)) /\ OwnWordsOnly /\ TickOK /\ LateOK /\ CleanMeansSaved

LEMMA Alone ==
  ASSUME Typed, Seated, NEW t \in Threads, thr[t].at \notin {"idle", "sent"},
         NEW u \in Threads, thr[u].slot = thr[t].slot
  PROVE  u = t
  <1>1. ThreadOK(t) /\ ThreadOK(u) /\ thr[t].dev \in Devices /\ thr[t].slot # None
    BY Standing DEF Seated, ThreadOK
  <1>2. thr[u].slot # None /\ thr[u].dev # None /\ thr[u].dev \in Devices
    BY <1>1, Standing DEF ThreadOK
  <1> QED  BY <1>1, <1>2 DEF ThreadOK, Seated

LEMMA Holder ==
  ASSUME Typed, Seated, NEW t \in Threads, thr[t].at \notin {"idle", "sent"},
         ClaimOK(thr[t].slot), claim[thr[t].slot].is = "resident"
  PROVE  \/ claim[thr[t].slot].dev = thr[t].dev
         \/ thr[t].at = "handover" /\ thr[t].from = claim[thr[t].slot].dev
  <1> DEFINE s == thr[t].slot
             d == claim[s].dev
  <1>1. s \in Slots /\ claim[s] \in Claims /\ thr[t].dev \in Devices /\ seat[thr[t].dev] = s
    BY Standing
  <1>2. d \in Devices /\ s # None
    BY <1>1, ClaimFacts, TierAssumption
  <1>3. CASE seat[d] = s
    BY <1>1, <1>2, <1>3 DEF Seated
  <1>4. CASE \E u \in Threads : thr[u].at = "handover" /\ thr[u].slot = s /\ thr[u].from = d
    BY <1>4, Alone
  <1> QED  BY <1>3, <1>4 DEF ClaimOK

LEMMA Quiet ==
  ASSUME Typed, NEW t \in Threads, NEW r \in Requested, Put(t, r),
         thr[t].at # "answering", r.at # "answering"
  PROVE  \A s \in Slots : Generating(s)' <=> Generating(s)
  BY Moves DEF Generating

-----------------------------------------------------------------------------
(* Steps that leave the slot as it is, and steps that set its claim.       *)

\* only who asks for what has changed
LEMMA SlotStands ==
  ASSUME Typed, SlotInv, UNCHANGED <<claim, dirty, eng, diskVars, tick>>,
         \A s \in Slots : Generating(s) => Generating(s)',
         \A s \in Slots : ClaimOK(s)'
  PROVE  SlotInv'
  <1>1. OwnWordsOnly' /\ TickOK'
    BY DEF SlotInv, OwnWordsOnly, TickOK, StillHeld, diskVars
  <1>2. CleanMeansSaved'
    BY DEF SlotInv, CleanMeansSaved, InTurn, diskVars
  <1>3. LateOK'
    <2>1. tick.slot # None => tick.slot \in Slots
      BY DEF Typed, Ticking
    <2>2. StillHeld' <=> StillHeld
      BY DEF StillHeld
    <2>3. tick.slot # None /\ Settled(tick.slot)' => Settled(tick.slot)
      BY <2>1 DEF Settled
    <2> QED  BY <2>2, <2>3 DEF SlotInv, LateOK, diskVars
  <1> QED  BY <1>1, <1>2, <1>3 DEF SlotInv

\* a claim is as good as before when its holder's seat and window are
LEMMA ClaimStands ==
  ASSUME Typed, NEW s \in Slots, ClaimOK(s), claim'[s] = claim[s], eng'[s] \in {eng[s], Nothing},
         seat' = seat, \A w \in Windows : open'[w] \in {open[w], None},
         claim[s].is = "resident" =>
           \A u \in Threads : thr[u].at = "handover" /\ thr[u].from = claim[s].dev => thr'[u] = thr[u]
  PROVE  ClaimOK(s)'
  <1>1. claim[s].is \in {"resident", "evicted"} =>
          claim[s].dev \in Windows /\ open'[claim[s].dev] \in {claim[s].chat, None}
    BY DEF ClaimOK
  <1>2. claim[s].is = "resident" => Own(eng'[s], claim[s].dev, claim[s].chat)
    BY DEF ClaimOK, Own
  <1> QED  BY <1>1, <1>2 DEF ClaimOK

LEMMA ClaimSet ==
  ASSUME Typed, TickOK, OneByOne, NEW s \in Slots, NEW k \in Claims, Claim(s, k)
  PROVE  /\ claim'[s] = k /\ dirty'[s] = FALSE
         /\ tick'.at = tick.at /\ tick'.slot = tick.slot /\ tick'.dev = tick.dev /\ tick'.chat = tick.chat
         /\ tick.slot = s => /\ tick'.same = FALSE
                             /\ tick'.moved <=> claim'[s] # Resident(tick.dev, tick.chat)
                             /\ k = Resident(tick.dev, tick.chat) => claim[s] = k
  <1>1. claim'[s] = k /\ dirty'[s] = FALSE
    BY DEF Claim, Typed
  <1>2. tick \in Ticking /\ ~Regains(s, k)
    BY DEF Claim, Typed, OneByOne
  <1>3. CASE tick.slot # s
    BY <1>1, <1>3 DEF Claim
  <1>4. CASE tick.slot = s
    <2>1. s # None /\ (tick.moved <=> claim[s] # Resident(tick.dev, tick.chat))
      BY <1>4, TierAssumption DEF TickOK, StillHeld
    <2>2. tick' = [Moved(s, k) EXCEPT !.same = FALSE]
      BY <1>4 DEF Claim
    <2>3. CASE k # Resident(tick.dev, tick.chat)
      BY <1>1, <1>2, <1>4, <2>2, <2>3 DEF Moved, Ticking
    <2>4. CASE k = Resident(tick.dev, tick.chat)
      BY <1>1, <1>2, <1>4, <2>1, <2>2, <2>4 DEF Moved, Ticking, Regains
    <2> QED  BY <2>3, <2>4
  <1> QED  BY <1>3, <1>4

LEMMA Reclaimed ==
  ASSUME Typed, Typed', SlotInv, OneByOne, NEW s \in Slots, NEW k \in Claims, Claim(s, k),
         \A d \in Devices, c \in Chats : staged'[d][c] \in {staged[d][c], Nothing},
         k.is = "resident" /\ claim[s] = k => staged'[k.dev][k.chat] = Nothing,
         ClaimOK(s)', OwnWordsOnly',
         k.is = "resident" /\ eng'[s] # Nothing => file'[k.dev][k.chat] = eng'[s]
  PROVE  SlotInv'
  <1>1. \A r \in Slots : r = s
    BY DEF OneByOne
  <1>2. /\ claim'[s] = k /\ dirty'[s] = FALSE
        /\ tick'.at = tick.at /\ tick'.slot = tick.slot /\ tick'.dev = tick.dev /\ tick'.chat = tick.chat
        /\ tick.slot = s => /\ tick'.same = FALSE
                            /\ tick'.moved <=> claim'[s] # Resident(tick.dev, tick.chat)
                            /\ k = Resident(tick.dev, tick.chat) => claim[s] = k
    BY ClaimSet DEF SlotInv
  <1>3. tick.slot # None => tick.slot = s /\ tick.dev \in Devices /\ tick.chat \in Chats
    BY <1>1 DEF SlotInv, TickOK, Typed, Ticking
  <1>4. StillHeld' <=> claim'[tick.slot] = Resident(tick.dev, tick.chat)
    BY <1>2 DEF StillHeld
  <1>5. tick.slot # None /\ StillHeld' => staged'[tick.dev][tick.chat] = Nothing
    BY <1>2, <1>3, <1>4 DEF Resident
  <1>6. TickOK'
    <2>1. (tick'.at \in Saving) <=> (tick'.slot # None)
      BY <1>2 DEF SlotInv, TickOK
    <2>2. ASSUME tick'.slot # None
          PROVE  /\ tick'.dev \in Devices /\ tick'.chat \in Chats
                 /\ tick'.moved <=> ~StillHeld'
                 /\ tick'.moved => ~tick'.same
      BY <1>2, <1>3, <1>4, <2>2
    <2>3. ASSUME tick'.slot # None, (tick'.at = "written" /\ StillHeld') \/ tick'.at = "rename"
          PROVE  Own(staged'[tick'.dev][tick'.chat], tick'.dev, tick'.chat)
      <3>1. CASE StillHeld'
        BY <1>2, <1>5, <2>3, <3>1 DEF Own
      <3>2. CASE tick'.at = "rename"
        <4>1. Own(staged[tick.dev][tick.chat], tick.dev, tick.chat)
          BY <1>2, <2>3, <3>2 DEF SlotInv, TickOK
        <4>2. staged'[tick.dev][tick.chat] \in {staged[tick.dev][tick.chat], Nothing}
          BY <1>2, <1>3, <2>3
        <4> QED  BY <1>2, <4>1, <4>2 DEF Own
      <3> QED  BY <2>3, <3>1, <3>2
    <2> QED  BY <2>1, <2>2, <2>3 DEF TickOK
  <1>7. LateOK'
    BY <1>2, <1>3, <1>5 DEF LateOK
  <1>8. CleanMeansSaved'
    BY <1>1, <1>2 DEF CleanMeansSaved
  <1>9. \A r \in Slots : ClaimOK(r)'
    BY <1>1
  <1> QED  BY <1>6, <1>7, <1>8, <1>9 DEF SlotInv

\* the words of a chat, written to its own file
LEMMA OwnSaved ==
  ASSUME Typed, OwnWordsOnly, NEW d \in Devices, NEW c \in Chats, NEW w \in State, Own(w, d, c),
         file' \in {file, [file EXCEPT ![d][c] = w]}
  PROVE  OwnWordsOnly'
  <1>1. ASSUME NEW e \in Devices, NEW k \in Chats, file'[e][k] # Nothing
        PROVE  file'[e][k].dev = e /\ file'[e][k].chat = k
    <2>1. file \in Stored
      BY DEF Typed
    <2>2. CASE file'[e][k] = file[e][k]
      BY <1>1, <2>2 DEF OwnWordsOnly
    <2>3. CASE e = d /\ k = c /\ file'[e][k] = w
      BY <1>1, <2>3 DEF Own
    <2>4. CASE file' = file
      BY <2>2, <2>4
    <2>5. CASE file' = [file EXCEPT ![d][c] = w]
      BY <1>1, <2>1, <2>2, <2>3, <2>5, StoredWrite
    <2> QED  BY <2>4, <2>5
  <1> QED  BY <1>1 DEF OwnWordsOnly

-----------------------------------------------------------------------------
(* Every step keeps the slot.                                              *)

LEMMA SendHolds ==
  ASSUME Typed, Seated, SlotInv, NEW t \in Threads, NEW d \in Devices,
         NEW op \in {"turn", "activate", "erase"}, NEW c \in Chats \union {None}, Send(t, d, op, c)
  PROVE  SlotInv'
  <1> DEFINE r == [at |-> "sent", dev |-> d, op |-> op, chat |-> c, slot |-> None, from |-> None]
  <1>1. r \in Requested /\ r.at = "sent" /\ thr[t].at = "idle" /\ Put(t, r)
    BY DEF Requested, Send
  <1>2. \A u \in Threads : u # t => thr'[u] = thr[u]
    BY <1>1, Moves
  <1>3. UNCHANGED <<seat, tierVars, eng, diskVars, tick>>
    BY DEF Send
  <1>4. \A w \in Windows : open'[w] \in {open[w], None}
    BY DEF Send, Typed, clientVars
  <1>5. \A s \in Slots : ClaimOK(s)'
    BY <1>1, <1>2, <1>3, <1>4, ClaimStands DEF SlotInv, tierVars
  <1>6. \A s \in Slots : Generating(s)' <=> Generating(s)
    BY <1>1, Quiet
  <1> QED  BY <1>3, <1>5, <1>6, SlotStands DEF tierVars

LEMMA LeaseHolds ==
  ASSUME Typed, Seated, SlotInv, NEW t \in Threads, Lease(t), Seated', Typed'
  PROVE  SlotInv'
  <1>1. thr[t].at = "sent" /\ UNCHANGED <<tierVars, eng, diskVars, tick, clientVars>>
    BY DEF Lease
  <1>2. thr[t].dev \in Devices /\ thr[t].slot = None
    BY <1>1 DEF Seated, ThreadOK, Typed, Requested
  <1>3. PICK k \in Slots \union {None}, r \in Requested :
          Put(t, r) /\ r.at \in {"recall", "handover"} /\ LeaseTo(t, k, r)
    BY LeaseDoes, SeatedPlaced DEF LeaseTo
  <1>4. \A s \in Slots : Generating(s)' <=> Generating(s)
    BY <1>1, <1>3, Quiet
  <1>5. ASSUME NEW s \in Slots
        PROVE  ClaimOK(s)'
    <2> DEFINE d == claim[s].dev
               h == \E u \in Threads : thr[u].at = "handover" /\ thr[u].slot = s /\ thr[u].from = d
    <2>1. ClaimOK(s) /\ claim'[s] = claim[s] /\ eng'[s] = eng[s] /\ open' = open
      BY <1>1, <1>5 DEF SlotInv, tierVars, clientVars
    <2>2. ASSUME claim[s].is = "resident"
          PROVE  seat'[d] = s \/ h'
      <3>1. d \in Devices /\ s # None
        BY <2>2, ClaimFacts, TierAssumption DEF Typed
      <3>2. h => h'
        BY <1>1, <1>3, <2>1, Moves
      <3>3. CASE seat[d] = s /\ seat'[d] # s
        <4>1. PICK e \in Devices :
                /\ seat[e] = k /\ r.at = "handover" /\ r.from = e /\ r.slot = k
                /\ seat' = [seat EXCEPT ![e] = None, ![thr[t].dev] = k] /\ seat[thr[t].dev] = None
          BY <1>2, <1>3, <3>1, <3>3 DEF LeaseTo, Typed
        <4>2. e = d
          BY <1>2, <3>1, <3>3, <4>1 DEF Typed
        <4>3. thr'[t] = r
          BY <1>3, Moves
        <4> QED  BY <2>1, <3>3, <4>1, <4>2, <4>3
      <3> QED  BY <2>1, <2>2, <3>2, <3>3 DEF ClaimOK
    <2> QED  BY <2>1, <2>2 DEF ClaimOK
  <1> QED  BY <1>1, <1>4, <1>5, SlotStands DEF tierVars

LEMMA HandoverHolds ==
  ASSUME Typed, Seated, SlotInv, OneByOne, NEW t \in Threads, Handover(t), Typed', Seated'
  PROVE  SlotInv'
  <1>1. thr[t].at = "handover" /\ seat' = seat /\ UNCHANGED clientVars
    BY DEF Handover
  <1>2. PICK s \in Slots, e \in Devices \union {None}, r \in Requested :
          /\ s = thr[t].slot /\ e = thr[t].from /\ r = [thr[t] EXCEPT !.at = "recall", !.from = None]
    BY <1>1, Standing, Going DEF Typed, Requested
  <1>3. PICK c : c = claim[s].chat
    OBVIOUS
  <1>4. r.at = "recall" /\ Put(t, r) /\ claim[s] \in Claims /\ eng[s] \in State
    BY <1>2 DEF Handover, OneByOne, Typed, Requested
  <1>5. \A q \in Slots : Generating(q)' <=> Generating(q)
    BY <1>1, <1>4, Quiet
  <1>6. \A u \in Threads : u # t => thr'[u] = thr[u]
    BY <1>4, Moves
  <1>7. CASE ~Held(s, e)
    <2>1. UNCHANGED <<tierVars, eng, asleep, diskVars, tick>>
      BY <1>2, <1>7 DEF Handover
    <2>2. ASSUME NEW q \in Slots
          PROVE  ClaimOK(q)'
      <3>1. claim[q].is = "resident" =>
              \A u \in Threads : thr[u].at = "handover" /\ thr[u].from = claim[q].dev => thr'[u] = thr[u]
        BY <1>2, <1>6, <1>7 DEF Held, OneByOne
      <3> QED  BY <1>1, <2>1, <3>1, ClaimStands DEF SlotInv, tierVars, clientVars
    <2> QED  BY <1>5, <2>1, <2>2, SlotStands DEF tierVars
  <1>8. CASE Held(s, e)
    <2>1. /\ Claim(s, Evicted(e, c)) /\ eng' = eng
          /\ UNCHANGED diskVars \/ SaveTo(e, c, s)
      BY <1>2, <1>3, <1>8 DEF Handover, OneByOne
    <2>2. e \in Devices /\ c \in Chats /\ claim[s] = Resident(e, c) /\ Evicted(e, c) \in Claims
      BY <1>3, <1>4, <1>8, ClaimFacts, ClaimsAre DEF Held
    <2>3. Own(eng[s], e, c) /\ e \in Windows /\ open[e] \in {c, None}
      BY <2>2 DEF SlotInv, ClaimOK, Resident
    <2>4. claim'[s] = Evicted(e, c)
      BY <2>1 DEF Claim, Typed
    <2>5. ClaimOK(s)'
      BY <1>1, <2>3, <2>4 DEF ClaimOK, Evicted, clientVars
    <2>6. file \in Stored /\ staged \in Stored
      BY DEF Typed
    <2>7. \A d \in Devices, k \in Chats : staged'[d][k] \in {staged[d][k], Nothing}
      BY <2>1, <2>2, <2>6, StoredWrite, NothingIsState DEF SaveTo, diskVars
    <2>8. OwnWordsOnly'
      BY <1>4, <2>1, <2>2, <2>3, OwnSaved DEF SlotInv, OwnWordsOnly, SaveTo, diskVars
    <2>9. Evicted(e, c).is # "resident"
      BY DEF Evicted
    <2> QED  BY <2>1, <2>2, <2>5, <2>7, <2>8, <2>9, Reclaimed
  <1> QED  BY <1>7, <1>8

LEMMA RecallHolds ==
  ASSUME Typed, Seated, SlotInv, OneByOne, NEW t \in Threads, Recall(t), Typed', Seated'
  PROVE  SlotInv'
  <1>1. thr[t].at = "recall" /\ seat' = seat /\ UNCHANGED clientVars /\ UNCHANGED diskVars
    BY DEF Recall
  <1>2. PICK s \in Slots, d \in Devices, r \in Requested :
          /\ s = thr[t].slot /\ d = thr[t].dev /\ r = [thr[t] EXCEPT !.at = Served(t)]
    BY <1>1, Standing, Going DEF Served
  <1>3. PICK c : c = claim[s].chat
    OBVIOUS
  <1>4. /\ r.at \in {"ready", "switch"} /\ Put(t, r) /\ claim[s] \in Claims /\ eng[s] \in State
        /\ seat[d] = s
    BY <1>1, <1>2, Standing DEF Recall, At, Served, Typed, Requested
  <1>5. \A q \in Slots : Generating(q)' <=> Generating(q)
    BY <1>1, <1>4, Quiet
  <1>6. \A u \in Threads : u # t => thr'[u] = thr[u]
    BY <1>4, Moves
  <1>7. \A q \in Slots : q = s
    BY DEF OneByOne
  <1>8. CASE UNCHANGED <<tierVars, eng, asleep, tick>>
    <2>1. ASSUME NEW q \in Slots
          PROVE  ClaimOK(q)'
      BY <1>1, <1>6, <1>8, ClaimStands DEF SlotInv, tierVars, clientVars
    <2> QED  BY <1>1, <1>5, <1>8, <2>1, SlotStands DEF tierVars
  <1>9. CASE /\ claim[s] = Evicted(d, c) /\ claim' = [claim EXCEPT ![s] = Unknown]
             /\ UNCHANGED <<dirty, fresh, live, eng, asleep, tick>>
    <2>1. claim'[s] = Unknown
      BY <1>9 DEF Typed
    <2>2. \A q \in Slots : ClaimOK(q)'
      BY <1>7, <2>1 DEF ClaimOK, Unknown
    <2>3. OwnWordsOnly' /\ CleanMeansSaved'
      BY <1>1, <1>7, <2>1 DEF SlotInv, OwnWordsOnly, CleanMeansSaved, Unknown, diskVars
    <2>4. tick.slot # None => tick.slot = s /\ ~StillHeld /\ ~StillHeld'
      <3>1. tick.slot \in Slots \union {None}
        BY DEF Typed, Ticking
      <3> QED  BY <1>7, <1>9, <2>1, <3>1 DEF StillHeld, Unknown, Evicted, Resident
    <2>5. TickOK' /\ LateOK'
      BY <1>1, <1>9, <2>4 DEF SlotInv, TickOK, LateOK, diskVars
    <2> QED  BY <2>2, <2>3, <2>5 DEF SlotInv
  <1>10. CASE /\ claim[s] = Evicted(d, c)
              /\ \E k \in {Resident(d, c), Empty, Unknown} :
                   /\ Claim(s, k)
                   /\ k = Resident(d, c) => eng' = [eng EXCEPT ![s] = file[d][c]]
    <2>1. PICK k \in {Resident(d, c), Empty, Unknown} :
            Claim(s, k) /\ (k = Resident(d, c) => eng' = [eng EXCEPT ![s] = file[d][c]])
      BY <1>10
    <2>2. c \in Chats /\ d \in Windows /\ open[d] \in {c, None} /\ k \in Claims
      <3>1. c \in Chats
        BY <1>4, <1>10, ClaimFacts DEF Evicted
      <3>2. d \in Windows /\ open[d] \in {c, None}
        BY <1>10 DEF SlotInv, ClaimOK, Evicted
      <3> QED  BY <3>1, <3>2, <2>1, ClaimsAre
    <2>3. claim'[s] = k
      BY <2>1 DEF Claim, Typed
    <2>4. k = Resident(d, c) => eng'[s] = file[d][c] /\ Own(eng'[s], d, c)
      BY <2>1, <2>2 DEF Typed, SlotInv, OwnWordsOnly, Own
    <2>5. ClaimOK(s)'
      <3>1. CASE k = Resident(d, c)
        BY <1>1, <1>4, <2>2, <2>3, <2>4, <3>1 DEF ClaimOK, Resident, clientVars
      <3>2. CASE k # Resident(d, c)
        BY <2>1, <2>3, <3>2 DEF ClaimOK, Empty, Unknown
      <3> QED  BY <3>1, <3>2
    <2>6. OwnWordsOnly' /\ file' = file /\ staged' = staged
      BY <1>1 DEF SlotInv, OwnWordsOnly, diskVars
    <2>7. k.is = "resident" => k = Resident(d, c) /\ k.dev = d /\ k.chat = c /\ claim[s] # k
      BY <1>10, <2>1 DEF Resident, Evicted, Empty, Unknown
    <2> QED  BY <2>1, <2>2, <2>4, <2>5, <2>6, <2>7, Reclaimed
  <1>11. \/ UNCHANGED <<tierVars, eng, asleep, tick>>
         \/ /\ claim[s] = Evicted(d, c) /\ claim' = [claim EXCEPT ![s] = Unknown]
            /\ UNCHANGED <<dirty, fresh, live, eng, asleep, tick>>
         \/ /\ claim[s] = Evicted(d, c)
            /\ \E k \in {Resident(d, c), Empty, Unknown} :
                 /\ Claim(s, k)
                 /\ k = Resident(d, c) => eng' = [eng EXCEPT ![s] = file[d][c]]
    <2>1. Resident(d, c) # Empty /\ Resident(d, c) # Unknown
      BY DEF Resident, Empty, Unknown
    <2> QED  BY <1>2, <1>3, <2>1 DEF Recall
  <1> QED  BY <1>8, <1>9, <1>10, <1>11

LEMMA CompleteHolds ==
  ASSUME Typed, Seated, SlotInv, OneByOne, NEW t \in Threads, Complete(t), Typed', Seated'
  PROVE  SlotInv'
  <1>1. /\ thr[t].at = "ready" /\ thr[t].op = "turn" /\ seat' = seat /\ open' = open
        /\ UNCHANGED <<tierVars, diskVars, tick>>
    BY DEF Complete, Seated, ThreadOK
  <1>2. PICK s \in Slots, d \in Devices, r \in Requested :
          /\ s = thr[t].slot /\ d = thr[t].dev /\ r = [thr[t] EXCEPT !.at = "answering"]
    BY <1>1, Standing, Going
  <1>3. \A q \in Slots : q = s
    BY DEF OneByOne
  <1>4. thr'[t].at = "answering" /\ thr'[t].slot = s
    BY <1>2 DEF Complete, At, Put, Typed, Requested
  <1>5. \A q \in Slots : Generating(q)'
    BY <1>3, <1>4 DEF Generating
  <1>6. tick.slot # None => tick.slot \in Slots
    BY DEF Typed, Ticking
  <1>7. LateOK' /\ CleanMeansSaved'
    BY <1>1, <1>5, <1>6 DEF LateOK, Settled, CleanMeansSaved, InTurn
  <1>8. OwnWordsOnly' /\ TickOK'
    BY <1>1 DEF SlotInv, OwnWordsOnly, TickOK, StillHeld, tierVars, diskVars
  <1>9. ClaimOK(s)'
    <2>1. ClaimOK(s) /\ claim'[s] = claim[s] /\ claim[s] \in Claims
      BY <1>1 DEF SlotInv, tierVars, Typed
    <2>2. claim[s].is = "resident" => claim[s].dev = d
      BY <1>1, <1>2, <2>1, Holder
    <2>3. eng'[s].dev = d /\ eng'[s].chat = thr[t].chat
      BY <1>2 DEF Complete, Typed
    <2>4. claim[s].is = "resident" => thr[t].chat = claim[s].chat
      BY <1>1, <1>2, <2>1, <2>2 DEF ClaimOK, Seated, AskOK
    <2>5. claim[s].is = "resident" => seat[d] = s
      BY <1>1, <1>2, Standing
    <2> QED  BY <1>1, <2>1, <2>2, <2>3, <2>4, <2>5 DEF ClaimOK, Own
  <1> QED  BY <1>3, <1>7, <1>8, <1>9 DEF SlotInv

LEMMA EndTurnHolds ==
  ASSUME Typed, Seated, SlotInv, OneByOne, NEW t \in Threads, EndTurn(t), Typed', Seated'
  PROVE  SlotInv'
  <1>1. /\ thr[t].at = "answering" /\ seat' = seat /\ Leave(t)
        /\ UNCHANGED <<claim, eng, diskVars, clientVars>>
    BY DEF EndTurn
  <1>2. PICK s \in Slots : s = thr[t].slot
    BY <1>1, Standing
  <1>3. \A q \in Slots : q = s
    BY DEF OneByOne
  <1>4. dirty'[s] = TRUE
    BY <1>2 DEF EndTurn, Marked, Typed
  <1>5. \A u \in Threads : u # t => thr'[u] = thr[u]
    BY <1>1, Moves, Going DEF Leave
  <1>6. \A q \in Slots : ClaimOK(q)'
    BY <1>1, <1>5, ClaimStands DEF SlotInv, clientVars
  <1>7. tick.slot # None => tick.slot = s
    BY <1>3 DEF Typed, Ticking
  <1>8. /\ tick'.at = tick.at /\ tick'.slot = tick.slot /\ tick'.dev = tick.dev
        /\ tick'.chat = tick.chat /\ tick'.moved = tick.moved
        /\ tick.slot # None => tick'.same = FALSE
    BY <1>2, <1>7 DEF EndTurn, Remark, Typed, Ticking
  <1>9. TickOK'
    BY <1>1, <1>8 DEF SlotInv, TickOK, StillHeld, diskVars
  <1>10. LateOK'
    BY <1>4, <1>7, <1>8 DEF LateOK
  <1>11. OwnWordsOnly' /\ CleanMeansSaved'
    BY <1>1, <1>3, <1>4 DEF SlotInv, OwnWordsOnly, CleanMeansSaved, diskVars
  <1> QED  BY <1>6, <1>9, <1>10, <1>11 DEF SlotInv

LEMMA AbandonHolds ==
  ASSUME Typed, Seated, SlotInv, NEW t \in Threads, Abandon(t)
  PROVE  SlotInv'
  <1>1. /\ thr[t].at = "ready" /\ seat' = seat /\ Put(t, NoRequest) /\ NoRequest \in Requested
        /\ NoRequest.at = "idle" /\ UNCHANGED <<tierVars, eng, diskVars, tick, clientVars>>
    BY Going DEF Abandon, Leave, NoRequest
  <1>2. \A q \in Slots : Generating(q)' <=> Generating(q)
    BY <1>1, Quiet
  <1>3. \A u \in Threads : u # t => thr'[u] = thr[u]
    BY <1>1, Moves
  <1>4. \A q \in Slots : ClaimOK(q)'
    BY <1>1, <1>3, ClaimStands DEF SlotInv, tierVars, clientVars
  <1> QED  BY <1>1, <1>2, <1>4, SlotStands DEF tierVars

\* a request that leaves a slot where nothing was being answered
LEMMA LeavesQuietly ==
  ASSUME Typed, NEW t \in Threads, Leave(t), thr[t].at \notin {"answering", "handover"}
  PROVE  /\ \A q \in Slots : Generating(q)' <=> Generating(q)
         /\ \A u \in Threads : thr[u].at = "handover" => thr'[u] = thr[u]
  <1>1. NoRequest \in Requested /\ NoRequest.at = "idle" /\ Put(t, NoRequest)
    BY Going DEF Leave, NoRequest
  <1> QED  BY <1>1, Quiet, Moves

LEMMA ResidentHolds ==
  ASSUME Typed, Seated, SlotInv, OneByOne, NEW t \in Threads, thr[t].at = "switch", Leave(t),
         UNCHANGED <<seat, said>>, NEW s \in Slots, NEW d \in Windows, NEW c \in Chats,
         OpensResident(s, d, c)
  PROVE  SlotInv'
  <1>1. UNCHANGED <<tierVars, eng, diskVars, tick>> /\ claim[s] = Resident(d, c)
        /\ open' = [open EXCEPT ![d] = c]
    BY DEF OpensResident
  <1>2. /\ \A q \in Slots : Generating(q)' <=> Generating(q)
        /\ \A u \in Threads : thr[u].at = "handover" => thr'[u] = thr[u]
    BY LeavesQuietly
  <1>3. claim[s].dev = d /\ claim[s].chat = c /\ claim[s].is = "resident" /\ claim'[s] = claim[s]
    BY <1>1 DEF Resident, tierVars
  <1>4. open'[d] = c
    BY <1>1 DEF Typed
  <1>5. ClaimOK(s)'
    BY <1>1, <1>2, <1>3, <1>4 DEF SlotInv, ClaimOK
  <1>6. \A q \in Slots : ClaimOK(q)'
    BY <1>5 DEF OneByOne
  <1> QED  BY <1>1, <1>2, <1>6, SlotStands DEF tierVars

LEMMA UnsavedHolds ==
  ASSUME Typed, Seated, SlotInv, OneByOne, NEW t \in Threads, thr[t].at = "switch", Leave(t),
         UNCHANGED <<seat, said>>, NEW s \in Slots, NEW d \in Devices, NEW c \in Chats,
         FailsToSave(s, d, c)
  PROVE  SlotInv'
  <1>1. UNCHANGED <<claim, dirty, eng, tick, open, file>>
    BY DEF FailsToSave, SaveFails
  <1>2. /\ \A q \in Slots : Generating(q)' <=> Generating(q)
        /\ \A u \in Threads : thr[u].at = "handover" => thr'[u] = thr[u]
    BY LeavesQuietly
  <1>3. \A e \in Devices, k \in Chats : staged'[e][k] \in {staged[e][k], Nothing}
    BY SwitchFacts, StoredWrite, NothingIsState DEF FailsToSave, SaveFails, Typed
  <1>4. \A q \in Slots : ClaimOK(q)'
    BY <1>1, <1>2, ClaimStands DEF SlotInv
  <1>5. OwnWordsOnly' /\ CleanMeansSaved'
    BY <1>1, <1>2 DEF SlotInv, OwnWordsOnly, CleanMeansSaved, InTurn
  <1>6. tick.slot # None => tick.slot \in Slots /\ tick.dev \in Devices /\ tick.chat \in Chats
    BY DEF SlotInv, TickOK, Typed, Ticking
  <1>7. TickOK'
    BY <1>1, <1>3, <1>6 DEF SlotInv, TickOK, StillHeld, Own
  <1>8. LateOK'
    BY <1>1, <1>2, <1>3, <1>6 DEF SlotInv, LateOK, StillHeld, Settled
  <1> QED  BY <1>4, <1>5, <1>7, <1>8 DEF SlotInv

\* a switch finds its own device's claim in the slot, or nobody's
LEMMA NoForeign ==
  ASSUME Typed, Seated, SlotInv, NEW t \in Threads, thr[t].at = "switch",
         NEW s \in Slots, NEW d \in Devices, s = thr[t].slot, d = thr[t].dev
  PROVE  ~Foreign(s, d)
  BY Holder DEF Foreign, SlotInv

LEMMA SavedFirst ==
  ASSUME Typed, SlotInv, NEW s \in Slots, NEW d \in Devices, file' = Kept(s, d)
  PROVE  /\ OwnWordsOnly'
         /\ Mine(s, d) /\ eng[s] # Nothing => file'[d][Previous(s, d)] = eng[s]
  <1>1. CASE Mine(s, d) /\ eng[s] # Nothing
    <2>1. Previous(s, d) \in Chats /\ claim[s] = Resident(d, Previous(s, d))
      BY <1>1, SwitchFacts
    <2>2. eng[s] \in State /\ file \in Stored
      BY DEF Typed
    <2>3. Own(eng[s], d, Previous(s, d))
      BY <2>1 DEF SlotInv, ClaimOK, Resident
    <2>4. file' = [file EXCEPT ![d][Previous(s, d)] = eng[s]]
      BY <1>1 DEF Kept
    <2>5. OwnWordsOnly'
      BY <2>1, <2>2, <2>3, <2>4, OwnSaved DEF SlotInv
    <2> QED  BY <2>1, <2>2, <2>4, <2>5, StoredWrite
  <1>2. CASE ~(Mine(s, d) /\ eng[s] # Nothing)
    BY <1>2 DEF Kept, SlotInv, OwnWordsOnly
  <1> QED  BY <1>1, <1>2

LEMMA SwitchHolds ==
  ASSUME Typed, Seated, SlotInv, OneByOne, NEW t \in Threads, thr[t].at = "switch", Leave(t),
         UNCHANGED <<seat, said>>, NEW s \in Slots, NEW d \in Windows, NEW c \in Chats,
         s = thr[t].slot, d = thr[t].dev,
         NEW left \in Switches(s, d, c, Now(s, d), Previous(s, d), Foreign(s, d), Kept(s, d)),
         Switched(s, d, c, left), Typed', Seated'
  PROVE  SlotInv'
  <1>1. d \in Devices /\ seat[d] = s /\ ~Foreign(s, d)
    BY Standing, NoForeign
  <1>2. PICK p : p = Previous(s, d)
    OBVIOUS
  <1>3. /\ file' = Kept(s, d) /\ eng' = [eng EXCEPT ![s] = left.state]
        /\ staged' = IF Mine(s, d) THEN [staged EXCEPT ![d][p] = Nothing] ELSE staged
        /\ claim[s] # Resident(d, c)
        /\ open' = IF left.opened THEN [open EXCEPT ![d] = c] ELSE open
    BY <1>2 DEF Switched
  <1>4. /\ Mine(s, d) => p \in Chats /\ claim[s] = Resident(d, p)
        /\ p # None => Mine(s, d)
    BY <1>1, <1>2, SwitchFacts
  <1>5. /\ file' \in Stored /\ OwnWordsOnly' /\ eng'[s] = left.state
        /\ Mine(s, d) /\ eng[s] # Nothing => file'[d][p] = eng[s]
    BY <1>1, <1>2, <1>3, SavedFirst DEF Typed
  <1>6. \A e \in Devices, k \in Chats : staged'[e][k] \in {staged[e][k], Nothing}
    BY <1>1, <1>3, <1>4, StoredWrite, NothingIsState DEF Typed
  <1>7. Mine(s, d) => staged'[d][p] = Nothing
    <2>1. staged \in Stored
      BY DEF Typed
    <2>2. ASSUME Mine(s, d)
          PROVE  staged'[d][p] = Nothing
      <3>1. p \in Chats /\ staged' = [staged EXCEPT ![d][p] = Nothing]
        BY <1>3, <1>4, <2>2
      <3>2. [staged EXCEPT ![d][p] = Nothing][d][p] = Nothing
        BY <1>1, <2>1, <3>1, StoredWrite, NothingIsState
      <3> QED  BY <3>1, <3>2
    <2> QED  BY <2>2
  <1>8. \/ LeavesTarget(left, d, c, file') \/ LeavesAsWas(left, claim[s], s, FALSE)
        \/ LeavesOpen(left) \/ LeavesPrevious(left, d, p, file')
    <2>1. Now(s, d) = claim[s] /\ Foreign(s, d) = FALSE
      BY <1>1 DEF Now, Foreign
    <2>2. \/ LeavesTarget(left, d, c, Kept(s, d)) \/ LeavesAsWas(left, Now(s, d), s, Foreign(s, d))
          \/ LeavesOpen(left) \/ LeavesPrevious(left, d, Previous(s, d), Kept(s, d))
      BY <1>1, SwitchOutcomes
    <2>3. LeavesAsWas(left, Now(s, d), s, Foreign(s, d)) => LeavesAsWas(left, claim[s], s, FALSE)
      BY <2>1 DEF LeavesAsWas
    <2> QED  BY <1>2, <1>3, <2>2, <2>3
  <1>9. \A u \in Threads : thr[u].at = "handover" => thr'[u] = thr[u]
    BY LeavesQuietly
  <1>10. ClaimOK(s) /\ claim[s] \in Claims
    BY DEF SlotInv, Typed
  <1>11. CASE LeavesTarget(left, d, c, file')
    <2>1. Claim(s, Resident(d, c)) /\ claim'[s] = Resident(d, c) /\ open'[d] = c /\ Resident(d, c) \in Claims
      BY <1>1, <1>3, <1>11, ClaimsAre DEF LeavesTarget, Switched, Claim, Typed
    <2>2. eng'[s] # Nothing => eng'[s] = file'[d][c] /\ Own(eng'[s], d, c)
      BY <1>1, <1>5, <1>11 DEF LeavesTarget, OwnWordsOnly, Own
    <2>3. ClaimOK(s)'
      BY <1>1, <2>1, <2>2 DEF ClaimOK, Resident, Own
    <2>4. Resident(d, c).dev = d /\ Resident(d, c).chat = c
      BY DEF Resident
    <2> QED  BY <1>3, <1>5, <1>6, <2>1, <2>2, <2>3, <2>4, Reclaimed
  <1>12. CASE LeavesOpen(left)
    <2>1. PICK k \in {Unknown, Empty} : k = left.claim
      BY <1>12 DEF LeavesOpen
    <2>2. k \in Claims /\ k.is # "resident" /\ k.is # "evicted"
      BY <2>1, ClaimsAre DEF Unknown, Empty
    <2>3. Claim(s, k) /\ claim'[s] = k
      BY <1>12, <2>1 DEF LeavesOpen, Switched, Claim, Typed
    <2>4. ClaimOK(s)'
      BY <2>2, <2>3 DEF ClaimOK
    <2> QED  BY <1>5, <1>6, <2>2, <2>3, <2>4, Reclaimed
  <1>13. CASE LeavesPrevious(left, d, p, file')
    <2>1. p # None /\ Mine(s, d) /\ claim[s] = Resident(d, p) /\ p \in Chats
      BY <1>4, <1>13 DEF LeavesPrevious
    <2>2. Claim(s, claim[s]) /\ claim'[s] = claim[s] /\ open' = open
      BY <1>3, <1>13, <2>1 DEF LeavesPrevious, Switched, Claim, Typed
    <2>3. eng'[s] = file'[d][p] /\ Own(eng'[s], d, p)
      BY <1>1, <1>5, <1>13, <2>1 DEF LeavesPrevious, OwnWordsOnly, Own
    <2>4. claim[s].dev = d /\ claim[s].chat = p /\ claim[s].is = "resident"
      BY <2>1 DEF Resident
    <2>5. ClaimOK(s)'
      BY <1>1, <1>10, <2>2, <2>3, <2>4 DEF ClaimOK
    <2> QED  BY <1>5, <1>6, <1>7, <1>10, <2>1, <2>2, <2>3, <2>4, <2>5, Reclaimed
  <1>14. CASE LeavesAsWas(left, claim[s], s, FALSE)
    <2>1. UNCHANGED <<claim, dirty, tick, open>> /\ eng'[s] \in {eng[s], Nothing}
      BY <1>3, <1>5, <1>14 DEF LeavesAsWas, Switched
    <2>2. \A q \in Slots : q = s
      BY DEF OneByOne
    <2>3. ClaimOK(s)'
      BY <1>9, <1>10, <2>1, ClaimStands
    <2>4. tick.slot # None => tick.slot = s /\ tick.dev \in Devices /\ tick.chat \in Chats
      BY <2>2 DEF SlotInv, TickOK, Typed, Ticking
    <2>5. tick.slot # None => (StillHeld' <=> StillHeld)
      BY <2>1 DEF StillHeld
    <2>6. TickOK'
      BY <1>6, <2>1, <2>4, <2>5 DEF SlotInv, TickOK, Own
    <2>7. claim[s].is = "resident" => Mine(s, d) /\ claim[s].dev = d /\ claim[s].chat = p
      BY <1>1, <1>4 DEF Foreign, Mine, Resident
    <2>8. CleanMeansSaved'
      BY <1>5, <2>1, <2>2, <2>7 DEF CleanMeansSaved
    <2>9. LateOK'
      <3>1. tick.slot # None /\ StillHeld => Mine(s, d) /\ tick.dev = d /\ tick.chat = p
        BY <2>4, <2>7 DEF StillHeld, Resident
      <3>2. tick.slot # None /\ StillHeld =>
              /\ staged'[tick.dev][tick.chat] = Nothing
              /\ eng'[s] # Nothing => file'[tick.dev][tick.chat] = eng'[s]
        BY <1>5, <1>7, <2>1, <3>1
      <3> QED  BY <2>1, <2>4, <2>5, <3>2 DEF LateOK, Settled
    <2> QED  BY <1>5, <2>2, <2>3, <2>6, <2>8, <2>9 DEF SlotInv
  <1> QED  BY <1>8, <1>11, <1>12, <1>13, <1>14

LEMMA ActivateHolds ==
  ASSUME Typed, Seated, SlotInv, OneByOne, NEW t \in Threads, Activate(t), Typed', Seated'
  PROVE  SlotInv'
  <1>1. PICK s \in Slots, d \in Windows, c \in Chats : s = thr[t].slot /\ d = thr[t].dev /\ c = thr[t].chat
    BY ActivateDoes
  <1>2. thr[t].at = "switch" /\ Leave(t) /\ UNCHANGED <<seat, said>> /\ d \in Devices
    BY <1>1, ActivateDoes
  <1>3. \/ OpensResident(s, d, c) \/ FailsToSave(s, d, c)
        \/ \E left \in Switches(s, d, c, Now(s, d), Previous(s, d), Foreign(s, d), Kept(s, d)) :
             Switched(s, d, c, left)
    BY <1>1, ActivateDoes
  <1> QED  BY <1>1, <1>2, <1>3, ResidentHolds, UnsavedHolds, SwitchHolds

LEMMA EraseHolds ==
  ASSUME Typed, Seated, SlotInv, OneByOne, NEW t \in Threads, Erase(t), Typed', Seated'
  PROVE  SlotInv'
  <1>1. thr[t].at = "switch" /\ thr[t].op = "erase" /\ Leave(t) /\ UNCHANGED <<seat, clientVars>>
    BY DEF Erase
  <1>2. PICK s \in Slots, d \in Devices, c \in Chats : s = thr[t].slot /\ d = thr[t].dev /\ c = thr[t].chat
    BY <1>1, Standing
  <1>3. /\ \A q \in Slots : Generating(q)' <=> Generating(q)
        /\ \A u \in Threads : thr[u].at = "handover" => thr'[u] = thr[u]
    BY <1>1, LeavesQuietly
  <1>4. \A q \in Slots : q = s
    BY DEF OneByOne
  <1>5. ClaimOK(s) /\ claim[s] \in Claims /\ ~Foreign(s, d) /\ file \in Stored /\ staged \in Stored
    BY <1>1, <1>2, NoForeign DEF SlotInv, Typed
  <1>6. eng'[s] \in {eng[s], Nothing}
    BY <1>2 DEF Erase, Typed
  <1>7. tick.slot # None => tick.slot = s /\ tick.dev \in Devices /\ tick.chat \in Chats
    BY <1>4 DEF SlotInv, TickOK, Typed, Ticking
  <1>8. CASE claim[s] = Resident(d, c) /\ UNCHANGED <<claim, dirty, tick, diskVars>>
    <2>1. ClaimOK(s)'
      BY <1>1, <1>3, <1>5, <1>6, <1>8, ClaimStands DEF clientVars
    <2>2. OwnWordsOnly' /\ TickOK'
      BY <1>8 DEF SlotInv, OwnWordsOnly, TickOK, StillHeld, diskVars
    <2>3. CleanMeansSaved'
      BY <1>3, <1>4, <1>6, <1>8 DEF SlotInv, CleanMeansSaved, InTurn, diskVars
    <2>4. LateOK'
      BY <1>3, <1>6, <1>7, <1>8 DEF SlotInv, LateOK, StillHeld, Settled, diskVars
    <2> QED  BY <1>4, <2>1, <2>2, <2>3, <2>4 DEF SlotInv
  <1>9. CASE /\ file' = [file EXCEPT ![d][c] = Nothing] /\ staged' = [staged EXCEPT ![d][c] = Nothing]
             /\ claim[s] = Resident(d, c) /\ Claim(s, Empty)
    <2>1. claim'[s] = Empty
      BY <1>9 DEF Claim, Typed
    <2>2. ClaimOK(s)' /\ Empty.is # "resident" /\ Empty \in Claims
      BY <2>1, ClaimsAre DEF ClaimOK, Empty
    <2>3. OwnWordsOnly'
      BY <1>9, NothingIsState, OwnSaved DEF SlotInv, Own
    <2>4. \A e \in Devices, k \in Chats : staged'[e][k] \in {staged[e][k], Nothing}
      BY <1>5, <1>9, NothingIsState, StoredWrite
    <2> QED  BY <1>9, <2>2, <2>3, <2>4, Reclaimed
  <1>10. CASE /\ file' = [file EXCEPT ![d][c] = Nothing] /\ staged' = [staged EXCEPT ![d][c] = Nothing]
              /\ claim[s] # Resident(d, c) /\ UNCHANGED <<claim, dirty, tick, eng>>
    <2>1. ClaimOK(s)'
      BY <1>1, <1>3, <1>5, <1>10, ClaimStands DEF clientVars
    <2>2. OwnWordsOnly'
      BY <1>10, NothingIsState, OwnSaved DEF SlotInv, Own
    <2>3. \A e \in Devices, k \in Chats : Resident(e, k) = claim[s] =>
             file'[e][k] = file[e][k] /\ staged'[e][k] = staged[e][k]
      BY <1>5, <1>10, NothingIsState, StoredWrite
    <2>4. \A e \in Devices, k \in Chats : staged'[e][k] \in {staged[e][k], Nothing}
      BY <1>5, <1>10, NothingIsState, StoredWrite
    <2>5. CleanMeansSaved'
      <3>1. claim[s].is = "resident" =>
              file'[claim[s].dev][claim[s].chat] = file[claim[s].dev][claim[s].chat]
        BY <1>5, <2>3, ClaimFacts
      <3> QED  BY <1>3, <1>4, <1>10, <3>1 DEF SlotInv, CleanMeansSaved, InTurn
    <2>6. TickOK'
      BY <1>7, <1>10, <2>4 DEF SlotInv, TickOK, StillHeld, Own
    <2>7. LateOK'
      <3>1. tick.slot # None /\ StillHeld => /\ file'[tick.dev][tick.chat] = file[tick.dev][tick.chat]
                                             /\ staged'[tick.dev][tick.chat] = staged[tick.dev][tick.chat]
        BY <1>7, <2>3 DEF StillHeld
      <3> QED  BY <1>3, <1>7, <1>10, <3>1 DEF SlotInv, LateOK, StillHeld, Settled
    <2> QED  BY <1>4, <2>1, <2>2, <2>5, <2>6, <2>7 DEF SlotInv
  <1>11. \/ claim[s] = Resident(d, c) /\ UNCHANGED <<claim, dirty, tick, diskVars>>
         \/ /\ file' = [file EXCEPT ![d][c] = Nothing] /\ staged' = [staged EXCEPT ![d][c] = Nothing]
            /\ \/ claim[s] = Resident(d, c) /\ Claim(s, Empty)
               \/ claim[s] # Resident(d, c) /\ UNCHANGED <<claim, dirty, tick, eng>>
    <2>1. claim[s].is = "resident" => claim[s] \in {Resident(d, k) : k \in Chats}
      BY <1>5, ClaimFacts DEF Foreign
    <2>2. claim[s] = Resident(d, c) =>
            claim[s].is = "resident" /\ claim[s] \notin {Resident(d, k) : k \in Chats \ {c}}
      <3>1. \A k : Resident(d, k).chat = k /\ Resident(d, k).is = "resident"
        BY DEF Resident
      <3> QED  BY <3>1
    <2>3. claim[s].is = "resident" /\ claim[s] \notin {Resident(d, k) : k \in Chats \ {c}}
            => claim[s] = Resident(d, c)
      BY <2>1
    <2> QED  BY <1>2, <2>2, <2>3 DEF Erase
  <1> QED  BY <1>8, <1>9, <1>10, <1>11

LEMMA EngineHolds ==
  ASSUME Typed, Seated, SlotInv, Sleep \/ \E s \in Slots : PurgeIdle(s)
  PROVE  SlotInv'
  <1>1. UNCHANGED <<seat, thr, claim, dirty, diskVars, tick, clientVars>>
    BY DEF Sleep, PurgeIdle
  <1>2. \A q \in Slots : eng'[q] \in {eng[q], Nothing}
    BY DEF Sleep, PurgeIdle, Typed
  <1>3. \A q \in Slots : ClaimOK(q)'
    BY <1>1, <1>2, ClaimStands DEF SlotInv, clientVars
  <1>4. OwnWordsOnly' /\ TickOK'
    BY <1>1 DEF SlotInv, OwnWordsOnly, TickOK, StillHeld, diskVars
  <1>5. \A q \in Slots : Generating(q)' <=> Generating(q)
    BY <1>1 DEF Generating
  <1>6. CleanMeansSaved'
    BY <1>1, <1>2, <1>5 DEF SlotInv, CleanMeansSaved, InTurn, diskVars
  <1>7. tick.slot # None => tick.slot \in Slots
    BY DEF Typed, Ticking
  <1>8. LateOK'
    BY <1>1, <1>2, <1>5, <1>7 DEF SlotInv, LateOK, StillHeld, Settled, diskVars
  <1> QED  BY <1>3, <1>4, <1>6, <1>8 DEF SlotInv

\* while the ticker saves nothing, its record is no part of the argument
LEMMA TickerIdles ==
  ASSUME Typed, SlotInv, UNCHANGED <<seat, thr, dirty, eng, diskVars, clientVars>>,
         tick'.at \notin Saving, tick'.slot = None,
         \A q \in Slots : claim'[q] \in {claim[q], Evicted(claim[q].dev, claim[q].chat), Unknown},
         \A q \in Slots : claim'[q] # claim[q] => claim[q].is = "resident"
  PROVE  SlotInv'
  <1>1. TickOK' /\ LateOK' /\ OwnWordsOnly'
    BY DEF SlotInv, TickOK, LateOK, OwnWordsOnly, diskVars
  <1>2. ASSUME NEW q \in Slots
        PROVE  ClaimOK(q)'
    <2>1. CASE claim'[q] = claim[q]
      BY <1>2, <2>1, ClaimStands DEF SlotInv, clientVars
    <2>2. CASE claim'[q] = Evicted(claim[q].dev, claim[q].chat) /\ claim[q].is = "resident"
      BY <1>2, <2>2 DEF SlotInv, ClaimOK, Evicted, clientVars
    <2>3. CASE claim'[q] = Unknown
      BY <2>3 DEF ClaimOK, Unknown
    <2> QED  BY <1>2, <2>1, <2>2, <2>3
  <1>3. CleanMeansSaved'
    <2>1. \A q \in Slots : claim'[q].is = "resident" => claim'[q] = claim[q]
      BY DEF Evicted, Unknown
    <2>2. \A q \in Slots : Generating(q)' <=> Generating(q)
      BY DEF Generating
    <2> QED  BY <2>1, <2>2 DEF SlotInv, CleanMeansSaved, InTurn, diskVars
  <1> QED  BY <1>1, <1>2, <1>3 DEF SlotInv

\* the saving ticker: the claims stand, and the file may be what was staged
LEMMA TickerSaves ==
  ASSUME Typed, SlotInv, UNCHANGED <<seat, thr, claim, eng, clientVars>>,
         TickOK', LateOK', OwnWordsOnly', CleanMeansSaved'
  PROVE  SlotInv'
  <1>1. \A q \in Slots : ClaimOK(q)'
    BY ClaimStands DEF SlotInv, clientVars
  <1> QED  BY <1>1 DEF SlotInv

LEMMA TickerPlace ==
  ASSUME Typed, SlotInv
  PROVE  /\ tick \in Ticking
         /\ tick.at \in Saving => tick.slot \in Slots /\ tick.dev \in Devices /\ tick.chat \in Chats
         /\ tick.at \notin Saving => tick.slot = None
         /\ NoTick.at = "idle" /\ NoTick.slot = None
         /\ \A place \in TickAt : /\ [tick EXCEPT !.at = place].at = place
                                  /\ [tick EXCEPT !.at = place].slot = tick.slot
                                  /\ [NoTick EXCEPT !.at = place].at = place
                                  /\ [NoTick EXCEPT !.at = place].slot = None
  BY DEF Typed, SlotInv, TickOK, Ticking, NoTick, TickAt

LEMMA TickIdleHolds ==
  ASSUME Typed, SlotInv, TickSample \/ TickRead \/ TickRelax \/ TickDone
  PROVE  SlotInv'
  <1>1. UNCHANGED <<seat, thr, dirty, eng, diskVars, clientVars>>
    BY DEF TickSample, TickRead, TickRelax, TickDone, tierVars
  <1>2. tick'.at \notin Saving /\ tick'.slot = None
    <2>1. CASE TickDone
      BY <2>1, TickerPlace DEF TickDone, Saving
    <2>2. CASE TickSample \/ TickRead \/ TickRelax
      <3>1. tick.at \in {"idle", "sampled", "relax"} /\ tick.slot = None
        BY <2>2, TickerPlace DEF TickSample, TickRead, TickRelax, Saving
      <3>2. PICK place \in {"sampled", "relax", "write"} : tick' = [tick EXCEPT !.at = place]
        BY <2>2 DEF TickSample, TickRead, TickRelax
      <3> QED  BY <3>1, <3>2, TickerPlace DEF TickAt, Saving
    <2> QED  BY <2>1, <2>2
  <1>3. \A q \in Slots : /\ claim'[q] \in {claim[q], Evicted(claim[q].dev, claim[q].chat), Unknown}
                         /\ claim'[q] # claim[q] => claim[q].is = "resident"
    BY DEF TickSample, TickRead, TickRelax, TickDone, tierVars, Relaxed
  <1> QED  BY <1>1, <1>2, <1>3, TickerIdles

LEMMA TickPickHolds ==
  ASSUME Typed, SlotInv, NEW s \in Slots, TickPick(s)
  PROVE  SlotInv'
  <1>1. UNCHANGED <<seat, thr, claim, eng, clientVars, dirty, diskVars>>
    BY DEF TickPick, tierVars
  <1>2. /\ tick'.at = "saving" /\ tick'.slot = s /\ tick'.dev = claim[s].dev /\ tick'.chat = claim[s].chat
        /\ tick'.same = TRUE /\ tick'.moved = FALSE
    BY DEF TickPick
  <1>3. claim[s].dev \in Devices /\ claim[s].chat \in Chats /\ claim[s] = Resident(claim[s].dev, claim[s].chat)
    BY ClaimFacts DEF TickPick, Typed
  <1>4. s # None
    BY TierAssumption
  <1>5. TickOK'
    BY <1>1, <1>2, <1>3, <1>4 DEF TickOK, StillHeld, Saving
  <1>6. LateOK'
    BY <1>2 DEF LateOK
  <1>7. OwnWordsOnly' /\ CleanMeansSaved'
    BY <1>1 DEF SlotInv, OwnWordsOnly, CleanMeansSaved, InTurn, Generating, diskVars
  <1> QED  BY <1>1, <1>5, <1>6, <1>7, TickerSaves

LEMMA TickEngineHolds ==
  ASSUME Typed, SlotInv, TickEngine
  PROVE  SlotInv'
  <1>1. UNCHANGED <<seat, thr, claim, eng, clientVars, dirty, file>> /\ tick.at = "saving"
    BY DEF TickEngine, tierVars
  <1>2. OwnWordsOnly' /\ CleanMeansSaved'
    BY <1>1 DEF SlotInv, OwnWordsOnly, CleanMeansSaved, InTurn, Generating
  <1>3. /\ tick \in Ticking /\ tick.slot \in Slots /\ tick.dev \in Devices /\ tick.chat \in Chats
        /\ eng[tick.slot] \in State /\ staged \in Stored
    BY <1>1, TickerPlace DEF Saving, Typed
  <1>4. CASE tick' = [NoTick EXCEPT !.at = "write"]
    <2>1. tick'.slot = None /\ tick'.at \notin Saving
      BY <1>4 DEF NoTick, Saving
    <2> QED  BY <1>1, <1>2, <2>1, TickerSaves DEF TickOK, LateOK
  <1>5. CASE /\ staged' = [staged EXCEPT ![tick.dev][tick.chat] = eng[tick.slot]]
             /\ tick' = [tick EXCEPT !.at = IF eng[tick.slot] = Nothing THEN "nothing" ELSE "written"]
    <2>1. /\ tick'.slot = tick.slot /\ tick'.dev = tick.dev /\ tick'.chat = tick.chat
          /\ tick'.same = tick.same /\ tick'.moved = tick.moved /\ tick'.at \in {"nothing", "written"}
      BY <1>3, <1>5 DEF Ticking
    <2>2. staged'[tick.dev][tick.chat] = eng[tick.slot]
      BY <1>3, <1>5, StoredWrite
    <2>3. (StillHeld' <=> StillHeld) /\ tick.slot # None
      BY <1>1, <1>3, <2>1, TierAssumption DEF StillHeld
    <2>4. StillHeld => Own(eng[tick.slot], tick.dev, tick.chat)
      BY <1>3 DEF SlotInv, ClaimOK, StillHeld, Resident
    <2>5. TickOK'
      BY <1>1, <1>3, <2>1, <2>2, <2>3, <2>4 DEF SlotInv, TickOK, Saving
    <2>6. LateOK'
      BY <1>1, <2>1, <2>2 DEF LateOK
    <2> QED  BY <1>1, <1>2, <2>5, <2>6, TickerSaves
  <1> QED  BY <1>4, <1>5 DEF TickEngine

LEMMA TickCheckHolds ==
  ASSUME Typed, SlotInv, TickCheck
  PROVE  SlotInv'
  <1>1. UNCHANGED <<seat, thr, claim, eng, clientVars, dirty, file>> /\ tick.at = "written"
    BY DEF TickCheck, tierVars
  <1>2. OwnWordsOnly' /\ CleanMeansSaved'
    BY <1>1 DEF SlotInv, OwnWordsOnly, CleanMeansSaved, InTurn, Generating
  <1>3. CASE tick' = [NoTick EXCEPT !.at = "write"]
    <2>1. tick'.slot = None /\ tick'.at \notin Saving
      BY <1>3 DEF NoTick, Saving
    <2> QED  BY <1>1, <1>2, <2>1, TickerSaves DEF TickOK, LateOK
  <1>4. CASE StillHeld /\ tick' = [tick EXCEPT !.at = "rename"] /\ staged' = staged
    <2>1. /\ tick'.slot = tick.slot /\ tick'.dev = tick.dev /\ tick'.chat = tick.chat
          /\ tick'.same = tick.same /\ tick'.moved = tick.moved /\ tick'.at = "rename"
      BY <1>4, TickerPlace DEF Ticking
    <2>2. (StillHeld' <=> StillHeld) /\ tick.slot # None
      BY <1>1, <2>1, TickerPlace, TierAssumption DEF StillHeld, Saving
    <2>3. TickOK'
      BY <1>1, <1>4, <2>1, <2>2 DEF SlotInv, TickOK, Saving
    <2>4. LateOK'
      BY <1>1, <1>4, <2>1, <2>2 DEF SlotInv, LateOK, Settled, Generating
    <2> QED  BY <1>1, <1>2, <2>3, <2>4, TickerSaves
  <1> QED  BY <1>3, <1>4 DEF TickCheck

LEMMA TickRenameHolds ==
  ASSUME Typed, SlotInv, OneByOne, TickRename
  PROVE  SlotInv'
  <1>1. UNCHANGED <<seat, thr, claim, eng, clientVars, dirty>> /\ tick.at = "rename"
    BY DEF TickRename, tierVars
  <1>2. PICK s \in Slots, d \in Devices, c \in Chats : s = tick.slot /\ d = tick.dev /\ c = tick.chat
    BY <1>1, TickerPlace DEF Saving
  <1>3. file \in Stored /\ staged \in Stored /\ staged[d][c] \in State
    BY DEF Typed, Stored
  <1>4. CASE tick' = [NoTick EXCEPT !.at = "write"] /\ UNCHANGED diskVars
    <2>1. tick'.slot = None /\ tick'.at \notin Saving
      BY <1>4 DEF NoTick, Saving
    <2>2. OwnWordsOnly' /\ CleanMeansSaved'
      BY <1>1, <1>4 DEF SlotInv, OwnWordsOnly, CleanMeansSaved, InTurn, Generating, diskVars
    <2> QED  BY <1>1, <2>1, <2>2, TickerSaves DEF TickOK, LateOK
  <1>5. CASE /\ staged[d][c] # Nothing /\ tick' = [tick EXCEPT !.at = "settle"]
             /\ file' = [file EXCEPT ![d][c] = staged[d][c]]
             /\ staged' = [staged EXCEPT ![d][c] = Nothing]
    <2>1. /\ tick'.slot = tick.slot /\ tick'.dev = tick.dev /\ tick'.chat = tick.chat
          /\ tick'.same = tick.same /\ tick'.moved = tick.moved /\ tick'.at = "settle"
      BY <1>5, TickerPlace DEF Ticking
    <2>2. (StillHeld' <=> StillHeld) /\ s # None
      BY <1>1, <2>1, TierAssumption DEF StillHeld
    <2>3. Own(staged[d][c], d, c)
      BY <1>1, <1>2, <2>2 DEF SlotInv, TickOK
    <2>4. OwnWordsOnly'
      BY <1>3, <1>5, <2>3, OwnSaved DEF SlotInv
    <2>5. TickOK'
      BY <1>1, <1>2, <2>1, <2>2 DEF SlotInv, TickOK, Saving
    <2>6. /\ file'[d][c] = staged[d][c]
          /\ \A e \in Devices, k \in Chats : e # d \/ k # c => file'[e][k] = file[e][k]
      BY <1>3, <1>5, StoredWrite
    <2>7. ~Generating(s) /\ eng[s] # Nothing /\ StillHeld /\ (tick.same \/ ~dirty[s]) => staged[d][c] = eng[s]
      BY <1>1, <1>2, <1>5, <2>2 DEF SlotInv, LateOK, Settled
    <2>8. LateOK'
      BY <1>1, <1>2, <2>1, <2>2, <2>6, <2>7 DEF LateOK, Settled, Generating
    <2>9. CleanMeansSaved'
      <3>1. SUFFICES ASSUME claim[s].is = "resident", ~dirty[s], ~Generating(s), eng[s] # Nothing
                     PROVE  file'[claim[s].dev][claim[s].chat] = eng[s]
        BY <1>1 DEF CleanMeansSaved, InTurn, Generating, OneByOne
      <3>2. claim[s].dev \in Devices /\ claim[s].chat \in Chats /\ claim[s] = Resident(claim[s].dev, claim[s].chat)
        BY <3>1, ClaimFacts DEF Typed
      <3>3. file[claim[s].dev][claim[s].chat] = eng[s]
        BY <3>1 DEF SlotInv, CleanMeansSaved, InTurn
      <3>4. CASE claim[s].dev = d /\ claim[s].chat = c
        BY <1>2, <2>6, <2>7, <3>1, <3>2, <3>4 DEF StillHeld
      <3>5. CASE claim[s].dev # d \/ claim[s].chat # c
        BY <2>6, <3>2, <3>3, <3>5
      <3> QED  BY <3>4, <3>5
    <2> QED  BY <1>1, <2>4, <2>5, <2>8, <2>9, TickerSaves
  <1> QED  BY <1>2, <1>4, <1>5 DEF TickRename

LEMMA TickSettleHolds ==
  ASSUME Typed, SlotInv, OneByOne, TickSettle
  PROVE  SlotInv'
  <1>1. UNCHANGED <<seat, thr, claim, eng, clientVars, diskVars>> /\ tick.at = "settle"
    BY DEF TickSettle
  <1>2. tick'.slot = None /\ tick'.at \notin Saving
    BY DEF TickSettle, NoTick, Saving
  <1>3. PICK s \in Slots : s = tick.slot /\ s # None /\ dirty'[s] = (dirty[s] /\ ~tick.same)
    BY <1>1, TickerPlace, TierAssumption DEF TickSettle, OwnMark, Typed, Saving
  <1>4. OwnWordsOnly'
    BY <1>1 DEF SlotInv, OwnWordsOnly, diskVars
  <1>5. tick.same => StillHeld
    BY <1>3 DEF SlotInv, TickOK
  <1>6. CleanMeansSaved'
    <2>1. SUFFICES ASSUME claim[s].is = "resident", ~dirty'[s], ~Generating(s), eng[s] # Nothing
                   PROVE  file[claim[s].dev][claim[s].chat] = eng[s]
      BY <1>1 DEF CleanMeansSaved, InTurn, Generating, OneByOne, diskVars
    <2>2. CASE ~dirty[s]
      BY <2>1, <2>2 DEF SlotInv, CleanMeansSaved, InTurn
    <2>3. CASE tick.same
      <3>1. claim[s] = Resident(tick.dev, tick.chat)
        BY <1>3, <1>5, <2>3 DEF StillHeld
      <3>2. file[tick.dev][tick.chat] = eng[s]
        BY <1>1, <1>3, <1>5, <2>1, <2>3 DEF SlotInv, LateOK, Settled
      <3> QED  BY <3>1, <3>2 DEF Resident
    <2> QED  BY <1>3, <2>1, <2>2, <2>3
  <1> QED  BY <1>1, <1>2, <1>4, <1>6, TickerSaves DEF TickOK, LateOK

LEMMA TickNothingHolds ==
  ASSUME Typed, SlotInv, OneByOne, TickNothing
  PROVE  SlotInv'
  <1>1. UNCHANGED <<seat, thr, eng, clientVars, diskVars>> /\ tick.at = "nothing"
    BY DEF TickNothing
  <1>2. tick'.slot = None /\ tick'.at \notin Saving
    BY DEF TickNothing, NoTick, Saving
  <1>3. CASE UNCHANGED <<claim, dirty>>
    BY <1>1, <1>2, <1>3, TickerIdles
  <1>4. CASE /\ claim' = [claim EXCEPT ![tick.slot] = Unknown]
             /\ dirty' = [dirty EXCEPT ![tick.slot] = FALSE]
    <2>1. PICK s \in Slots : s = tick.slot
      BY <1>1, TickerPlace DEF Saving
    <2>2. \A q \in Slots : claim'[q] = Unknown
      BY <1>4, <2>1 DEF OneByOne, Typed
    <2>3. \A q \in Slots : ClaimOK(q)'
      BY <2>2 DEF ClaimOK, Unknown
    <2>4. OwnWordsOnly' /\ CleanMeansSaved' /\ TickOK' /\ LateOK'
      BY <1>1, <1>2, <2>2 DEF SlotInv, OwnWordsOnly, CleanMeansSaved, TickOK, LateOK, Unknown, diskVars
    <2> QED  BY <2>3, <2>4 DEF SlotInv
  <1> QED  BY <1>3, <1>4 DEF TickNothing

-----------------------------------------------------------------------------
(* The invariant, and what follows from it.                                *)

TierInv == Typed /\ Seated /\ SlotInv

LEMMA TierStarts == Init => TierInv
  <1> SUFFICES ASSUME Init PROVE SlotInv
    BY TypedStarts, SeatedStarts DEF TierInv
  <1>1. /\ \A s \in Slots : claim[s] = Unknown
        /\ \A d \in Devices, c \in Chats : file[d][c] = Nothing
        /\ tick.at = "idle" /\ tick.slot = None
    BY DEF Init, NoTick
  <1>2. \A s \in Slots : ClaimOK(s)
    BY <1>1 DEF ClaimOK, Unknown
  <1>3. OwnWordsOnly /\ TickOK /\ LateOK /\ CleanMeansSaved
    BY <1>1 DEF OwnWordsOnly, TickOK, LateOK, CleanMeansSaved, Unknown, Saving
  <1> QED  BY <1>2, <1>3 DEF SlotInv

LEMMA TierStays ==
  ASSUME TierInv, OneByOne, [Next]_vars
  PROVE  TierInv'
  <1> USE DEF TierInv
  <1>1. Typed' /\ Seated'
    BY TypesAndSeats DEF SlotInv
  <1>2. ASSUME UNCHANGED vars
        PROVE  SlotInv'
    BY <1>2 DEF vars, tierVars, diskVars, clientVars, SlotInv, ClaimOK, OwnWordsOnly, TickOK, StillHeld,
       LateOK, Settled, Generating, CleanMeansSaved, InTurn
  <1>3. ASSUME NEW t \in Threads, Request(t)
        PROVE  SlotInv'
    BY <1>1, <1>3, SendHolds, LeaseHolds, HandoverHolds, RecallHolds, CompleteHolds, EndTurnHolds,
       AbandonHolds, ActivateHolds, EraseHolds DEF Request
  <1>4. ASSUME Ticker
        PROVE  SlotInv'
    BY <1>4, TickIdleHolds, TickPickHolds, TickEngineHolds, TickCheckHolds, TickRenameHolds,
       TickSettleHolds, TickNothingHolds DEF Ticker
  <1> QED  BY <1>1, <1>2, <1>3, <1>4, EngineHolds DEF Next

(* The invariant holds in every state: types, seats, and the slot, its claim, its *)
(* file and the ticker's save (paging.rs `Chats`).                                *)
THEOREM TierInvariance ==
  ASSUME OneByOne
  PROVE  Spec => []TierInv
  <1>1. Init => TierInv
    BY TierStarts
  <1>2. TierInv /\ [Next]_vars => TierInv'
    BY TierStays
  <1> QED  BY <1>1, <1>2, PTL DEF Spec

(* A chat's file never holds another conversation's words: not another device's, not *)
(* another chat's (paging.rs `activate`, `handover`; cadence.rs `save_idle`).         *)
THEOREM FilesHoldTheirOwn ==
  ASSUME OneByOne
  PROVE  Spec => []OwnWordsOnly
  <1>1. TierInv => OwnWordsOnly
    BY DEF TierInv, SlotInv
  <1> QED  BY <1>1, TierInvariance, PTL

(* A slot that is clean is on disk, so a handover may skip its save (paging.rs *)
(* `handover`, cadence.rs `note_activity`).                                    *)
THEOREM CleanIsSaved ==
  ASSUME OneByOne
  PROVE  Spec => []CleanMeansSaved
  <1>1. TierInv => CleanMeansSaved
    BY DEF TierInv, SlotInv
  <1> QED  BY <1>1, TierInvariance, PTL

\* what one request does to a claim it takes away
Loses(s) ==
  LET d == claim[s].dev
      c == claim[s].chat IN
    (/\ thr' # thr
     /\ claim[s].is = "resident" /\ claim'[s] # claim[s]
     /\ eng[s] # Nothing /\ said[d][c] # Deleted)
      => file'[d][c] = eng[s]

LEMMA HandoverSaves ==
  ASSUME TierInv, OneByOne, NEW t \in Threads, Handover(t), NEW s \in Slots
  PROVE  Loses(s)
  <1>1. thr[t].at = "handover" /\ ~Generating(thr[t].slot)
    BY DEF Handover
  <1>2. PICK e : e = thr[t].from
    OBVIOUS
  <1>3. s = thr[t].slot /\ claim[s] \in Claims /\ eng[s] \in State
    BY <1>1, Standing DEF OneByOne, TierInv
  <1>4. CASE ~Held(s, e) \/ eng[s] = Nothing
    BY <1>2, <1>3, <1>4 DEF Handover, Loses, tierVars
  <1>5. CASE Held(s, e) /\ eng[s] # Nothing
    <2>1. PICK c \in Chats : c = claim[s].chat /\ claim[s].dev = e /\ e \in Devices
      BY <1>3, <1>5, ClaimFacts DEF Held
    <2>2. CASE dirty[s]
      <3>1. file' = [file EXCEPT ![e][c] = eng[s]]
        BY <1>2, <1>3, <1>5, <2>1, <2>2 DEF Handover, Owes, SaveTo, OneByOne
      <3>2. file'[e][c] = eng[s]
        <4>1. file \in Stored
          BY DEF TierInv, Typed
        <4> QED  BY <1>3, <2>1, <3>1, <4>1, StoredWrite
      <3> QED  BY <2>1, <3>2 DEF Loses
    <2>3. CASE ~dirty[s]
      <3>1. file' = file
        BY <1>2, <1>3, <1>5, <2>3 DEF Handover, Owes, diskVars
      <3>2. file[e][c] = eng[s]
        BY <1>1, <1>3, <1>5, <2>1, <2>3 DEF TierInv, SlotInv, CleanMeansSaved, InTurn, Held
      <3> QED  BY <2>1, <3>1, <3>2 DEF Loses
    <2> QED  BY <2>2, <2>3
  <1> QED  BY <1>4, <1>5

LEMMA SwitchSaves ==
  ASSUME TierInv, OneByOne, NEW t \in Threads, Activate(t), NEW s \in Slots
  PROVE  Loses(s)
  <1>1. PICK d \in Windows, c \in Chats : s = thr[t].slot /\ d = thr[t].dev /\ c = thr[t].chat
    BY ActivateDoes DEF OneByOne, TierInv
  <1>2. /\ thr[t].at = "switch" /\ d \in Devices
        /\ \/ OpensResident(s, d, c) \/ FailsToSave(s, d, c)
           \/ file' = Kept(s, d)
    BY <1>1, ActivateDoes DEF TierInv, Switched
  <1>3. CASE OpensResident(s, d, c) \/ FailsToSave(s, d, c)
    BY <1>3 DEF OpensResident, FailsToSave, Loses, tierVars
  <1>4. CASE file' = Kept(s, d)
    <2>1. claim[s].is = "resident" => Mine(s, d)
      BY <1>1, <1>2, NoForeign DEF Foreign, Mine, TierInv
    <2>2. Mine(s, d) => Previous(s, d) = claim[s].chat /\ claim[s].dev = d
      BY DEF Mine, Previous
    <2>3. Mine(s, d) /\ eng[s] # Nothing => file'[d][Previous(s, d)] = eng[s]
      BY <1>2, <1>4, SavedFirst DEF TierInv
    <2> QED  BY <2>1, <2>2, <2>3 DEF Loses
  <1> QED  BY <1>2, <1>3, <1>4

LEMMA EraseTakesTheDeleted ==
  ASSUME TierInv, OneByOne, NEW t \in Threads, Erase(t), NEW s \in Slots
  PROVE  Loses(s)
  <1>1. thr[t].at = "switch" /\ thr[t].op = "erase"
    BY DEF Erase
  <1>2. PICK d \in Devices, c \in Chats : s = thr[t].slot /\ d = thr[t].dev /\ c = thr[t].chat
    BY <1>1, Standing DEF OneByOne, TierInv
  <1>3. said[d][c] = Deleted
    BY <1>1, <1>2 DEF TierInv, Seated, AskOK
  <1>4. claim[s] \in Claims /\ ~Foreign(s, d)
    BY <1>1, <1>2, NoForeign DEF TierInv, Typed
  <1>5. CASE claim[s] = Resident(d, c)
    BY <1>3, <1>5 DEF Loses, Resident
  <1>6. CASE claim[s] # Resident(d, c)
    <2>1. claim[s].is = "resident" => claim[s] \in {Resident(d, k) : k \in Chats \ {c}}
      BY <1>4, <1>6, ClaimFacts DEF Foreign
    <2> QED  BY <1>2, <1>6, <2>1 DEF Erase, Loses
  <1> QED  BY <1>5, <1>6

LEMMA StepLosesNothing ==
  ASSUME TierInv, OneByOne, [Next]_vars, NEW s \in Slots
  PROVE  Loses(s)
  <1>1. CASE UNCHANGED vars
    BY <1>1 DEF vars, Loses
  <1>2. CASE Ticker \/ Sleep \/ \E q \in Slots : PurgeIdle(q)
    <2>1. thr' = thr
      BY <1>2 DEF Ticker, TickSample, TickRead, TickRelax, TickDone, TickPick, TickEngine, TickCheck,
           TickRename, TickSettle, TickNothing, Sleep, PurgeIdle
    <2> QED  BY <2>1 DEF Loses
  <1>3. ASSUME NEW t \in Threads, Request(t)
        PROVE  Loses(s)
    <2>1. CASE Recall(t)
      <3>1. s = thr[t].slot
        BY <2>1, Standing DEF Recall, OneByOne, TierInv
      <3>2. claim[s].is = "resident" => claim' = claim
        BY <2>1, <3>1 DEF Recall, Evicted, tierVars
      <3> QED  BY <3>2 DEF Loses
    <2>2. CASE claim' = claim
      BY <2>2 DEF Loses
    <2> QED  BY <1>3, <2>1, <2>2, HandoverSaves, SwitchSaves, EraseTakesTheDeleted
             DEF Request, Send, Lease, Complete, EndTurn, Abandon, tierVars
  <1> QED  BY <1>1, <1>2, <1>3 DEF Next

(* No request takes a chat out of its slot without its state on disk, unless the chat *)
(* was deleted (paging.rs `handover`, `activate`, `restore`).                          *)
THEOREM NoChatIsLost ==
  ASSUME OneByOne
  PROVE  Spec => NoRequestLosesAChat
  <1>1. TierInv /\ [Next]_vars =>
          [\A s \in Slots :
             LET d == claim[s].dev
                 c == claim[s].chat IN
               (/\ thr' # thr
                /\ claim[s].is = "resident" /\ claim'[s] # claim[s]
                /\ eng[s] # Nothing /\ said[d][c] # Deleted)
                 => file'[d][c] = eng[s]]_vars
    BY StepLosesNothing DEF Loses
  <1> QED  BY <1>1, TierInvariance, PTL DEF Spec, NoRequestLosesAChat
=============================================================================
