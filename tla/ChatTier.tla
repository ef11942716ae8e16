----------------------------- MODULE ChatTier -----------------------------
(***************************************************************************)
(* The door's disk tier: `Chats` of desktop/crates/kalsa-door/src/paging.rs *)
(* and paging/{io,cadence,invalidate}.rs, as the requests of               *)
(* `proxy::handle` and the app's once-a-second ticker (src-tauri/src/      *)
(* main.rs, `tick`) drive it. The room's guest is one more device that     *)
(* opens no chats; the last save of a quitting app (`save_on_quit`) is not *)
(* modelled, nor is a change of the set of devices (DeviceSeats has it).   *)
(*                                                                         *)
(* The engine keeps one state per slot. The tier says which chat of which  *)
(* device that state is (the claim), writes it to that chat's file when    *)
(* the slot changes hands, is switched, or has been quiet, and reads it    *)
(* back when the device returns. A completion names no chat: what it does  *)
(* to the slot is marked dirty, under whatever the claim says then.        *)
(*                                                                         *)
(* Seats are those of DeviceSeats with the choice of the slot left open:   *)
(* one device per slot, and only a device with no request in flight loses  *)
(* its own. A definition marked "Slip" is a mutated form that shows which  *)
(* property would notice it; no specification uses it.                     *)
(***************************************************************************)
EXTENDS Integers, FiniteSetsExt

CONSTANTS
  Devices,     \* the paired devices, the host's own window among them
  Windows,     \* the devices whose client opens chats (the host's window)
  Chats,       \* chat ids
  Slots,       \* the engine's slots
  Threads,     \* the threads that serve requests
  None,
  MaxTurns,    \* bound: how many turns are spoken in the chats a window keeps
  Faults,      \* how an engine call of a switch, a recall or a tick may fail
  HandoverFaults,   \* how the save a handover owes may fail
  ParallelRequests, \* whether a device that opens no chats overlaps its requests
  SiblingTurns,     \* whether a window switches chats while a turn of another runs
  TickOvertaken     \* whether a slot may leave and regain a chat under one tick

ASSUME TierAssumption ==
  /\ Windows \subseteq Devices
  /\ None \notin Devices \union Chats \union Slots
  /\ MaxTurns \in Nat
  /\ Faults \subseteq {"refused", "silent"} /\ HandoverFaults \subseteq {"refused", "silent"}
  /\ {ParallelRequests, SiblingTurns, TickOvertaken} \subseteq BOOLEAN

VARIABLES
  seat,      \* device -> the slot it is assigned, or None
  thr,       \* thread -> its request
  claim,     \* slot -> what the map says the slot holds (`Slot.resident`)
  dirty,     \* slot -> a turn passed since the state was last on disk (`dirty_at`)
  fresh,     \* slot -> the ticker holds a sample its claim count has not moved from
  eng,       \* slot -> whose words the engine's state is
  asleep,    \* the engine has released its model
  file,      \* device -> chat -> what its file holds
  staged,    \* device -> chat -> what its staging file holds
  tick,      \* the ticker
  open,      \* window -> the chat it shows as active
  said,      \* window -> chat -> the turns spoken in it, or Deleted
  live       \* slot -> history: no release since a chat action set its claim

tierVars == <<claim, dirty, fresh, live>>
diskVars == <<file, staged>>
clientVars == <<open, said>>
vars == <<seat, thr, claim, dirty, fresh, eng, asleep, file, staged, tick, open, said, live>>

(***************************************************************************)
(* Whose words a state is: the device, the chat (None for a client that    *)
(* opens no chats) and how many turns it holds. Nothing is an empty slot,  *)
(* and an absent file.                                                     *)
(***************************************************************************)
Nothing == [dev |-> None, chat |-> None, turns |-> 0]
Words == [dev : Devices, chat : Chats \union {None}, turns : 0 .. MaxTurns]

Unknown == [is |-> "unknown", dev |-> None, chat |-> None]
Empty == [is |-> "empty", dev |-> None, chat |-> None]
Resident(d, c) == [is |-> "resident", dev |-> d, chat |-> c]
Evicted(d, c) == [is |-> "evicted", dev |-> d, chat |-> c]
Claims == {Unknown, Empty} \union {Resident(d, c) : d \in Devices, c \in Chats}
                           \union {Evicted(d, c) : d \in Devices, c \in Chats}

Deleted == -1

NoRequest == [at |-> "idle", dev |-> None, op |-> "turn", chat |-> None, slot |-> None, from |-> None]
NoTick == [at |-> "idle", slot |-> None, dev |-> None, chat |-> None, same |-> FALSE, moved |-> FALSE]

Init ==
  /\ seat = [d \in Devices |-> None]
  /\ thr = [t \in Threads |-> NoRequest]
  /\ claim = [s \in Slots |-> Unknown]
  /\ dirty = [s \in Slots |-> FALSE] /\ fresh = [s \in Slots |-> FALSE]
  /\ eng = [s \in Slots |-> Nothing] /\ asleep = FALSE
  /\ file = [d \in Devices |-> [c \in Chats |-> Nothing]]
  /\ staged = [d \in Devices |-> [c \in Chats |-> Nothing]]
  /\ tick = NoTick
  /\ open = [d \in Windows |-> None]
  /\ said = [d \in Windows |-> [c \in Chats |-> 0]]
  /\ live = [s \in Slots |-> FALSE]

-----------------------------------------------------------------------------
(* Seats and clients *)

Busy(s) == \E t \in Threads : thr[t].slot = s
Generating(s) == \E t \in Threads : thr[t].slot = s /\ thr[t].at = "answering"
Requests(d) == {t \in Threads : thr[t].dev = d}
Opening(d) == \E t \in Requests(d) : thr[t].op = "activate"

Spoken(d) == MapThenSumSet(LAMBDA c : IF said[d][c] = Deleted THEN 0 ELSE said[d][c], Chats)

Put(t, r) == thr' = [thr EXCEPT ![t] = r]
At(t, place) == Put(t, [thr[t] EXCEPT !.at = place])
Leave(t) == Put(t, NoRequest)

\* A client's request is on its way. A window's composer is frozen while it
\* opens a chat (`SlotGate`), and it never overlaps two opens.
Send(t, d, op, c) ==
  /\ thr[t].at = "idle"
  /\ IF d \in Windows
       THEN /\ ~Opening(d)
            /\ \/ op = "turn" /\ c = open[d] /\ c # None /\ Spoken(d) < MaxTurns
               \/ op = "activate" /\ c \in Chats \ {open[d]} /\ said[d][c] # Deleted
               \/ op = "erase" /\ c \in Chats /\ said[d][c] # Deleted
            /\ SiblingTurns \/ Requests(d) = {}
       ELSE /\ op = "turn" /\ c = None
            /\ ParallelRequests \/ Requests(d) = {}
  /\ Put(t, [at |-> "sent", dev |-> d, op |-> op, chat |-> c, slot |-> None, from |-> None])
  /\ IF op = "erase"
       THEN /\ open' = IF open[d] = c THEN [open EXCEPT ![d] = None] ELSE open
            /\ said' = [said EXCEPT ![d][c] = Deleted]
       ELSE UNCHANGED clientVars
  /\ UNCHANGED <<seat, tierVars, eng, asleep, diskVars, tick>>

\* `DeviceSet::lease`: the device's own slot, one nobody is assigned, or the
\* seat of a device with no request in flight. A device that finds none waits
\* (DeviceSeats has the end of that wait).
Lease(t) ==
  /\ thr[t].at = "sent"
  /\ LET d == thr[t].dev
         spare == {s \in Slots : ~Busy(s) /\ \A e \in Devices : seat[e] # s}
         idle == {e \in Devices : seat[e] # None /\ ~Busy(seat[e])} IN
     \/ /\ seat[d] # None
        /\ Put(t, [thr[t] EXCEPT !.slot = seat[d], !.at = "recall"])
        /\ UNCHANGED seat
     \/ /\ seat[d] = None
        /\ \E s \in spare :
             /\ Put(t, [thr[t] EXCEPT !.slot = s, !.at = "recall"])
             /\ seat' = [seat EXCEPT ![d] = s]
     \/ /\ seat[d] = None /\ spare = {}
        /\ \E e \in idle :
             /\ Put(t, [thr[t] EXCEPT !.slot = seat[e], !.from = e, !.at = "handover"])
             /\ seat' = [seat EXCEPT ![e] = None, ![d] = seat[e]]
  /\ UNCHANGED <<tierVars, eng, asleep, diskVars, tick, clientVars>>

-----------------------------------------------------------------------------
(* The slot's claim *)

\* a tick that picked this slot notices, when it settles, that the mark it left
\* with is not the one it finds (`dirty_at == Some(at)`), ...
Remark(s) == IF tick.slot = s THEN [tick EXCEPT !.same = FALSE] ELSE tick
\* ... and only ever compares the claim it finds with the claim it left with
Moved(s, c) ==
  IF tick.slot = s /\ c # Resident(tick.dev, tick.chat)
    THEN [tick EXCEPT !.same = FALSE, !.moved = TRUE] ELSE tick
Regains(s, c) == tick.slot = s /\ tick.moved /\ c = Resident(tick.dev, tick.chat)

\* a chat action leaves claim c in slot s, clean
Claim(s, c) ==
  /\ TickOvertaken \/ ~Regains(s, c)
  /\ claim' = [claim EXCEPT ![s] = c]
  /\ dirty' = [dirty EXCEPT ![s] = FALSE]
  /\ tick' = IF tick.slot = s THEN [Moved(s, c) EXCEPT !.same = FALSE] ELSE tick

\* `claims += 1`. (Slip: the count does not move.)
CountForgotten(s) == UNCHANGED fresh
Count(s) == fresh' = [fresh EXCEPT ![s] = FALSE]

SaveTo(d, c, s) ==
  /\ file' = IF eng[s] = Nothing THEN file ELSE [file EXCEPT ![d][c] = eng[s]]
  /\ staged' = [staged EXCEPT ![d][c] = Nothing]

SaveFails(d, c) == staged' = [staged EXCEPT ![d][c] = Nothing] /\ UNCHANGED file

\* whether a handover owes a save. (Slip: it trusts the claim, not the mark.)
OwesNothing(s) == FALSE
Owes(s) == dirty[s]

\* the slot's claim is a chat of the device that lost it. (Slip: nobody asks.)
HeldUnasked(s, e) == TRUE
Held(s, e) == claim[s].is = "resident" /\ claim[s].dev = e

\* `Chats::handover`, the engine's save under the slot's lock: the chat of the
\* device that lost the seat is on disk and named before the request goes on
Handover(t) ==
  /\ thr[t].at = "handover"
  /\ ~Generating(thr[t].slot)     \* the engine defers a save behind a turn
  /\ LET s == thr[t].slot
         e == thr[t].from
         c == claim[s].chat IN
     \/ /\ ~Held(s, e)
        /\ Put(t, [thr[t] EXCEPT !.at = "recall", !.from = None])
        /\ UNCHANGED <<tierVars, eng, asleep, diskVars, tick>>
     \/ /\ Held(s, e) /\ ~Owes(s)
        /\ Claim(s, Evicted(e, c))
        /\ Put(t, [thr[t] EXCEPT !.at = "recall", !.from = None])
        /\ UNCHANGED <<fresh, live, eng, asleep, diskVars>>
     \/ /\ Held(s, e) /\ Owes(s)
        /\ SaveTo(e, c, s)
        /\ Claim(s, Evicted(e, c))
        /\ Put(t, [thr[t] EXCEPT !.at = "recall", !.from = None])
        /\ asleep' = FALSE
        /\ UNCHANGED <<fresh, live, eng>>
     \/ /\ Held(s, e) /\ Owes(s) /\ HandoverFaults # {}
        /\ SaveFails(e, c)
        /\ Leave(t)                                    \* answered with the refusal
        /\ UNCHANGED <<tierVars, eng, asleep, tick>>
  /\ UNCHANGED <<seat, clientVars>>

\* where a request goes when its seat and its chat are settled
Served(t) == IF thr[t].op = "turn" THEN "ready" ELSE "switch"

\* `Chats::recall`: the chat this device left behind, brought back. No outcome
\* fails the request.
Recall(t) ==
  /\ thr[t].at = "recall"
  /\ ~Generating(thr[t].slot)
  /\ At(t, Served(t))
  /\ LET s == thr[t].slot
         d == thr[t].dev
         c == claim[s].chat IN
     \/ /\ claim[s].is # "evicted" \/ claim[s].dev # d
        /\ UNCHANGED <<tierVars, eng, asleep, tick>>
     \/ /\ claim[s] = Evicted(d, c) /\ file[d][c] = Nothing
        /\ claim' = [claim EXCEPT ![s] = Unknown]
        /\ UNCHANGED <<dirty, fresh, live, eng, asleep, tick>>
     \/ /\ claim[s] = Evicted(d, c) /\ file[d][c] # Nothing
        /\ asleep' = FALSE
        /\ \/ /\ eng' = [eng EXCEPT ![s] = file[d][c]]
              /\ Claim(s, Resident(d, c))
              /\ Count(s) /\ live' = [live EXCEPT ![s] = TRUE]
           \/ /\ "refused" \in Faults
              /\ eng' = [eng EXCEPT ![s] = Nothing]
              /\ Claim(s, Empty)
              /\ UNCHANGED <<fresh, live>>
           \/ /\ "silent" \in Faults
              /\ eng' \in {eng, [eng EXCEPT ![s] = file[d][c]]}
              /\ Claim(s, Unknown)
              /\ UNCHANGED <<fresh, live>>
  /\ UNCHANGED <<seat, diskVars, clientVars>>

-----------------------------------------------------------------------------
(* A turn *)

\* The completion reaches the engine, which builds the conversation it carries.
\* (The bound is on the sum; that it is one on each chat too is said for the proofs.)
Complete(t) ==
  /\ thr[t].at = "ready"
  /\ LET s == thr[t].slot
         d == thr[t].dev
         c == thr[t].chat
         n == IF d \in Windows THEN said[d][c] + 1 ELSE 0 IN
       /\ d \in Windows => Spoken(d) < MaxTurns /\ said[d][c] < MaxTurns
       /\ ~Generating(s)
       /\ eng' = [eng EXCEPT ![s] = [dev |-> d, chat |-> c, turns |-> n]]
       /\ said' = IF d \in Windows THEN [said EXCEPT ![d][c] = n] ELSE said
  /\ At(t, "answering")
  /\ asleep' = FALSE
  /\ UNCHANGED <<seat, tierVars, diskVars, tick, open>>

\* the mark of a turn (`mark_dirty`). (Slip: a slot a tick is writing is not
\* marked again.)
MarkedIfQuiet(s) == tick.slot # s
Marked(s) == TRUE

\* `SlotTurn::drop`, and the request's end
EndTurn(t) ==
  /\ thr[t].at = "answering"
  /\ dirty' = [dirty EXCEPT ![thr[t].slot] = @ \/ Marked(thr[t].slot)]
  /\ tick' = Remark(thr[t].slot)
  /\ Leave(t)
  /\ UNCHANGED <<seat, claim, fresh, live, eng, asleep, diskVars, clientVars>>

\* a completion that ends before the engine has it, or a request for anything
\* but a completion (`/props`, `/v1/models`)
Abandon(t) ==
  /\ thr[t].at = "ready"
  /\ Leave(t)
  /\ UNCHANGED <<seat, tierVars, eng, asleep, diskVars, tick, clientVars>>

-----------------------------------------------------------------------------
(* The two chat routes *)

\* What `Chats::activate` may leave behind once the previous chat is saved:
\* the engine's state, the claim, whether the mark went, and whether the chat
\* was opened (204) or refused. kept is the disk after that save.
Left(state, c, clean, opened) == [state |-> state, claim |-> c, clean |-> clean, opened |-> opened]

\* the erase that lets a chat open cold, over a slot the door calls `now`
Colds(s, d, c, now, states, clean) ==
  {Left(Nothing, Resident(d, c), TRUE, TRUE)}
    \union {Left(e, now, clean, FALSE) : e \in IF Faults = {} THEN {} ELSE states}
    \union {Left(Nothing, now, clean, FALSE) : f \in Faults \intersect {"silent"}}

\* the restore of `previous` that repairs a refused switch
Repairs(d, previous, kept) ==
  LET back == kept[d][previous] IN
    (IF back = Nothing THEN {Left(Nothing, Empty, TRUE, FALSE)}
                       ELSE {Left(back, Resident(d, previous), TRUE, FALSE)})
    \union {Left(Nothing, Empty, TRUE, FALSE) : f \in Faults \intersect {"refused"}}
    \union {Left(e, Unknown, TRUE, FALSE) : e \in IF "silent" \in Faults THEN {Nothing, back} ELSE {}}

Switches(s, d, c, now, previous, foreign, kept) ==
  LET target == kept[d][c] IN
    IF target = Nothing THEN Colds(s, d, c, now, {eng[s]}, foreign)
    ELSE {Left(target, Resident(d, c), TRUE, TRUE)}
      \union (IF "silent" \notin Faults THEN {}
              ELSE IF previous = None THEN Colds(s, d, c, Unknown, {eng[s], target}, TRUE)
              ELSE {Left(e, Unknown, TRUE, FALSE) : e \in {eng[s], target}})
      \union (IF "refused" \notin Faults THEN {}
              ELSE IF previous = None THEN Colds(s, d, c, Empty, {Nothing}, TRUE)
              ELSE Repairs(d, previous, kept))

Answer(t, d, c) == open' = [open EXCEPT ![d] = c]

\* `Chats::activate`, under the slot's lock from end to end
Activate(t) ==
  /\ thr[t].at = "switch" /\ thr[t].op = "activate"
  /\ LET s == thr[t].slot
         d == thr[t].dev
         c == thr[t].chat
         mine == claim[s].is = "resident" /\ claim[s].dev = d
         foreign == claim[s].is = "resident" /\ claim[s].dev # d
         previous == IF mine THEN claim[s].chat ELSE None
         now == IF foreign THEN Empty ELSE claim[s]
         owed == mine /\ eng[s] # Nothing
         kept == IF owed THEN [file EXCEPT ![d][previous] = eng[s]] ELSE file IN
       /\ ~Generating(s)
       /\ \/ /\ claim[s] = Resident(d, c)                  \* it never left the slot
             /\ Answer(t, d, c)
             /\ UNCHANGED <<tierVars, eng, asleep, diskVars, tick>>
          \/ /\ mine /\ previous # c /\ Faults # {}        \* the save failed
             /\ SaveFails(d, previous)
             /\ Count(s)
             /\ UNCHANGED <<claim, dirty, live, eng, asleep, tick, open>>
          \/ /\ claim[s] # Resident(d, c)
             /\ file' = kept
             /\ staged' = IF mine THEN [staged EXCEPT ![d][previous] = Nothing] ELSE staged
             /\ Count(s)
             /\ asleep' = FALSE
             /\ \E left \in Switches(s, d, c, now, previous, foreign, kept) :
                  /\ eng' = [eng EXCEPT ![s] = left.state]
                  /\ IF left.clean \/ left.claim # claim[s]
                       THEN Claim(s, left.claim) ELSE UNCHANGED <<claim, dirty, tick>>
                  /\ live' = [live EXCEPT ![s] = left.claim.is = "resident" /\ (left.clean \/ @)]
                  /\ IF left.opened THEN Answer(t, d, c) ELSE UNCHANGED open
  /\ Leave(t)
  /\ UNCHANGED <<seat, said>>

\* `Chats::erase`: the chat's files go, and its state with them
Erase(t) ==
  /\ thr[t].at = "switch" /\ thr[t].op = "erase"
  /\ LET s == thr[t].slot
         d == thr[t].dev
         c == thr[t].chat IN
       /\ ~Generating(s)
       /\ \/ /\ IF claim[s] = Resident(d, c)
                  THEN eng' = [eng EXCEPT ![s] = Nothing] /\ asleep' = FALSE
                  ELSE UNCHANGED <<eng, asleep>>
             /\ IF claim[s].is = "resident" /\ claim[s] \notin {Resident(d, k) : k \in Chats \ {c}}
                  THEN Claim(s, Empty) ELSE UNCHANGED <<claim, dirty, tick>>
             /\ file' = [file EXCEPT ![d][c] = Nothing]
             /\ staged' = [staged EXCEPT ![d][c] = Nothing]
          \/ /\ claim[s] = Resident(d, c) /\ Faults # {}    \* the engine did not clear it
             /\ \/ UNCHANGED eng
                \/ "silent" \in Faults /\ eng' = [eng EXCEPT ![s] = Nothing]
             /\ UNCHANGED <<claim, dirty, asleep, diskVars, tick>>
  /\ Leave(t)
  /\ UNCHANGED <<seat, fresh, live, clientVars>>

-----------------------------------------------------------------------------
(* The engine on its own *)

\* it releases its model, and every slot's state with it
Sleep ==
  /\ ~asleep /\ \A s \in Slots : ~Generating(s)
  /\ asleep' = TRUE
  /\ eng' = [s \in Slots |-> Nothing]
  /\ live' = [s \in Slots |-> FALSE]
  /\ UNCHANGED <<seat, thr, claim, dirty, fresh, diskVars, tick, clientVars>>

\* it empties one idle slot, and tells nobody
PurgeIdle(s) ==
  /\ eng[s] # Nothing /\ ~Generating(s)
  /\ eng' = [eng EXCEPT ![s] = Nothing]
  /\ live' = [live EXCEPT ![s] = FALSE]
  /\ UNCHANGED <<seat, thr, claim, dirty, fresh, asleep, diskVars, tick, clientVars>>

-----------------------------------------------------------------------------
(* The ticker: sample, read, relax, then write out what has been quiet *)

NoSample == [s \in Slots |-> FALSE]

TickSample ==
  /\ tick.at = "idle"
  /\ fresh' = [s \in Slots |-> TRUE]
  /\ tick' = [tick EXCEPT !.at = "sampled"]
  /\ UNCHANGED <<seat, thr, claim, dirty, live, eng, asleep, diskVars, clientVars>>

TickRead ==
  /\ tick.at = "sampled"
  /\ tick' = [tick EXCEPT !.at = IF asleep THEN "relax" ELSE "write"]
  /\ fresh' = IF asleep THEN fresh ELSE NoSample
  /\ UNCHANGED <<seat, thr, claim, dirty, live, eng, asleep, diskVars, clientVars>>

\* `invalidate_residency`: the mark is not touched
Relaxed(s) == claim[s].is = "resident" /\ fresh[s]
TickRelax ==
  /\ tick.at = "relax"
  /\ claim' = [s \in Slots |-> IF Relaxed(s) THEN Evicted(claim[s].dev, claim[s].chat) ELSE claim[s]]
  /\ fresh' = NoSample
  /\ tick' = [tick EXCEPT !.at = "write"]
  /\ UNCHANGED <<seat, thr, dirty, live, eng, asleep, diskVars, clientVars>>

\* what the timer needs is read under the slot's lock, which ends there
TickPick(s) ==
  /\ tick.at = "write"
  /\ claim[s].is = "resident" /\ dirty[s]
  /\ tick' = [at |-> "saving", slot |-> s, dev |-> claim[s].dev, chat |-> claim[s].chat,
              same |-> TRUE, moved |-> FALSE]
  /\ UNCHANGED <<seat, thr, tierVars, eng, asleep, diskVars, clientVars>>

TickDone ==
  /\ tick.at = "write"
  /\ tick' = NoTick
  /\ UNCHANGED <<seat, thr, tierVars, eng, asleep, diskVars, clientVars>>

\* the engine writes the slot, whoever holds it by now, into the staging file of
\* the chat the tick read; a failed call may have been obeyed late
TickEngine ==
  /\ tick.at = "saving"
  /\ LET s == tick.slot
         Stage(w) == staged' = [staged EXCEPT ![tick.dev][tick.chat] = w] IN
     \/ /\ ~Generating(s)
        /\ Stage(eng[s])
        /\ asleep' = FALSE
        /\ tick' = [tick EXCEPT !.at = IF eng[s] = Nothing THEN "nothing" ELSE "written"]
     \/ /\ Faults # {}
        /\ \E w \in {Nothing} \union IF "silent" \in Faults THEN {eng[s]} ELSE {} : Stage(w)
        /\ tick' = [NoTick EXCEPT !.at = "write"]
        /\ UNCHANGED asleep
  /\ UNCHANGED <<seat, thr, tierVars, eng, file, clientVars>>

\* the commit check. (Slip: it asks nothing.)
StillHeldUnasked == TRUE
StillHeld == claim[tick.slot] = Resident(tick.dev, tick.chat)

TickCheck ==
  /\ tick.at = "written"
  /\ IF StillHeld
       THEN tick' = [tick EXCEPT !.at = "rename"] /\ UNCHANGED staged
       ELSE /\ tick' = [NoTick EXCEPT !.at = "write"]           \* superseded
            /\ staged' = [staged EXCEPT ![tick.dev][tick.chat] = Nothing]
  /\ UNCHANGED <<seat, thr, tierVars, eng, asleep, file, clientVars>>

\* the rename: a staging file someone else consumed makes it fail, and then
\* nothing changes
TickRename ==
  /\ tick.at = "rename"
  /\ LET w == staged[tick.dev][tick.chat] IN
       IF w = Nothing
         THEN /\ tick' = [NoTick EXCEPT !.at = "write"]
              /\ UNCHANGED diskVars
         ELSE /\ tick' = [tick EXCEPT !.at = "settle"]
              /\ file' = [file EXCEPT ![tick.dev][tick.chat] = w]
              /\ staged' = [staged EXCEPT ![tick.dev][tick.chat] = Nothing]
  /\ UNCHANGED <<seat, thr, tierVars, eng, asleep, clientVars>>

\* the mark goes only if it is the one this save left with. (Slip: it goes.)
OwnMarkUnasked == TRUE
OwnMark == tick.same

TickSettle ==
  /\ tick.at = "settle"
  /\ dirty' = [dirty EXCEPT ![tick.slot] = @ /\ ~OwnMark]
  /\ tick' = [NoTick EXCEPT !.at = "write"]
  /\ UNCHANGED <<seat, thr, claim, fresh, live, eng, asleep, diskVars, clientVars>>

\* zero tokens under a mark that is still this one: the map was wrong
TickNothing ==
  /\ tick.at = "nothing"
  /\ IF StillHeld /\ OwnMark
       THEN /\ claim' = [claim EXCEPT ![tick.slot] = Unknown]
            /\ dirty' = [dirty EXCEPT ![tick.slot] = FALSE]
       ELSE UNCHANGED <<claim, dirty>>
  /\ tick' = [NoTick EXCEPT !.at = "write"]
  /\ UNCHANGED <<seat, thr, fresh, live, eng, asleep, diskVars, clientVars>>

-----------------------------------------------------------------------------
Request(t) ==
  \/ \E d \in Devices, op \in {"turn", "activate", "erase"}, c \in Chats \union {None} :
       Send(t, d, op, c)
  \/ Lease(t) \/ Handover(t) \/ Recall(t)
  \/ Complete(t) \/ EndTurn(t) \/ Abandon(t)
  \/ Activate(t) \/ Erase(t)

Ticker ==
  \/ TickSample \/ TickRead \/ TickRelax \/ TickDone
  \/ (\E s \in Slots : TickPick(s))
  \/ TickEngine \/ TickCheck \/ TickRename \/ TickSettle \/ TickNothing

Next ==
  \/ (\E t \in Threads : Request(t))
  \/ Ticker
  \/ Sleep \/ (\E s \in Slots : PurgeIdle(s))

Spec == Init /\ [][Next]_vars

-----------------------------------------------------------------------------
(* Properties *)

TypeOK ==
  /\ seat \in [Devices -> Slots \union {None}]
  /\ thr \in [Threads -> [at : {"idle", "sent", "handover", "recall", "ready", "answering", "switch"},
                          dev : Devices \union {None}, op : {"turn", "activate", "erase"},
                          chat : Chats \union {None}, slot : Slots \union {None},
                          from : Devices \union {None}]]
  /\ claim \in [Slots -> Claims]
  /\ dirty \in [Slots -> BOOLEAN] /\ fresh \in [Slots -> BOOLEAN] /\ live \in [Slots -> BOOLEAN]
  /\ eng \in [Slots -> Words \union {Nothing}] /\ asleep \in BOOLEAN
  /\ file \in [Devices -> [Chats -> Words \union {Nothing}]]
  /\ staged \in [Devices -> [Chats -> Words \union {Nothing}]]
  /\ tick \in [at : {"idle", "sampled", "relax", "write", "saving", "written", "rename", "settle", "nothing"},
               slot : Slots \union {None}, dev : Devices \union {None}, chat : Chats \union {None},
               same : BOOLEAN, moved : BOOLEAN]
  /\ open \in [Windows -> Chats \union {None}]
  /\ said \in [Windows -> [Chats -> {Deleted} \union 0 .. MaxTurns]]

InTurn(s) == Generating(s)

\* A chat's file never holds another conversation's words: not another
\* device's, not another chat's of the same device (paging.rs `activate`,
\* `handover`; cadence.rs `save_idle`).
OwnWordsOnly ==
  \A d \in Devices, c \in Chats :
    file[d][c] # Nothing => file[d][c].dev = d /\ file[d][c].chat = c

\* "Clean" means what the handover takes it to mean when it skips the save: the
\* file holds what the slot holds, unless a turn is running or the engine has
\* dropped the state (paging.rs `handover`, cadence.rs `note_activity`).
CleanMeansSaved ==
  \A s \in Slots :
    (claim[s].is = "resident" /\ ~dirty[s] /\ ~InTurn(s) /\ eng[s] # Nothing)
      => file[claim[s].dev][claim[s].chat] = eng[s]

\* No request takes a chat out of its slot without the chat's state being on
\* disk, unless the chat was deleted: neither a handover, nor a switch, nor a
\* switch that failed half way (paging.rs `handover`, `activate`, `restore`).
NoRequestLosesAChat ==
  [][\A s \in Slots :
       LET d == claim[s].dev
           c == claim[s].chat IN
         (/\ thr' # thr
          /\ claim[s].is = "resident" /\ claim'[s] # claim[s]
          /\ eng[s] # Nothing /\ said[d][c] # Deleted)
           => file'[d][c] = eng[s]]_vars

\* A claim a chat action set after waking the engine is not demoted by a release
\* it outlived (invalidate.rs `invalidate_residency`, main.rs `tick`).
ClaimOutlivesRelease ==
  [][\A s \in Slots :
       (live[s] /\ claim[s].is = "resident" /\ claim'[s].is = "evicted") => thr' # thr]_vars
=============================================================================
