---------------------------- MODULE DeviceSeats ----------------------------
(***************************************************************************)
(* The seats of the authenticated door: `DeviceSet` of                     *)
(* desktop/crates/kalsa-door/src/slots.rs, driven by the threads that use  *)
(* it: the door's workers (`proxy::handle`, proxy.rs) and the driver of    *)
(* the room's turns (`run_one_turn`, room/turn.rs), while the app replaces *)
(* the set of paired devices under them (`swap`).                          *)
(*                                                                         *)
(* The engine has a fixed number of slots and wraps any slot number it is  *)
(* given, so the door alone keeps two devices apart: a device that asks is *)
(* leased its own slot, a free one, or the slot of the idle device that    *)
(* asked longest ago. A definition marked "Slip" is a mutated form that    *)
(* shows which property would notice it; no specification uses it.         *)
(***************************************************************************)
EXTENDS Integers, FiniteSets

CONSTANTS
  Devices,      \* device ids: every id the pairing store may mint, and Room
  Room,         \* ROOM_DEVICE, the id the room's AI guest sits at
  Capacity,     \* the engine's slot count, `--parallel`
  Workers,      \* the door's worker threads (WORKERS)
  Driver,       \* the thread that drives the room's turns
  MaxWaiters,   \* SEAT_WAITERS_MAX
  NoSlot,       \* "no slot": an unassigned device, a thread without a lease
  NoDevice      \* "no device": an idle thread, a lease that evicted nobody

Slots == 0 .. Capacity - 1
Threads == Workers \union {Driver}

ASSUME SeatsAssumption ==
  /\ Capacity \in Nat \ {0}
  /\ MaxWaiters \in Nat
  /\ IsFiniteSet(Devices) /\ Room \in Devices /\ NoDevice \notin Devices
  /\ NoSlot \notin Slots
  /\ IsFiniteSet(Workers) /\ Driver \notin Workers

VARIABLES
  current,      \* the ids of the set the door serves (`Slots.current`)
  assigned,     \* device -> its slot, or NoSlot
  free,         \* slots no device is assigned
  leases,       \* slot -> the number of requests holding it
  pendingFree,  \* slots of revoked devices with a request still in flight
  before,       \* slot -> the slots last leased earlier (the order of `last_used`)
  seatWaiting,  \* devices with a switch waiting for a seat
  seatWaiters,  \* how many switches wait, counted apart from the set
  pc,           \* where each thread is in its request
  kind,         \* what its request is: "plain", "switch" or "room"
  dev,          \* the device its request was authenticated as
  slot,         \* the slot its lease holds
  evicted       \* the device its lease took the slot from

setVars == <<current, assigned, free, leases, pendingFree, before>>
waitVars == <<seatWaiting, seatWaiters>>
threadVars == <<pc, kind, dev, slot, evicted>>
vars == <<current, assigned, free, leases, pendingFree, before,
          seatWaiting, seatWaiters, pc, kind, dev, slot, evicted>>

(***************************************************************************)
(* The places of a request. "seat": authenticated, about to ask for a      *)
(* seat. "crowded": none was free. "waiting": polling for one. "unwait1", "unwait2": the two halves  *)
(* of handing the wait's own place back. "leased": in the request, before  *)
(* anything is written to the engine. "gated": inside                      *)
(* `{holds; seal; write}`. "salted": the room's turn has its salt, and     *)
(* writes outside any gate. "sent": the engine has the request.            *)
(* "headgated": writing the answer's head to the client. "relay": the      *)
(* answer streams.                                                         *)
(***************************************************************************)
Places == {"idle", "seat", "crowded", "waiting", "unwait1", "unwait2",
           "leased", "gated", "salted", "sent", "headgated", "relay"}
Kinds == {"plain", "switch", "room"}

Holding(t) == slot[t] # NoSlot
Holders(s) == {t \in Threads : slot[t] = s}
InGate == {t \in Threads : pc[t] \in {"gated", "headgated"}}

Init ==
  /\ current \in SUBSET Devices \ {{}}
  /\ assigned = [d \in Devices |-> NoSlot]
  /\ free = Slots
  /\ leases = [s \in Slots |-> 0]
  /\ pendingFree = {}
  /\ before = [s \in Slots |-> {}]
  /\ seatWaiting = {} /\ seatWaiters = 0
  /\ pc = [t \in Threads |-> "idle"]
  /\ kind = [t \in Threads |-> "plain"]
  /\ dev = [t \in Threads |-> NoDevice]
  /\ slot = [t \in Threads |-> NoSlot]
  /\ evicted = [t \in Threads |-> NoDevice]

-----------------------------------------------------------------------------
(* The lease: one critical section over the slots' mutex *)

\* `yieldable`: the assigned devices no request of which is in flight, and
\* of them the one that asked longest ago
Idle == {d \in Devices : assigned[d] # NoSlot /\ leases[assigned[d]] = 0}
Yields(d) ==
  /\ d \in Idle
  /\ \A e \in Idle \ {d} : assigned[e] \notin before[assigned[d]]

\* `free.remove`. (Slip: the slot handed out stays in the free set.)
UnfreeForgotten(s) == free
Unfree(s) == free \ {s}

\* the lease itself: the slot is counted, and is now the last one used
Take(t, s, from) ==
  /\ leases' = [leases EXCEPT ![s] = @ + 1]
  /\ before' = [x \in Slots |-> IF x = s THEN Slots \ {s} ELSE before[x] \ {s}]
  /\ slot' = [slot EXCEPT ![t] = s]
  /\ evicted' = [evicted EXCEPT ![t] = from]
  /\ UNCHANGED <<current, pendingFree>>

LeaseOwn(t) ==
  /\ dev[t] \in current /\ assigned[dev[t]] # NoSlot
  /\ Take(t, assigned[dev[t]], NoDevice)
  /\ UNCHANGED <<assigned, free>>

LeaseFree(t) ==
  /\ dev[t] \in current /\ assigned[dev[t]] = NoSlot
  /\ \E s \in free :
       /\ \A f \in free : s <= f
       /\ Take(t, s, NoDevice)
       /\ free' = Unfree(s)
       /\ assigned' = [assigned EXCEPT ![dev[t]] = s]

LeaseEvict(t) ==
  /\ dev[t] \in current /\ assigned[dev[t]] = NoSlot /\ free = {}
  /\ \E d \in Devices :
       /\ Yields(d)
       /\ Take(t, assigned[d], d)
       /\ assigned' = [assigned EXCEPT ![d] = NoSlot, ![dev[t]] = assigned[d]]
  /\ UNCHANGED free

Lease(t) == LeaseOwn(t) \/ LeaseFree(t) \/ LeaseEvict(t)
NotHeld(t) == dev[t] \notin current
NoRoom(t) ==
  dev[t] \in current /\ assigned[dev[t]] = NoSlot /\ free = {} /\ Idle = {}

\* the count of a dropped lease. (Slips: it drops twice; a revoked device's
\* lease leaves without being counted out.)
CountedOutTwice(s) == [leases EXCEPT ![s] = @ - 2]
CountedOutUnlessRevoked(s) == IF s \in pendingFree THEN leases ELSE [leases EXCEPT ![s] = @ - 1]
CountedOut(s) == [leases EXCEPT ![s] = @ - 1]

\* `SlotLease::drop`, as the request of thread t leaves
DropLease(t) ==
  IF ~Holding(t) THEN UNCHANGED setVars
  ELSE LET s == slot[t]
           last == leases[s] = 1 IN
       /\ leases' = CountedOut(s)
       /\ pendingFree' = IF last THEN pendingFree \ {s} ELSE pendingFree
       /\ free' = IF last /\ s \in pendingFree THEN free \union {s} ELSE free
       /\ UNCHANGED <<current, assigned, before>>

Goto(t, place) == pc' = [pc EXCEPT ![t] = place]

\* the request is over: answered, refused, cut or abandoned
Leave(t) ==
  /\ DropLease(t)
  /\ Goto(t, "idle")
  /\ dev' = [dev EXCEPT ![t] = NoDevice]
  /\ slot' = [slot EXCEPT ![t] = NoSlot]
  /\ evicted' = [evicted EXCEPT ![t] = NoDevice]
  /\ kind' = [kind EXCEPT ![t] = "plain"]
  /\ UNCHANGED waitVars

-----------------------------------------------------------------------------
(* The request, thread by thread *)

\* A worker has read a head whose bearer is a device of the current set. A
\* "switch" is a request for one of the disk tier's two routes.
Authenticate(t, d, k) ==
  /\ pc[t] = "idle" /\ t \in Workers
  /\ d \in current \ {Room} /\ k \in {"plain", "switch"}
  /\ Goto(t, "seat")
  /\ dev' = [dev EXCEPT ![t] = d]
  /\ kind' = [kind EXCEPT ![t] = k]
  /\ UNCHANGED <<setVars, waitVars, slot, evicted>>

\* The room's driver starts a turn: it asks for the guest's seat, which was
\* minted with the set, and authenticates nothing.
StartTurn ==
  /\ pc[Driver] = "idle"
  /\ Goto(Driver, "seat")
  /\ dev' = [dev EXCEPT ![Driver] = Room]
  /\ kind' = [kind EXCEPT ![Driver] = "room"]
  /\ UNCHANGED <<setVars, waitVars, slot, evicted>>

\* `lease` answers a slot. A switch that had to wait hands its place back first.
Seated(t) ==
  /\ pc[t] \in {"seat", "waiting"}
  /\ Lease(t)
  /\ Goto(t, IF pc[t] = "waiting" /\ kind[t] = "switch" THEN "unwait1" ELSE "leased")
  /\ UNCHANGED <<waitVars, kind, dev>>

\* `lease` answers NotHeld: the device was revoked since it was authenticated
RefusedSeat(t) ==
  /\ NotHeld(t)
  /\ \/ /\ pc[t] = "seat" \/ (pc[t] = "waiting" /\ kind[t] # "switch")
        /\ Leave(t)
     \/ /\ pc[t] = "waiting" /\ kind[t] = "switch"
        /\ Goto(t, "unwait1")
        /\ UNCHANGED <<setVars, waitVars, kind, dev, slot, evicted>>

\* `take_wait_seat` admits this switch. (Slip: one waiter too many.)
AdmitsOneMore(d) == d \notin seatWaiting /\ seatWaiters <= MaxWaiters
Admits(d) == d \notin seatWaiting /\ seatWaiters < MaxWaiters

\* `lease` answers NoRoom: every seat is in flight. The room's turn polls; what a
\* worker does of it is decided after the slots' mutex is free again.
Crowded(t) ==
  /\ pc[t] = "seat" /\ NoRoom(t)
  /\ Goto(t, IF kind[t] = "room" THEN "waiting" ELSE "crowded")
  /\ UNCHANGED <<setVars, waitVars, kind, dev, slot, evicted>>

\* An ordinary request is answered 503, and so is a switch `take_wait_seat` does
\* not admit.
FullHouse(t) ==
  /\ pc[t] = "crowded"
  /\ kind[t] = "plain" \/ ~Admits(dev[t])
  /\ Leave(t)

StartWait(t) ==
  /\ pc[t] = "crowded" /\ kind[t] = "switch" /\ Admits(dev[t])
  /\ seatWaiting' = seatWaiting \union {dev[t]}
  /\ seatWaiters' = seatWaiters + 1
  /\ Goto(t, "waiting")
  /\ UNCHANGED <<setVars, kind, dev, slot, evicted>>

\* the seat clock ran out, the door is stopping, or the room's turn was cancelled:
\* the last two are looked at before a seat is asked for
GiveUpWaiting(t) ==
  /\ pc[t] = "waiting"
  /\ \/ /\ kind[t] = "switch"
        /\ Goto(t, "unwait1")
        /\ UNCHANGED <<setVars, waitVars, kind, dev, slot, evicted>>
     \/ kind[t] = "room" /\ Leave(t)

\* `SeatWaitGuard::drop`: the counter first, and only then the set's mutex
Uncount(t) ==
  /\ pc[t] = "unwait1"
  /\ seatWaiters' = seatWaiters - 1
  /\ Goto(t, "unwait2")
  /\ UNCHANGED <<setVars, seatWaiting, kind, dev, slot, evicted>>

Unlist(t) ==
  /\ pc[t] = "unwait2"
  /\ seatWaiting' = seatWaiting \ {dev[t]}
  /\ IF Holding(t)
       THEN /\ Goto(t, "leased")
            /\ UNCHANGED <<setVars, seatWaiters, kind, dev, slot, evicted>>
       ELSE /\ Goto(t, "idle")
            /\ dev' = [dev EXCEPT ![t] = NoDevice]
            /\ kind' = [kind EXCEPT ![t] = "plain"]
            /\ UNCHANGED <<setVars, seatWaiters, slot, evicted>>

\* The shared gate is taken and the set still holds the device: the sealed
\* head goes to the engine under the guard.
EnterGate(t) ==
  /\ t \in Workers
  /\ pc[t] = "leased" /\ dev[t] \in current
  /\ Goto(t, "gated")
  /\ UNCHANGED <<setVars, waitVars, kind, dev, slot, evicted>>

Write(t) ==
  /\ pc[t] = "gated"
  /\ Goto(t, "sent")
  /\ UNCHANGED <<setVars, waitVars, kind, dev, slot, evicted>>

\* the engine answered: the same guard, held across the head's write
EnterHeadGate(t) ==
  /\ pc[t] = "sent" /\ dev[t] \in current
  /\ Goto(t, "headgated")
  /\ UNCHANGED <<setVars, waitVars, kind, dev, slot, evicted>>

WriteHead(t) ==
  /\ pc[t] = "headgated"
  /\ Goto(t, "relay")
  /\ UNCHANGED <<setVars, waitVars, kind, dev, slot, evicted>>

\* The room's turn reads the guest's salt, and sends without the gate.
TurnSalt ==
  /\ pc[Driver] = "leased" /\ Room \in current
  /\ Goto(Driver, "salted")
  /\ UNCHANGED <<setVars, waitVars, kind, dev, slot, evicted>>

TurnWrite ==
  /\ pc[Driver] = "salted"
  /\ Goto(Driver, "relay")
  /\ UNCHANGED <<setVars, waitVars, kind, dev, slot, evicted>>

\* every way out of a request that holds a lease: its answer is complete, a
\* route the door serves itself was answered, a read or a write failed
Finish(t) == pc[t] \in {"leased", "salted", "sent", "relay"} /\ Leave(t)

\* where a worker's exchange looks at the set again. (Slip: not while the
\* answer streams.)
CheckedBeforeRelay == {"sent"}
CheckedPlaces == {"sent", "relay"}

\* `Cancel::stopped` between two relay steps, or `holds` at the gate: the
\* device left the set, and the exchange is cut where it stands
Cut(t) ==
  /\ pc[t] = "leased" \/ (t \in Workers /\ pc[t] \in CheckedPlaces)
  /\ dev[t] \notin current
  /\ Leave(t)

\* the exclusive half of the revocation gate. (Slip: the swap does not take it.)
GateIgnored == TRUE
GateOpen == InGate = {}

\* whose seats a swap prunes. (Slip: the map is built anew for the new set.)
PrunedAll(devices) == {d \in Devices : assigned[d] # NoSlot}
Pruned(devices) == {d \in Devices \ devices : assigned[d] # NoSlot}

\* which vacated slots wait for a request. (Slip: none, they are free at once.)
NoneInFlight(vacated) == {}
InFlight(vacated) == {s \in vacated : leases[s] > 0}

\* `swap`: the app installs another set. Exclusive: no thread is inside the
\* gate. A kept device keeps its slot; a removed one's slot is free, or waits
\* for the requests still in flight on it.
Swap(devices) ==
  /\ GateOpen /\ devices # current /\ devices # {}
  /\ LET removed == Pruned(devices)
         vacated == {assigned[d] : d \in removed} IN
       /\ assigned' = [d \in Devices |-> IF d \in removed THEN NoSlot ELSE assigned[d]]
       /\ before' = [s \in Slots |-> IF s \in vacated THEN {} ELSE before[s] \ vacated]
       /\ pendingFree' = pendingFree \union InFlight(vacated)
       /\ free' = free \union (vacated \ InFlight(vacated))
  /\ current' = devices
  /\ UNCHANGED <<leases, waitVars, threadVars>>

\* what a thread does of itself, however long the answer it relays may be
Continue(t) ==
  \/ Seated(t) \/ RefusedSeat(t) \/ Crowded(t) \/ FullHouse(t) \/ StartWait(t)
  \/ GiveUpWaiting(t) \/ Uncount(t) \/ Unlist(t)
  \/ EnterGate(t) \/ Write(t) \/ EnterHeadGate(t) \/ WriteHead(t)

Next ==
  \/ \E t \in Workers, d \in Devices, k \in Kinds : Authenticate(t, d, k)
  \/ StartTurn \/ TurnSalt \/ TurnWrite
  \/ \E t \in Threads : Continue(t) \/ Finish(t) \/ Cut(t)
  \/ \E devices \in SUBSET Devices : Swap(devices)

Spec == Init /\ [][Next]_vars

(***************************************************************************)
(* Fairness: a thread that can go on does, and the relay looks at the set  *)
(* between two steps (`Cancel::stopped`). An answer need not end, the app  *)
(* need not swap the set, and no client need ask.                          *)
(***************************************************************************)
Fairness == \A t \in Threads : WF_vars(Continue(t)) /\ WF_vars(Cut(t))
FairSpec == Spec /\ Fairness

-----------------------------------------------------------------------------
(* Properties *)

TypeOK ==
  /\ current \in SUBSET Devices
  /\ assigned \in [Devices -> Slots \union {NoSlot}]
  /\ free \in SUBSET Slots /\ pendingFree \in SUBSET Slots
  /\ leases \in [Slots -> Nat]
  /\ before \in [Slots -> SUBSET Slots]
  /\ seatWaiting \in SUBSET Devices /\ seatWaiters \in Nat
  /\ pc \in [Threads -> Places] /\ kind \in [Threads -> Kinds]
  /\ dev \in [Threads -> Devices \union {NoDevice}]
  /\ slot \in [Threads -> Slots \union {NoSlot}]
  /\ evicted \in [Threads -> Devices \union {NoDevice}]

Assigned == {assigned[d] : d \in Devices} \ {NoSlot}

\* Every slot is assigned to one device, free, or waiting on a revoked lease,
\* and never two of those: the partition `lease` asserts in debug builds.
SlotPartition ==
  /\ \A d, e \in Devices : assigned[d] = assigned[e] /\ assigned[d] # NoSlot => d = e
  /\ Assigned \union free \union pendingFree = Slots
  /\ Assigned \cap free = {} /\ Assigned \cap pendingFree = {} /\ free \cap pendingFree = {}

\* The count that decides when a revoked slot is free is the number of
\* requests that hold it: no return, refusal or cut leaks or double-drops one.
LeasesCounted == \A s \in Slots : leases[s] = Cardinality(Holders(s))

\* Two requests in flight on one slot are one device's: whatever evictions,
\* revocations and returns came between, a slot never serves two devices.
OneDevicePerSlot ==
  \A t, u \in Threads : Holding(t) /\ slot[t] = slot[u] => dev[t] = dev[u]

\* A request in flight keeps its seat: the slot is still its device's, or is
\* held back from everybody until the request ends.
SeatKept ==
  \A t \in Threads : Holding(t) => assigned[dev[t]] = slot[t] \/ slot[t] \in pendingFree

\* At the instant the door writes for a device, to the engine or to the
\* client, the device is in the set: a swap waits for the gate.
NeverWritesRevoked == \A t \in InGate : dev[t] \in current

\* the switches the counter counts, and the ones the set of devices lists
Counts(t) == kind[t] = "switch" /\ pc[t] \in {"waiting", "unwait1"}
Lists(t) == kind[t] = "switch" /\ pc[t] \in {"waiting", "unwait1", "unwait2"}
Counted == {t \in Threads : Counts(t)}
Listed == {t \in Threads : Lists(t)}

\* The wait for a seat never holds more than MaxWaiters workers nor two of
\* one device, and the counter never drifts from the waits it counts.
WaitsBounded ==
  /\ seatWaiters = Cardinality(Counted) /\ seatWaiters <= MaxWaiters
  /\ seatWaiting = {dev[t] : t \in Listed}
  /\ \A t, u \in Listed : dev[t] = dev[u] => t = u

\* A set change never moves a device it keeps: the slot of a device in the old
\* and the new set is its warm cache, whoever else was removed or added.
SwapKeepsSeats ==
  [][current' # current =>
       \A d \in current \intersect current' : assigned'[d] = assigned[d]]_vars

\* An exchange whose device is revoked while its answer streams is cut, even
\* if the engine would go on answering for ever.
RevokedIsCut ==
  \A t \in Workers :
    pc[t] \in {"sent", "relay"} /\ dev[t] \notin current
      ~> pc[t] = "idle" \/ dev[t] \in current
=============================================================================
