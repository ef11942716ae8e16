------------------------- MODULE DeviceSeatsProofs -------------------------
(***************************************************************************)
(* Proofs about DeviceSeats, for every number of devices, workers, slots   *)
(* and waiting switches. Inv is the inductive invariant: what the runs     *)
(* check (the partition of the slots, the lease counts, one device per     *)
(* slot, no write for a revoked device, the bounded wait), the fact that   *)
(* ties a lease to its seat (SeatKept), and where a thread may stand       *)
(* without a lease (Placed).                                               *)
(***************************************************************************)
EXTENDS DeviceSeats, FiniteSetTheorems, TLAPS

Seatless == {"idle", "seat", "crowded", "waiting"}

Placed ==
  \A t \in Threads :
    /\ pc[t] \in Seatless => slot[t] = NoSlot
    /\ pc[t] # "idle" => dev[t] \in Devices
    /\ pc[t] \in {"unwait1", "unwait2"} => kind[t] = "switch"

SeatInv == SlotPartition /\ LeasesCounted /\ SeatKept /\ OneDevicePerSlot

Inv == TypeOK /\ Placed /\ SeatInv /\ NeverWritesRevoked /\ WaitsBounded

-----------------------------------------------------------------------------
(* Counting holders *)

\* There are finitely many threads, so the holders of a slot can be counted.
LEMMA HoldersFinite ==
  /\ IsFiniteSet(Threads)
  /\ \A s : IsFiniteSet(Holders(s)) /\ Cardinality(Holders(s)) \in Nat
<1>1. IsFiniteSet(Threads)
  BY SeatsAssumption, FS_AddElement DEF SeatsAssumption, Threads
<1>2. \A s : Holders(s) \in SUBSET Threads
  BY DEF Holders
<1> QED
  BY <1>1, <1>2, FS_Subset, FS_CardinalityType

\* A slot with no lease in flight has no holder, and a held slot has a lease.
LEMMA NoLeaseNoHolder ==
  ASSUME LeasesCounted, NEW t \in Threads, slot[t] \in Slots
  PROVE  leases[slot[t]] \in Nat \ {0}
<1>1. t \in Holders(slot[t])
  BY DEF Holders
<1>2. Cardinality(Holders(slot[t])) # 0
  BY <1>1, HoldersFinite, FS_EmptySet
<1> QED
  BY <1>2, HoldersFinite DEF LeasesCounted

\* The only holder of a slot with one lease is the thread that holds it.
LEMMA LastHolder ==
  ASSUME LeasesCounted, NEW t \in Threads, slot[t] \in Slots, leases[slot[t]] = 1
  PROVE  \A u \in Threads : slot[u] = slot[t] => u = t
<1> DEFINE H == Holders(slot[t])
<1>1. Cardinality(H) = 1 /\ IsFiniteSet(H)
  BY HoldersFinite DEF LeasesCounted
<1>2. PICK x : H = {x}
  BY <1>1, FS_Singleton
<1> QED
  BY <1>2 DEF Holders

-----------------------------------------------------------------------------
(* The seats: SeatInv under each kind of step *)

\* A step that moves no slot keeps every seat, whatever it does to the request
\* of a thread that holds none.
LEMMA SeatsUntouched ==
  ASSUME SeatInv, UNCHANGED <<assigned, free, leases, pendingFree, slot>>,
         \A t \in Threads : slot[t] # NoSlot => dev'[t] = dev[t]
  PROVE  SeatInv'
<1>1. SlotPartition'
  BY DEF SeatInv, SlotPartition, Assigned
<1>2. LeasesCounted'
  BY DEF SeatInv, LeasesCounted, Holders
<1>3. SeatKept'
  BY DEF SeatInv, SeatKept, Holding
<1>4. OneDevicePerSlot'
  BY DEF SeatInv, OneDevicePerSlot, Holding
<1> QED
  BY <1>1, <1>2, <1>3, <1>4 DEF SeatInv

\* A request that leaves gives its seat back.
LEMMA SeatsLeft ==
  ASSUME TypeOK, SeatInv, NEW t \in Threads, Leave(t)
  PROVE  SeatInv' /\ leases' \in [Slots -> Nat] /\ pendingFree' \in SUBSET Slots /\ free' \in SUBSET Slots
<1> USE DEF Leave
<1>0. /\ slot \in [Threads -> Slots \union {NoSlot}] /\ dev \in [Threads -> Devices \union {NoDevice}]
      /\ slot' = [slot EXCEPT ![t] = NoSlot] /\ dev' = [dev EXCEPT ![t] = NoDevice]
      /\ NoSlot \notin Slots /\ assigned \in [Devices -> Slots \union {NoSlot}]
      /\ assigned' = assigned /\ leases \in [Slots -> Nat] 
      /\ free \in SUBSET Slots /\ pendingFree \in SUBSET Slots
  BY SeatsAssumption DEF TypeOK, SeatsAssumption, DropLease, setVars
<1>1. CASE ~Holding(t)
  <2>1. slot' = slot /\ UNCHANGED <<free, leases, pendingFree>>
    BY <1>0, <1>1 DEF DropLease, setVars, Holding
  <2>2. \A u \in Threads : slot[u] # NoSlot => dev'[u] = dev[u]
    BY <1>0, <1>1 DEF Holding
  <2> QED
    BY <1>0, <2>1, <2>2, SeatsUntouched
<1>2. CASE Holding(t)
  <2> DEFINE s == slot[t]
             last == leases[s] = 1
  <2>1. /\ s \in Slots
        /\ leases' = [leases EXCEPT ![s] = @ - 1]
        /\ pendingFree' = IF last THEN pendingFree \ {s} ELSE pendingFree
        /\ free' = IF last /\ s \in pendingFree THEN free \union {s} ELSE free
    BY <1>0, <1>2 DEF DropLease, Holding, CountedOut
  <2>2. leases[s] \in Nat \ {0}
    BY <2>1, NoLeaseNoHolder DEF SeatInv
  <2>3. SlotPartition'
    BY <1>0, <2>1 DEF SeatInv, SlotPartition, Assigned
  <2>4. LeasesCounted'
    <3> SUFFICES ASSUME NEW x \in Slots PROVE leases'[x] = Cardinality(Holders(x)')
      BY DEF LeasesCounted
    <3>1. CASE x = s
      <4>1. Holders(x)' = Holders(x) \ {t} /\ t \in Holders(x)
        BY <1>0, <2>1, <3>1 DEF Holders
      <4>2. Cardinality(Holders(x) \ {t}) = Cardinality(Holders(x)) - 1
        BY <4>1, HoldersFinite, FS_RemoveElement
      <4>3. leases[x] = Cardinality(Holders(x))
        BY DEF SeatInv, LeasesCounted
      <4> QED
        BY <4>1, <4>2, <4>3, <1>0, <2>1, <3>1
    <3>2. CASE x # s
      <4>1. Holders(x)' = Holders(x)
        BY <1>0, <2>1, <3>2 DEF Holders
      <4> QED
        BY <4>1, <1>0, <2>1, <3>2 DEF SeatInv, LeasesCounted
    <3> QED
      BY <3>1, <3>2
  <2>5. \A u \in Threads : Holding(u)' => u # t /\ slot'[u] = slot[u] /\ dev'[u] = dev[u] /\ Holding(u)
    BY <1>0 DEF Holding
  <2>6. SeatKept'
    <3> SUFFICES ASSUME NEW u \in Threads, Holding(u)'
                 PROVE  assigned'[dev'[u]] = slot'[u] \/ slot'[u] \in pendingFree'
      BY DEF SeatKept
    <3>1. assigned[dev[u]] = slot[u] \/ slot[u] \in pendingFree
      BY <2>5 DEF SeatInv, SeatKept
    <3>2. ~(last /\ slot[u] = s)
      BY <2>1, <2>5, LastHolder DEF SeatInv
    <3> QED
      BY <1>0, <2>1, <2>5, <3>1, <3>2
  <2>7. OneDevicePerSlot'
    BY <2>5 DEF SeatInv, OneDevicePerSlot, Holding
  <2>8. leases' \in [Slots -> Nat]
    BY <1>0, <2>1, <2>2
  <2> QED
    <3>1. pendingFree' \in SUBSET Slots /\ free' \in SUBSET Slots
      BY <1>0, <2>1
    <3> QED
      BY <2>3, <2>4, <2>6, <2>7, <2>8, <3>1 DEF SeatInv
<1> QED
  BY <1>1, <1>2

\* A request that leases a seat keeps every other one, and gets one that nobody
\* else's request is on.
LEMMA SeatsLeased ==
  ASSUME TypeOK, Placed, SeatInv, NEW t \in Threads, Lease(t), dev' = dev,
         slot[t] = NoSlot, dev[t] \in Devices
  PROVE  SeatInv' /\ leases' \in [Slots -> Nat] /\ assigned' \in [Devices -> Slots \union {NoSlot}]
                  /\ free' \in SUBSET Slots /\ slot' \in [Threads -> Slots \union {NoSlot}]
<1> DEFINE d == dev[t]
<1>0. /\ slot \in [Threads -> Slots \union {NoSlot}] /\ dev \in [Threads -> Devices \union {NoDevice}]
      /\ NoSlot \notin Slots /\ assigned \in [Devices -> Slots \union {NoSlot}]
      /\ leases \in [Slots -> Nat] /\ free \in SUBSET Slots /\ pendingFree \in SUBSET Slots
      /\ d \in Devices
  BY SeatsAssumption DEF TypeOK, SeatsAssumption
<1>1. PICK s \in Slots :
        /\ leases' = [leases EXCEPT ![s] = @ + 1]
        /\ slot' = [slot EXCEPT ![t] = s]
        /\ UNCHANGED pendingFree
        /\ \/ /\ assigned[d] = s
              /\ UNCHANGED <<assigned, free>>
           \/ /\ assigned[d] = NoSlot /\ s \in free
              /\ free' = free \ {s}
              /\ assigned' = [assigned EXCEPT ![d] = s]
           \/ /\ assigned[d] = NoSlot /\ leases[s] = 0
              /\ \E e \in Devices :
                   /\ assigned[e] = s
                   /\ assigned' = [assigned EXCEPT ![e] = NoSlot, ![d] = s]
              /\ UNCHANGED free
  <2>1. CASE LeaseOwn(t)
    BY <1>0, <2>1 DEF LeaseOwn, Take
  <2>2. CASE LeaseFree(t)
    BY <1>0, <2>2 DEF LeaseFree, Take, Unfree
  <2>3. CASE LeaseEvict(t)
    <3>1. PICK e \in Devices : /\ assigned[e] # NoSlot /\ leases[assigned[e]] = 0
                               /\ Take(t, assigned[e], e)
                               /\ assigned' = [assigned EXCEPT ![e] = NoSlot, ![d] = assigned[e]]
      BY <2>3 DEF LeaseEvict, Yields, Idle
    <3> QED
      BY <1>0, <2>3, <3>1 DEF LeaseEvict, Take
  <2> QED
    BY <2>1, <2>2, <2>3 DEF Lease
<1>2. s \notin pendingFree
  BY <1>0, <1>1 DEF SeatInv, SlotPartition, Assigned
<1>3. \A u \in Threads : slot[u] = s => dev[u] = d
  <2> SUFFICES ASSUME NEW u \in Threads, slot[u] = s PROVE dev[u] = d
    OBVIOUS
  <2>1. assigned[dev[u]] = s
    BY <1>0, <1>2 DEF SeatInv, SeatKept, Holding
  <2>2. leases[s] # 0
    BY <1>0, NoLeaseNoHolder DEF SeatInv
  <2>3. dev[u] \in Devices
    BY <1>0 DEF Placed, Seatless
  <2>4. s \notin free
    BY <1>0, <2>1, <2>3 DEF SeatInv, SlotPartition, Assigned
  <2> QED
    BY <1>0, <1>1, <2>1, <2>2, <2>3, <2>4 DEF SeatInv, SlotPartition
<1>4. /\ leases' \in [Slots -> Nat] /\ free' \in SUBSET Slots
      /\ slot' \in [Threads -> Slots \union {NoSlot}]
      /\ assigned' \in [Devices -> Slots \union {NoSlot}]
  BY <1>0, <1>1
<1>5. SlotPartition'
  <2>1. CASE assigned[d] = s /\ UNCHANGED <<assigned, free>>
    BY <1>1, <2>1 DEF SeatInv, SlotPartition, Assigned
  <2>2. CASE /\ assigned[d] = NoSlot /\ s \in free
             /\ free' = free \ {s}
             /\ assigned' = [assigned EXCEPT ![d] = s]
    BY <1>0, <1>1, <2>2 DEF SeatInv, SlotPartition, Assigned
  <2>3. ASSUME NEW e \in Devices, assigned[d] = NoSlot, assigned[e] = s, UNCHANGED free,
               assigned' = [assigned EXCEPT ![e] = NoSlot, ![d] = s]
        PROVE  SlotPartition'
    <3>1. e # d
      BY <1>0, <2>3
    <3>2. Assigned' = Assigned
      BY <1>0, <2>3, <3>1 DEF Assigned
    <3> QED
      BY <1>0, <1>1, <2>3, <3>1, <3>2 DEF SeatInv, SlotPartition
  <2> QED
    BY <1>1, <2>1, <2>2, <2>3
<1>6. LeasesCounted'
  <2> SUFFICES ASSUME NEW x \in Slots PROVE leases'[x] = Cardinality(Holders(x)')
    BY DEF LeasesCounted
  <2>1. leases[x] = Cardinality(Holders(x))
    BY DEF SeatInv, LeasesCounted
  <2>2. CASE x = s
    <3>1. Holders(x)' = Holders(x) \union {t} /\ t \notin Holders(x)
      BY <1>0, <1>1, <2>2 DEF Holders
    <3>2. Cardinality(Holders(x) \union {t}) = Cardinality(Holders(x)) + 1
      BY <3>1, HoldersFinite, FS_AddElement
    <3> QED
      BY <1>0, <1>1, <2>1, <2>2, <3>1, <3>2
  <2>3. CASE x # s
    <3>1. Holders(x)' = Holders(x)
      BY <1>0, <1>1, <2>3 DEF Holders
    <3> QED
      BY <1>0, <1>1, <2>1, <2>3, <3>1
  <2> QED
    BY <2>2, <2>3
<1>7. SeatKept'
  <2> SUFFICES ASSUME NEW u \in Threads, slot'[u] # NoSlot
               PROVE  assigned'[dev[u]] = slot'[u] \/ slot'[u] \in pendingFree
    BY <1>1 DEF SeatKept, Holding
  <2>1. CASE u = t
    BY <1>0, <1>1, <2>1
  <2>2. CASE u # t
    <3>1. slot'[u] = slot[u] /\ slot[u] # NoSlot /\ slot[u] \in Slots
      BY <1>0, <1>1, <2>2
    <3>2. dev[u] \in Devices
      BY <3>1 DEF Placed, Seatless
    <3>3. assigned[dev[u]] = slot[u] \/ slot[u] \in pendingFree
      BY <3>1 DEF SeatInv, SeatKept, Holding
    <3>4. leases[slot[u]] # 0
      BY <3>1, NoLeaseNoHolder DEF SeatInv
    <3>5. assigned[dev[u]] = slot[u] => assigned'[dev[u]] = slot[u]
      BY <1>0, <1>1, <3>1, <3>2, <3>4
    <3> QED
      BY <3>1, <3>3, <3>5
  <2> QED
    BY <2>1, <2>2
<1>8. OneDevicePerSlot'
  BY <1>0, <1>1, <1>3 DEF SeatInv, OneDevicePerSlot, Holding
<1> QED
  BY <1>4, <1>5, <1>6, <1>7, <1>8 DEF SeatInv

\* A change of the set takes no seat a request is on: it is kept, or waits.
LEMMA SeatsSwapped ==
  ASSUME TypeOK, Placed, SeatInv, NEW devices \in SUBSET Devices, Swap(devices)
  PROVE  SeatInv' /\ assigned' \in [Devices -> Slots \union {NoSlot}]
                  /\ free' \in SUBSET Slots /\ pendingFree' \in SUBSET Slots
<1> DEFINE removed == Pruned(devices)
           vacated == {assigned[d] : d \in removed}
<1>0. /\ slot \in [Threads -> Slots \union {NoSlot}] /\ dev \in [Threads -> Devices \union {NoDevice}]
      /\ NoSlot \notin Slots /\ assigned \in [Devices -> Slots \union {NoSlot}]
      /\ leases \in [Slots -> Nat] /\ free \in SUBSET Slots /\ pendingFree \in SUBSET Slots
  BY SeatsAssumption DEF TypeOK, SeatsAssumption
<1>1. /\ assigned' = [d \in Devices |-> IF d \in removed THEN NoSlot ELSE assigned[d]]
      /\ pendingFree' = pendingFree \union InFlight(vacated)
      /\ free' = free \union (vacated \ InFlight(vacated))
      /\ UNCHANGED <<leases, slot, dev>>
  BY DEF Swap, threadVars
<1>2. vacated \in SUBSET Slots /\ removed \in SUBSET Devices
  BY <1>0 DEF Pruned
<1>3. InFlight(vacated) \in SUBSET vacated
  BY DEF InFlight
<1>4. /\ assigned' \in [Devices -> Slots \union {NoSlot}]
      /\ free' \in SUBSET Slots /\ pendingFree' \in SUBSET Slots
  BY <1>0, <1>1, <1>2, <1>3
<1>5. SlotPartition'
  <2>1. \A d, e \in Devices : assigned[d] = assigned[e] /\ assigned[d] # NoSlot => d = e
    BY DEF SeatInv, SlotPartition
  <2>2. Assigned' = Assigned \ vacated
    BY <1>0, <1>1, <1>2, <2>1 DEF Assigned
  <2>3. vacated \in SUBSET Assigned
    BY <1>0, <1>2 DEF Assigned
  <2>4. \A d, e \in Devices : assigned'[d] = assigned'[e] /\ assigned'[d] # NoSlot => d = e
    BY <1>1, <2>1
  <2> QED
    BY <1>1, <1>3, <2>2, <2>3, <2>4 DEF SeatInv, SlotPartition
<1>6. LeasesCounted'
  BY <1>1 DEF SeatInv, LeasesCounted, Holders
<1>7. SeatKept'
  <2> SUFFICES ASSUME NEW u \in Threads, slot[u] # NoSlot
               PROVE  assigned'[dev[u]] = slot[u] \/ slot[u] \in pendingFree'
    BY <1>1 DEF SeatKept, Holding
  <2>1. dev[u] \in Devices /\ slot[u] \in Slots
    BY <1>0 DEF Placed, Seatless
  <2>2. assigned[dev[u]] = slot[u] \/ slot[u] \in pendingFree
    BY DEF SeatInv, SeatKept, Holding
  <2>3. leases[slot[u]] > 0
    BY <1>0, <2>1, NoLeaseNoHolder DEF SeatInv
  <2>4. dev[u] \in removed /\ assigned[dev[u]] = slot[u] => slot[u] \in InFlight(vacated)
    BY <2>3 DEF InFlight
  <2> QED
    BY <1>1, <2>1, <2>2, <2>4
<1>8. OneDevicePerSlot'
  BY <1>1 DEF SeatInv, OneDevicePerSlot, Holding
<1> QED
  BY <1>4, <1>5, <1>6, <1>7, <1>8 DEF SeatInv
-----------------------------------------------------------------------------
(* The waits for a seat: WaitsBounded under each kind of step *)

\* The switches that wait can be counted.
LEMMA WaitsFinite == IsFiniteSet(Counted) /\ Cardinality(Counted) \in Nat
<1>1. Counted \in SUBSET Threads
  BY DEF Counted
<1>2. IsFiniteSet(Threads)
  BY HoldersFinite
<1>3. IsFiniteSet(Counted)
  BY <1>1, <1>2, FS_Subset
<1> QED
  BY <1>3, FS_CardinalityType

\* A step that starts, ends or renames no wait keeps the waits as they are.
LEMMA WaitsUntouched ==
  ASSUME WaitsBounded, UNCHANGED waitVars,
         \A t \in Threads : Counts(t)' = Counts(t) /\ Lists(t)' = Lists(t),
         \A t \in Threads : Lists(t) => dev'[t] = dev[t]
  PROVE  WaitsBounded'
<1>1. Counted' = Counted /\ Listed' = Listed
  BY DEF Counted, Listed
<1>2. {dev'[t] : t \in Listed} = {dev[t] : t \in Listed}
  BY DEF Listed
<1>3. \A t \in Listed : dev'[t] = dev[t]
  BY DEF Listed
<1> QED
  BY <1>1, <1>2, <1>3 DEF WaitsBounded, waitVars

-----------------------------------------------------------------------------
(* The steps of one thread *)

Steady == Places \ (Seatless \union {"unwait1", "unwait2"})

\* A thread that goes on inside its request keeps Inv, if it enters a gate only
\* for a device of the set.
LEMMA GoesOn ==
  ASSUME Inv, NEW t \in Threads, NEW place \in Steady, pc[t] \in Steady, Goto(t, place),
         UNCHANGED <<setVars, waitVars, kind, dev, slot, evicted>>,
         place \in {"gated", "headgated"} => dev[t] \in current
  PROVE  Inv'
<1>0. pc \in [Threads -> Places] /\ pc' = [pc EXCEPT ![t] = place] /\ place \in Places
  BY DEF Inv, TypeOK, Goto, Steady
<1>1. TypeOK'
  BY <1>0 DEF Inv, TypeOK, setVars, waitVars
<1>2. Placed'
  BY <1>0 DEF Inv, Placed, Steady, Seatless
<1>3. SeatInv'
  BY SeatsUntouched DEF Inv, setVars
<1>4. NeverWritesRevoked'
  BY <1>0 DEF Inv, NeverWritesRevoked, InGate, setVars
<1>5. WaitsBounded'
  <2>1. \A u \in Threads : Counts(u)' = Counts(u) /\ Lists(u)' = Lists(u)
    BY <1>0 DEF Counts, Lists, Steady, Seatless
  <2> QED
    BY <2>1, WaitsUntouched DEF Inv
<1> QED
  BY <1>1, <1>2, <1>3, <1>4, <1>5 DEF Inv

\* A request that ends outside a wait keeps Inv.
LEMMA Ends ==
  ASSUME Inv, NEW t \in Threads, Leave(t), ~Lists(t)
  PROVE  Inv'
<1>0. /\ pc \in [Threads -> Places] /\ pc' = [pc EXCEPT ![t] = "idle"]
      /\ slot \in [Threads -> Slots \union {NoSlot}] /\ slot' = [slot EXCEPT ![t] = NoSlot]
      /\ dev \in [Threads -> Devices \union {NoDevice}] /\ dev' = [dev EXCEPT ![t] = NoDevice]
      /\ evicted \in [Threads -> Devices \union {NoDevice}] /\ evicted' = [evicted EXCEPT ![t] = NoDevice]
      /\ kind \in [Threads -> Kinds] /\ kind' = [kind EXCEPT ![t] = "plain"]
      /\ UNCHANGED <<current, assigned, before, seatWaiting, seatWaiters>>
  BY DEF Inv, TypeOK, Leave, Goto, waitVars, DropLease, setVars
<1>1. SeatInv' /\ leases' \in [Slots -> Nat] /\ pendingFree' \in SUBSET Slots /\ free' \in SUBSET Slots
  BY SeatsLeft DEF Inv
<1>2. TypeOK'
  <2>1. "idle" \in Places /\ "plain" \in Kinds
    BY DEF Places, Kinds
  <2> QED
    BY <1>0, <1>1, <2>1 DEF Inv, TypeOK
<1>3. Placed'
  BY <1>0 DEF Inv, Placed, Seatless
<1>4. NeverWritesRevoked'
  BY <1>0 DEF Inv, NeverWritesRevoked, InGate
<1>5. WaitsBounded'
  <2>1. \A u \in Threads : Counts(u)' = Counts(u) /\ Lists(u)' = Lists(u)
    BY <1>0 DEF Counts, Lists
  <2>2. \A u \in Threads : Lists(u) => dev'[u] = dev[u]
    BY <1>0
  <2> QED
    BY <1>0, <2>1, <2>2, WaitsUntouched DEF Inv, waitVars
<1> QED
  BY <1>1, <1>2, <1>3, <1>4, <1>5 DEF Inv

\* A request that is about to ask for a seat keeps Inv.
LEMMA Asks ==
  ASSUME Inv, NEW t \in Threads, NEW d \in Devices, NEW k \in Kinds,
         pc[t] = "idle", Goto(t, "seat"),
         dev' = [dev EXCEPT ![t] = d], kind' = [kind EXCEPT ![t] = k],
         UNCHANGED <<setVars, waitVars, slot, evicted>>
  PROVE  Inv'
<1>0. /\ pc \in [Threads -> Places] /\ pc' = [pc EXCEPT ![t] = "seat"]
      /\ dev \in [Threads -> Devices \union {NoDevice}]
      /\ kind \in [Threads -> Kinds]
  BY DEF Inv, TypeOK, Goto
<1>1. TypeOK'
  BY <1>0 DEF Inv, TypeOK, setVars, waitVars, Places
<1>2. Placed'
  BY <1>0 DEF Inv, Placed, Seatless
<1>3. SeatInv'
  <2>1. \A u \in Threads : slot[u] # NoSlot => dev'[u] = dev[u]
    BY <1>0 DEF Inv, Placed, Seatless
  <2> QED
    BY <2>1, SeatsUntouched DEF Inv, setVars
<1>4. NeverWritesRevoked'
  BY <1>0 DEF Inv, NeverWritesRevoked, InGate, setVars
<1>5. WaitsBounded'
  <2>1. \A u \in Threads : Counts(u)' = Counts(u) /\ Lists(u)' = Lists(u)
    BY <1>0 DEF Counts, Lists
  <2>2. \A u \in Threads : Lists(u) => dev'[u] = dev[u]
    BY <1>0 DEF Lists
  <2> QED
    BY <2>1, <2>2, WaitsUntouched DEF Inv
<1> QED
  BY <1>1, <1>2, <1>3, <1>4, <1>5 DEF Inv
-----------------------------------------------------------------------------
(* The steps of the wait, and the lease *)

\* `lease` answers a slot.
LEMMA SeatedKeeps ==
  ASSUME Inv, NEW t \in Threads, Seated(t)
  PROVE  Inv'
<1>0. /\ pc \in [Threads -> Places] /\ pc[t] \in {"seat", "waiting"}
      /\ pc' = [pc EXCEPT ![t] = IF pc[t] = "waiting" /\ kind[t] = "switch" THEN "unwait1" ELSE "leased"]
      /\ Lease(t) /\ UNCHANGED <<waitVars, kind, dev>>
      /\ slot[t] = NoSlot /\ dev[t] \in Devices
  BY DEF Inv, TypeOK, Seated, Goto, Placed, Seatless
<1>1. SeatInv' /\ leases' \in [Slots -> Nat] /\ assigned' \in [Devices -> Slots \union {NoSlot}]
               /\ free' \in SUBSET Slots /\ slot' \in [Threads -> Slots \union {NoSlot}]
  BY <1>0, SeatsLeased DEF Inv
<1>2. PICK s \in Slots, from \in Devices \union {NoDevice} : Take(t, s, from)
  <2>1. CASE LeaseOwn(t)
    BY <1>0, <2>1 DEF Inv, TypeOK, LeaseOwn
  <2>2. CASE LeaseFree(t)
    BY <1>0, <2>2 DEF Inv, TypeOK, LeaseFree
  <2>3. CASE LeaseEvict(t)
    BY <1>0, <2>3 DEF Inv, TypeOK, LeaseEvict, Yields, Idle
  <2> QED
    BY <1>0, <2>1, <2>2, <2>3 DEF Lease
<1>3. TypeOK'
  <2>1. before' \in [Slots -> SUBSET Slots]
    BY <1>2 DEF Inv, TypeOK, Take
  <2>2. evicted' \in [Threads -> Devices \union {NoDevice}]
    BY <1>2 DEF Inv, TypeOK, Take
  <2>3. pc' \in [Threads -> Places]
    BY <1>0 DEF Places
  <2>4. UNCHANGED <<current, pendingFree>>
    BY <1>2 DEF Take
  <2> QED
    BY <1>0, <1>1, <2>1, <2>2, <2>3, <2>4 DEF Inv, TypeOK, waitVars
<1>4. Placed'
  BY <1>0, <1>2 DEF Inv, Placed, Seatless, Take, TypeOK
<1>5. NeverWritesRevoked'
  BY <1>0, <1>2 DEF Inv, NeverWritesRevoked, InGate, Take
<1>6. WaitsBounded'
  <2>1. \A u \in Threads : Counts(u)' = Counts(u) /\ Lists(u)' = Lists(u)
    BY <1>0 DEF Counts, Lists
  <2> QED
    BY <1>0, <2>1, WaitsUntouched DEF Inv
<1> QED
  BY <1>1, <1>3, <1>4, <1>5, <1>6 DEF Inv

\* A thread that moves among the places without a lease, or out of a wait with
\* the lease it has, keeps everything but perhaps the waits.
LEMMA MovesUnseated ==
  ASSUME Inv, NEW t \in Threads,
         NEW place \in {"crowded", "waiting", "unwait1", "unwait2", "leased"},
         Goto(t, place), pc[t] \in {"seat", "crowded", "waiting", "unwait1", "unwait2"},
         place \in {"crowded", "waiting"} => pc[t] \in {"seat", "crowded"},
         place \in {"unwait1", "unwait2"} => kind[t] = "switch",
         UNCHANGED <<setVars, kind, dev, slot, evicted>>
  PROVE  /\ Placed' /\ SeatInv' /\ NeverWritesRevoked'
         /\ seatWaiting' \in SUBSET Devices /\ seatWaiters' \in Nat => TypeOK'
<1>0. pc \in [Threads -> Places] /\ pc' = [pc EXCEPT ![t] = place] /\ place \in Places
  BY DEF Inv, TypeOK, Goto, Places
<1>1. seatWaiting' \in SUBSET Devices /\ seatWaiters' \in Nat => TypeOK'
  BY <1>0 DEF Inv, TypeOK, setVars
<1>2. Placed'
  BY <1>0 DEF Inv, Placed, Seatless
<1>3. SeatInv'
  BY SeatsUntouched DEF Inv, setVars
<1>4. NeverWritesRevoked'
  BY <1>0 DEF Inv, NeverWritesRevoked, InGate, setVars
<1> QED
  BY <1>1, <1>2, <1>3, <1>4

\* A request that found no seat.
LEMMA CrowdedKeeps ==
  ASSUME Inv, NEW t \in Threads, Crowded(t)
  PROVE  Inv'
<1> DEFINE place == IF kind[t] = "room" THEN "waiting" ELSE "crowded"
<1>0. /\ pc \in [Threads -> Places] /\ pc[t] = "seat" /\ pc' = [pc EXCEPT ![t] = place]
      /\ Goto(t, place) /\ UNCHANGED <<setVars, waitVars, kind, dev, slot, evicted>>
  BY DEF Inv, TypeOK, Crowded, Goto
<1>1. place \in {"waiting", "crowded"}
  OBVIOUS
<1> HIDE DEF place
<1>2. Placed' /\ SeatInv' /\ NeverWritesRevoked' /\ TypeOK'
  BY <1>0, <1>1, MovesUnseated DEF waitVars, Inv, TypeOK
<1>3. WaitsBounded'
  <2>1. \A u \in Threads : Counts(u)' = Counts(u) /\ Lists(u)' = Lists(u)
    BY <1>0 DEF Counts, Lists, place
  <2> QED
    BY <1>0, <2>1, WaitsUntouched DEF Inv
<1> QED
  BY <1>2, <1>3 DEF Inv

\* `take_wait_seat`.
LEMMA StartWaitKeeps ==
  ASSUME Inv, NEW t \in Threads, StartWait(t)
  PROVE  Inv'
<1>0. /\ pc \in [Threads -> Places] /\ pc[t] = "crowded" /\ pc' = [pc EXCEPT ![t] = "waiting"]
      /\ Goto(t, "waiting") /\ UNCHANGED <<setVars, kind, dev, slot, evicted>>
      /\ dev[t] \in Devices
      /\ seatWaiting \in SUBSET Devices /\ seatWaiters \in Nat /\ MaxWaiters \in Nat
  BY SeatsAssumption DEF Inv, TypeOK, StartWait, Goto, Placed, SeatsAssumption
<1>1. /\ kind[t] = "switch" /\ dev[t] \notin seatWaiting /\ seatWaiters < MaxWaiters
      /\ seatWaiting' = seatWaiting \union {dev[t]} /\ seatWaiters' = seatWaiters + 1
  BY DEF StartWait, Admits
<1>2. Placed' /\ SeatInv' /\ NeverWritesRevoked' /\ TypeOK'
  BY <1>0, <1>1, MovesUnseated DEF waitVars
<1>3. WaitsBounded'
  <2>1. Counted' = Counted \union {t} /\ t \notin Counted
    BY <1>0, <1>1 DEF Counted, Counts
  <2>2. Listed' = Listed \union {t} /\ t \notin Listed
    BY <1>0, <1>1 DEF Listed, Lists
  <2>3. Cardinality(Counted') = Cardinality(Counted) + 1
    BY <2>1, WaitsFinite, FS_AddElement
  <2>4. seatWaiting' = {dev'[u] : u \in Listed'}
    BY <1>0, <1>1, <2>2 DEF Inv, WaitsBounded
  <2>5. \A u, v \in Listed' : dev'[u] = dev'[v] => u = v
    BY <1>0, <1>1, <2>2 DEF Inv, WaitsBounded
  <2>6. seatWaiters' = Cardinality(Counted') /\ seatWaiters' <= MaxWaiters
    BY <1>0, <1>1, <2>3 DEF Inv, WaitsBounded
  <2> QED
    BY <2>4, <2>5, <2>6 DEF WaitsBounded
<1> QED
  BY <1>2, <1>3 DEF Inv

\* A switch whose wait ends, seated or not, goes to hand its place back.
LEMMA WaitEnds ==
  ASSUME Inv, NEW t \in Threads, pc[t] = "waiting", kind[t] = "switch", Goto(t, "unwait1"),
         UNCHANGED <<setVars, waitVars, kind, dev, slot, evicted>>
  PROVE  Inv'
<1>0. pc \in [Threads -> Places] /\ pc' = [pc EXCEPT ![t] = "unwait1"]
  BY DEF Inv, TypeOK, Goto
<1>1. Placed' /\ SeatInv' /\ NeverWritesRevoked' /\ TypeOK'
  BY MovesUnseated DEF waitVars, Inv, TypeOK
<1>2. WaitsBounded'
  <2>1. \A u \in Threads : Counts(u)' = Counts(u) /\ Lists(u)' = Lists(u)
    BY <1>0 DEF Counts, Lists
  <2> QED
    BY <2>1, WaitsUntouched DEF Inv
<1> QED
  BY <1>1, <1>2 DEF Inv

\* The counter half of `SeatWaitGuard::drop`.
LEMMA UncountKeeps ==
  ASSUME Inv, NEW t \in Threads, Uncount(t)
  PROVE  Inv'
<1>0. /\ pc \in [Threads -> Places] /\ pc[t] = "unwait1" /\ pc' = [pc EXCEPT ![t] = "unwait2"]
      /\ Goto(t, "unwait2") /\ kind[t] = "switch"
      /\ UNCHANGED <<setVars, seatWaiting, kind, dev, slot, evicted>>
      /\ seatWaiters' = seatWaiters - 1
  BY DEF Inv, TypeOK, Uncount, Goto, Placed
<1>1. Counted' = Counted \ {t} /\ t \in Counted
  BY <1>0 DEF Counted, Counts
<1>2. Cardinality(Counted') = Cardinality(Counted) - 1 /\ Cardinality(Counted) # 0
  BY <1>1, WaitsFinite, FS_RemoveElement, FS_EmptySet
<1>3. Listed' = Listed
  BY <1>0 DEF Listed, Lists
<1>4. seatWaiters' \in Nat /\ seatWaiting' \in SUBSET Devices
  BY <1>0, <1>2, WaitsFinite DEF Inv, WaitsBounded, TypeOK
<1>5. Placed' /\ SeatInv' /\ NeverWritesRevoked' /\ TypeOK'
  BY <1>0, <1>4, MovesUnseated
<1>6. WaitsBounded'
  BY SeatsAssumption, <1>0, <1>2, <1>3, WaitsFinite DEF Inv, WaitsBounded, SeatsAssumption
<1> QED
  BY <1>5, <1>6 DEF Inv

\* The set half of `SeatWaitGuard::drop`.
LEMMA UnlistKeeps ==
  ASSUME Inv, NEW t \in Threads, Unlist(t)
  PROVE  Inv'
<1>0. /\ pc \in [Threads -> Places] /\ pc[t] = "unwait2" /\ kind[t] = "switch"
      /\ seatWaiting' = seatWaiting \ {dev[t]} /\ UNCHANGED seatWaiters
      /\ dev \in [Threads -> Devices \union {NoDevice}] /\ kind \in [Threads -> Kinds]
      /\ UNCHANGED <<setVars, slot, evicted>>
  BY DEF Inv, TypeOK, Unlist, Placed
<1>1. \/ /\ Goto(t, "leased") /\ UNCHANGED <<kind, dev>>
      \/ /\ ~Holding(t) /\ Goto(t, "idle")
         /\ dev' = [dev EXCEPT ![t] = NoDevice] /\ kind' = [kind EXCEPT ![t] = "plain"]
  BY DEF Unlist
<1>2. Counted' = Counted
  BY <1>0, <1>1 DEF Counted, Counts, Goto
<1>3. Listed' = Listed \ {t} /\ t \in Listed
  BY <1>0, <1>1 DEF Listed, Lists, Goto
<1>4. \A u \in Listed' : dev'[u] = dev[u]
  BY <1>0, <1>1, <1>3 DEF Listed
<1>5. WaitsBounded'
  <2>1. seatWaiting' = {dev'[u] : u \in Listed'}
    BY <1>0, <1>3, <1>4 DEF Inv, WaitsBounded
  <2>2. \A u, v \in Listed' : dev'[u] = dev'[v] => u = v
    BY <1>3, <1>4 DEF Inv, WaitsBounded
  <2> QED
    BY <1>0, <1>2, <2>1, <2>2 DEF Inv, WaitsBounded
<1>6. seatWaiting' \in SUBSET Devices /\ seatWaiters' \in Nat
  BY <1>0 DEF Inv, TypeOK
<1>7. CASE Goto(t, "leased") /\ UNCHANGED <<kind, dev>>
  <2>1. Placed' /\ SeatInv' /\ NeverWritesRevoked' /\ TypeOK'
    BY <1>0, <1>6, <1>7, MovesUnseated
  <2> QED
    BY <1>5, <2>1 DEF Inv
<1>8. CASE /\ ~Holding(t) /\ Goto(t, "idle")
           /\ dev' = [dev EXCEPT ![t] = NoDevice] /\ kind' = [kind EXCEPT ![t] = "plain"]
  <2>1. SeatInv'
    <3>1. \A u \in Threads : slot[u] # NoSlot => dev'[u] = dev[u]
      BY <1>0, <1>8 DEF Holding
    <3> QED
      BY <1>0, <3>1, SeatsUntouched DEF Inv, setVars
  <2>2. Placed'
    BY <1>0, <1>8 DEF Inv, Placed, Seatless, Holding, Goto
  <2>3. TypeOK'
    BY <1>0, <1>6, <1>8 DEF Inv, TypeOK, setVars, Goto, Places, Kinds
  <2>4. NeverWritesRevoked'
    BY <1>0, <1>8 DEF Inv, NeverWritesRevoked, InGate, setVars, Goto
  <2> QED
    BY <1>5, <2>1, <2>2, <2>3, <2>4 DEF Inv
<1> QED
  BY <1>1, <1>7, <1>8
-----------------------------------------------------------------------------
(* The inductive invariant, and what it gives *)

\* A door starts with every slot free and no request.
LEMMA InitKeeps == Init => Inv
<1> SUFFICES ASSUME Init PROVE Inv
  OBVIOUS
<1>1. TypeOK
  BY DEF Init, TypeOK, Places, Kinds
<1>2. Placed
  BY DEF Init, Placed
<1>3. SlotPartition /\ SeatKept /\ OneDevicePerSlot
  BY SeatsAssumption DEF Init, SlotPartition, Assigned, SeatKept, OneDevicePerSlot, Holding, SeatsAssumption
<1>4. LeasesCounted
  <2>1. \A s \in Slots : Holders(s) = {}
    BY SeatsAssumption DEF Init, Holders, SeatsAssumption
  <2> QED
    BY <2>1, FS_EmptySet DEF Init, LeasesCounted
<1>5. NeverWritesRevoked
  BY DEF Init, NeverWritesRevoked, InGate
<1>6. WaitsBounded
  <2>1. Counted = {} /\ Listed = {}
    BY DEF Init, Counted, Listed, Counts, Lists
  <2> QED
    BY <2>1, FS_EmptySet, SeatsAssumption DEF Init, WaitsBounded, SeatsAssumption
<1> QED
  BY <1>1, <1>2, <1>3, <1>4, <1>5, <1>6 DEF Inv, SeatInv

\* The app replaces the set: nobody is inside a gate, and no wait moves.
LEMMA SwapKeeps ==
  ASSUME Inv, NEW devices \in SUBSET Devices, Swap(devices)
  PROVE  Inv'
<1>1. SeatInv' /\ assigned' \in [Devices -> Slots \union {NoSlot}]
               /\ free' \in SUBSET Slots /\ pendingFree' \in SUBSET Slots
  BY SeatsSwapped DEF Inv
<1>2. before' \in [Slots -> SUBSET Slots]
  BY DEF Inv, TypeOK, Swap
<1>3. TypeOK'
  BY <1>1, <1>2 DEF Inv, TypeOK, Swap, waitVars, threadVars
<1>4. Placed'
  BY DEF Inv, Placed, Swap, threadVars
<1>5. NeverWritesRevoked'
  BY DEF NeverWritesRevoked, InGate, Swap, GateOpen, threadVars
<1>6. WaitsBounded'
  <2>1. \A u \in Threads : Counts(u)' = Counts(u) /\ Lists(u)' = Lists(u)
    BY DEF Counts, Lists, Swap, threadVars
  <2>2. \A u \in Threads : Lists(u) => dev'[u] = dev[u]
    BY DEF Swap, threadVars
  <2> QED
    BY <2>1, <2>2, WaitsUntouched DEF Inv, Swap
<1> QED
  BY <1>1, <1>3, <1>4, <1>5, <1>6 DEF Inv

\* What a thread does of itself keeps Inv.
LEMMA ContinueKeeps ==
  ASSUME Inv, NEW t \in Threads, Continue(t)
  PROVE  Inv'
<1>1. CASE Seated(t)
  BY <1>1, SeatedKeeps
<1>2. CASE RefusedSeat(t)
  <2>1. CASE (pc[t] = "seat" \/ (pc[t] = "waiting" /\ kind[t] # "switch")) /\ Leave(t)
    BY <2>1, Ends DEF Lists
  <2>2. CASE pc[t] = "waiting" /\ kind[t] = "switch"
    BY <1>2, <2>2, WaitEnds DEF RefusedSeat
  <2> QED
    BY <1>2, <2>1, <2>2 DEF RefusedSeat
<1>3. CASE FullHouse(t)
  BY <1>3, Ends DEF FullHouse, Lists
<1>4. CASE StartWait(t)
  BY <1>4, StartWaitKeeps
<1>5. CASE GiveUpWaiting(t)
  <2>1. CASE kind[t] = "room" /\ Leave(t)
    BY <2>1, Ends DEF Lists
  <2>2. CASE kind[t] = "switch"
    BY <1>5, <2>2, WaitEnds DEF GiveUpWaiting
  <2> QED
    BY <1>5, <2>1, <2>2 DEF GiveUpWaiting
<1>6. CASE Uncount(t)
  BY <1>6, UncountKeeps
<1>7. CASE Unlist(t)
  BY <1>7, UnlistKeeps
<1>8. CASE EnterGate(t)
  BY <1>8, GoesOn DEF EnterGate, Steady, Places, Seatless
<1>9. CASE Write(t)
  BY <1>9, GoesOn DEF Write, Steady, Places, Seatless
<1>10. CASE EnterHeadGate(t)
  BY <1>10, GoesOn DEF EnterHeadGate, Steady, Places, Seatless
<1>11. CASE WriteHead(t)
  BY <1>11, GoesOn DEF WriteHead, Steady, Places, Seatless
<1>12. CASE Crowded(t)
  BY <1>12, CrowdedKeeps
<1> QED
  BY <1>1, <1>2, <1>3, <1>4, <1>5, <1>6, <1>7, <1>8, <1>9, <1>10, <1>11, <1>12 DEF Continue

\* Every step of the door keeps Inv.
LEMMA NextKeeps == Inv /\ [Next]_vars => Inv'
<1> SUFFICES ASSUME Inv, [Next]_vars PROVE Inv'
  OBVIOUS
<1>0. Driver \in Threads /\ Workers \in SUBSET Threads /\ Room \in Devices
  BY SeatsAssumption DEF Threads, SeatsAssumption
<1>1. ASSUME NEW t \in Workers, NEW d \in Devices, NEW k \in Kinds, Authenticate(t, d, k)
      PROVE  Inv'
  BY <1>0, <1>1, Asks DEF Authenticate
<1>2. CASE StartTurn
  BY <1>0, <1>2, Asks DEF StartTurn, Kinds
<1>3. CASE TurnSalt
  BY <1>0, <1>3, GoesOn DEF TurnSalt, Steady, Places, Seatless
<1>4. CASE TurnWrite
  BY <1>0, <1>4, GoesOn DEF TurnWrite, Steady, Places, Seatless
<1>5. ASSUME NEW t \in Threads, Continue(t)
      PROVE  Inv'
  BY <1>5, ContinueKeeps
<1>6. ASSUME NEW t \in Threads, Finish(t)
      PROVE  Inv'
  BY <1>6, Ends DEF Finish, Lists
<1>7. ASSUME NEW t \in Threads, Cut(t)
      PROVE  Inv'
  BY <1>7, Ends DEF Cut, CheckedPlaces, Lists
<1>8. ASSUME NEW devices \in SUBSET Devices, Swap(devices)
      PROVE  Inv'
  BY <1>8, SwapKeeps
<1>9. CASE UNCHANGED vars
  <2>1. TypeOK'
    BY <1>9 DEF Inv, TypeOK, vars
  <2>5. Placed'
    BY <1>9 DEF Inv, Placed, vars
  <2>6. NeverWritesRevoked'
    BY <1>9 DEF Inv, NeverWritesRevoked, InGate, vars
  <2>2. SeatInv'
    BY <1>9, SeatsUntouched DEF Inv, vars
  <2>3. \A u \in Threads : Counts(u)' = Counts(u) /\ Lists(u)' = Lists(u)
    BY <1>9 DEF Counts, Lists, vars
  <2>4. WaitsBounded'
    BY <1>9, <2>3, WaitsUntouched DEF Inv, vars, waitVars
  <2> QED
    BY <2>1, <2>2, <2>4, <2>5, <2>6 DEF Inv
<1> QED
  BY <1>1, <1>2, <1>3, <1>4, <1>5, <1>6, <1>7, <1>8, <1>9 DEF Next

\* Whatever the threads of the door and the changes of the set do, the seats, the
\* gate and the waits stay in order (slots.rs, proxy.rs): Inv is inductive.
THEOREM Invariance == Spec => []Inv
BY InitKeeps, NextKeeps, PTL DEF Spec

\* The state of the door is always well formed; above all, the lease counts and
\* the count of waiting switches never go below zero (slots.rs `SlotLease::drop`,
\* proxy.rs `SeatWaitGuard::drop`).
THEOREM TypeCorrect == Spec => []TypeOK
BY Invariance, PTL DEF Inv

\* Every slot is assigned to one device, free, or waiting on a revoked lease,
\* whatever leases, evictions and set changes came before (slots.rs `lease`).
THEOREM PartitionHolds == Spec => []SlotPartition
BY Invariance, PTL DEF Inv, SeatInv

\* The lease counts are exact (slots.rs `lease`, `SlotLease::drop`).
THEOREM CountsHold == Spec => []LeasesCounted
BY Invariance, PTL DEF Inv, SeatInv

\* Two requests on one slot are one device's: the isolation the door gives the
\* engine, which would wrap any slot number it is handed (slots.rs).
THEOREM NoSharedSlot == Spec => []OneDevicePerSlot
BY Invariance, PTL DEF Inv, SeatInv

\* The door never writes for a device that has left the set (proxy.rs, the gate).
THEOREM RevocationHolds == Spec => []NeverWritesRevoked
BY Invariance, PTL DEF Inv

\* The wait for a seat is bounded, one switch per device, and its counter never
\* drifts from it (proxy.rs `take_wait_seat`, `SeatWaitGuard`).
THEOREM WaitHolds == Spec => []WaitsBounded
BY Invariance, PTL DEF Inv

\* A set change moves no device it keeps (slots.rs `swap`).
THEOREM SwapKeepsSeatsHolds == Spec => SwapKeepsSeats
<1> DEFINE A == current' # current =>
                  \A d \in current \intersect current' : assigned'[d] = assigned[d]
<1>1. TypeOK /\ [Next]_vars => A
  <2> SUFFICES ASSUME TypeOK, [Next]_vars, current' # current,
                      NEW d \in current \intersect current'
               PROVE  assigned'[d] = assigned[d]
    OBVIOUS
  <2>1. PICK devices \in SUBSET Devices : Swap(devices)
    <3>1. CASE \E t \in Threads : Continue(t)
      BY <3>1 DEF Continue, Seated, Lease, LeaseOwn, LeaseFree, LeaseEvict, Take, RefusedSeat,
                  Crowded, FullHouse, StartWait, GiveUpWaiting, Uncount, Unlist, EnterGate, Write,
                  EnterHeadGate, WriteHead, Leave, DropLease, setVars
    <3>2. CASE \E t \in Threads : Finish(t) \/ Cut(t)
      BY <3>2 DEF Finish, Cut, Leave, DropLease, setVars
    <3>3. CASE \/ \E t \in Workers, e \in Devices, k \in Kinds : Authenticate(t, e, k)
               \/ StartTurn \/ TurnSalt \/ TurnWrite
      BY <3>3 DEF Authenticate, StartTurn, TurnSalt, TurnWrite, setVars
    <3> QED
      BY <3>1, <3>2, <3>3 DEF Next, vars
  <2>2. d \in Devices /\ d \notin Pruned(devices)
    BY <2>1 DEF TypeOK, Swap, Pruned
  <2> QED
    BY <2>1, <2>2 DEF Swap
<1> QED
  BY <1>1, TypeCorrect, PTL DEF Spec, SwapKeepsSeats
=============================================================================
