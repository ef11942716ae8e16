-------------------------- MODULE EngineGateProofs --------------------------
(***************************************************************************)
(* Proofs about EngineGate, for every catalog, every device and any number *)
(* of acts: the gate is neither leaked nor taken from its owner, the chat  *)
(* holds one context at most and nobody frees one in use, the embedder's   *)
(* memory is held, and on a device below the co-residency threshold the    *)
(* chat's context and the embedder never share the memory.                 *)
(***************************************************************************)
EXTENDS EngineGate, SequenceTheorems, TLAPS

-----------------------------------------------------------------------------
(* The invariant.                                                          *)

Record == [at : LoadSteps, model : Models \cup {NoModel}, gen : Nat, token : Nat, ok : BOOLEAN]
Ops == [kind : {"embed", "use", "free", "dispose", "init"}, by : Slots \cup Callers \cup {Switch}]

\* the types the argument needs, with every generation a natural
Typed ==
  /\ chatGen \in Nat /\ appGen \in Nat /\ tokenRef \in Nat
  /\ switch \in [at : {"off", "waiting", "disposing"}, token : Nat]
  /\ fifo \in Seq(Ops) /\ chatMem \in Nat /\ contextHung \in BOOLEAN
  /\ embedHeld \in BOOLEAN /\ emb \in BOOLEAN /\ embMem \in BOOLEAN /\ embHung \in BOOLEAN
  /\ selected \in Models /\ load \in [Slots -> Record]

\* a load without the gate has no token
Tokenless == {"off", "called", "probing", "claiming", "freeing", "reporting", "hopping", "told"}

\* one load: its token is its own and in its time, a model is known while it is on its
\* way, and the current one's token is in the reference
LoadOK(l) ==
  /\ load[l].gen <= appGen /\ load[l].token <= chatGen
  /\ load[l].at \in Tokenless => load[l].token = 0
  /\ load[l].at \notin {"off", "told"} => load[l].model \in Models
  /\ load[l].token # 0 /\ load[l].token = chatGen /\ load[l].gen = appGen => tokenRef = chatGen
  /\ \A k \in Slots \ {l} : load[l].token # 0 => load[k].token # load[l].token

Owned ==
  /\ \A l \in Slots : LoadOK(l)
  /\ tokenRef <= chatGen /\ switch.token <= chatGen
  /\ ChatHolds => chatGen # 0
  /\ LoadingIsSomeones /\ GateIsOwned

\* the turn's load is there while the turn waits for it
TurnLoads == turn \notin {"ensure", "again"} => load[Turn].at = "off"

\* the first operation is the one at work; a native load belongs to a load that waits
Lined ==
  /\ stage # "queued" => Len(fifo) > 0
  /\ stage = "starting" => fifo[1].kind = "embed"
  /\ stage = "closing" => fifo[1].kind = "free"
  /\ stage \in {"waiting", "draining", "loading", "opening", "undoing"} =>
       fifo[1].kind \in {"dispose", "init"}
  /\ \A i \in 1 .. Len(fifo) : fifo[i].kind = "init" =>
       fifo[i].by \in Slots /\ load[fifo[i].by].at = "initing"

\* the chat's memory: the context's, or the one that is going or coming
Counted ==
  /\ stage \in {"waiting", "draining", "loading", "undoing"} => context = NoModel
  /\ stage = "opening" => context # NoModel
  /\ contextHung => /\ context = NoModel /\ stage \notin {"waiting", "loading", "undoing"}
                    /\ chatMem <= 1
  /\ ~contextHung =>
       chatMem = IF context # NoModel \/ stage \in {"waiting", "loading", "undoing"} THEN 1 ELSE 0
  /\ Running => chatMem > 0
  /\ stage = "loading" => ~Running

\* the embedder's memory
Embedded ==
  /\ EmbedderIsHeld
  /\ embMem => emb \/ embHung \/ stage = "starting"

EngineInv == Typed /\ Owned /\ TurnLoads /\ Lined /\ Counted /\ Embedded

-----------------------------------------------------------------------------
(* The start.                                                              *)

LEMMA NoLoadFacts ==
  /\ NoLoad \in Record /\ NoLoad.at = "off" /\ NoLoad.model = NoModel /\ NoLoad.gen = 0
  /\ NoLoad.token = 0 /\ NoLoad.ok = FALSE
  BY DEF NoLoad, Record, LoadSteps

LEMMA CalledFacts ==
  ASSUME NEW m \in Models
  PROVE  /\ Called(m) \in Record /\ Called(m).at = "called" /\ Called(m).model = m
         /\ Called(m).gen = 0 /\ Called(m).token = 0
  BY DEF Called, NoLoad, Record, LoadSteps

LEMMA EndedFacts ==
  ASSUME NEW l \in Slots, NEW ok \in BOOLEAN
  PROVE  /\ Ended(l, ok) \in Record /\ Ended(l, ok).at \in {"off", "told"}
         /\ Ended(l, ok).gen = 0 /\ Ended(l, ok).token = 0
         /\ l # Turn => Ended(l, ok).at = "off"
  BY DEF Ended, NoLoad, Record, LoadSteps

LEMMA InitHolds == EngineInit => EngineInv
  <1> SUFFICES ASSUME EngineInit PROVE EngineInv
    OBVIOUS
  <1>1. Boot /\ acts = 0
    BY DEF EngineInit
  <1>2. \A l \in Slots : load[l] = NoLoad
    BY <1>1 DEF Boot
  <1>3. Typed
    <2>1. load \in [Slots -> Record]
      BY <1>1, NoLoadFacts DEF Boot
    <2>2. fifo \in Seq(Ops)
      BY <1>1 DEF Boot
    <2> QED  BY <1>1, <2>1, <2>2 DEF Boot, Typed
  <1>4. Owned
    BY <1>1, <1>2, NoLoadFacts DEF Boot, Owned, LoadOK, ChatHolds, LoadingIsSomeones, GateIsOwned
  <1>5. TurnLoads
    BY <1>2, NoLoadFacts DEF TurnLoads, Slots, Turn
  <1>6. Lined /\ Counted /\ Embedded
    BY <1>1 DEF Boot, Lined, Counted, Embedded, EmbedderIsHeld, Running
  <1> QED  BY <1>3, <1>4, <1>5, <1>6 DEF EngineInv

-----------------------------------------------------------------------------
(* What a step does to the gate and its owners.                            *)

\* the chat's place is as it was
GateStays == gate' = gate \/ (~ChatHolds /\ ~ChatHolds')

\* a load that moves without touching its token
Steady(l) ==
  /\ load'[l].token = load[l].token /\ load'[l].gen <= appGen
  /\ load'[l].token = 0 \/ load'[l].gen = load[l].gen
  /\ load'[l].at \in Tokenless => load'[l].token = 0
  /\ load'[l].at \notin {"off", "told"} => load'[l].model \in Models

\* who gives the place back, as OwnerFrees has it
OwnerStep ==
  ChatHolds /\ ~ChatHolds' =>
       \/ \E l \in Slots : load[l].token = chatGen /\ load'[l] # load[l]
       \/ switch.at # "off" /\ switch.token = chatGen /\ switch' # switch

(* Loads move, and everything about the gate stays. *)
LEMMA OwnedStays ==
  ASSUME Typed, Owned, Typed', GateStays, \A l \in Slots : Steady(l),
         chatGen' = chatGen, appGen' = appGen, tokenRef' = tokenRef, switch' = switch
  PROVE  Owned' /\ OwnerStep
  <1>1. \A l \in Slots : LoadOK(l)'
    BY DEF Typed, Owned, LoadOK, Steady, Record
  <1>2. (ChatHolds => chatGen # 0)' /\ OwnerStep
    BY DEF Owned, GateStays, ChatHolds, OwnerStep
  <1>3. LoadingIsSomeones' /\ GateIsOwned'
    BY DEF Owned, GateStays, ChatHolds, Steady, LoadingIsSomeones, GateIsOwned
  <1> QED  BY <1>1, <1>2, <1>3 DEF Owned

(* Nothing about the gate changes. *)
LEMMA OwnedUntouched ==
  ASSUME Typed, Owned, Typed', GateStays, load' = load,
         chatGen' = chatGen, appGen' = appGen, tokenRef' = tokenRef, switch' = switch
  PROVE  Owned' /\ OwnerStep
  <1>1. \A l \in Slots : Steady(l)
    BY DEF Typed, Owned, LoadOK, Steady, Record
  <1> QED  BY <1>1, OwnedStays

\* a load's place is given back by its token
PlaceGiven(token) ==
  IF token = chatGen /\ ChatHolds THEN ~ChatHolds' ELSE GateStays

(* A load gives its place back: the gate, the reference and the token together. *)
LEMMA OwnedGiven ==
  ASSUME Typed, Owned, Typed', NEW l \in Slots, PlaceGiven(load[l].token),
         \A k \in Slots \ {l} : load'[k] = load[k],
         load'[l].token = 0, load'[l].gen <= appGen,
         load'[l].at \notin {"off", "told"} => load'[l].model \in Models,
         chatGen' = chatGen, appGen' = appGen, switch' = switch,
         tokenRef' = Unreferenced(load[l].token)
  PROVE  Owned' /\ OwnerStep
  <1>1. \A k \in Slots : LoadOK(k)'
    <2> SUFFICES ASSUME NEW k \in Slots PROVE LoadOK(k)'
      OBVIOUS
    <2>1. CASE k = l
      BY <2>1 DEF Typed, Owned, LoadOK, Record
    <2>2. CASE k # l
      <3>1. load'[k] = load[k] /\ LoadOK(k)
        BY <2>2 DEF Owned
      <3>2. load[k].token # 0 => load[k].token # load[l].token
        BY <2>2, <3>1 DEF LoadOK
      <3> QED  BY <2>2, <3>1, <3>2 DEF Typed, LoadOK, Record, Unreferenced
    <2> QED  BY <2>1, <2>2
  <1>2. (ChatHolds => chatGen # 0)' /\ tokenRef' <= chatGen'
    BY DEF Owned, PlaceGiven, GateStays, ChatHolds, Unreferenced, Typed
  <1>3. OwnerStep
    <2> SUFFICES ASSUME ChatHolds, ~ChatHolds' PROVE OwnerStep
      BY DEF OwnerStep
    <2>1. load[l].token = chatGen /\ chatGen # 0
      BY DEF PlaceGiven, GateStays, ChatHolds, Owned
    <2>2. load'[l] # load[l]
      BY <2>1
    <2> QED  BY <2>1, <2>2 DEF OwnerStep
  <1>4. LoadingIsSomeones' /\ GateIsOwned'
    <2> SUFFICES ASSUME ChatHolds' PROVE LoadingIsSomeones' /\ GateIsOwned'
      BY DEF LoadingIsSomeones, GateIsOwned, ChatHolds
    <2>1. ChatHolds /\ gate' = gate /\ load[l].token # chatGen
      BY DEF PlaceGiven, GateStays, ChatHolds
    <2> QED
      BY <2>1 DEF Owned, LoadingIsSomeones, GateIsOwned, Unreferenced, ChatHolds
  <1> QED  BY <1>1, <1>2, <1>3, <1>4 DEF Owned

(* A load takes the place: a new token, in the record and in the reference. *)
LEMMA OwnedTaken ==
  ASSUME Typed, Owned, Typed', NEW l \in Slots, Claims(l), load[l].model \in Models,
         ~ChatHolds, appGen' = appGen, switch' = switch
  PROVE  Owned' /\ OwnerStep
  <1>1. /\ load'[l].token = chatGen + 1 /\ load'[l].at = "gating"
        /\ load'[l].gen = load[l].gen /\ load'[l].model = load[l].model
        /\ \A k \in Slots \ {l} : load'[k] = load[k]
    BY DEF Claims, Typed, Record
  <1>2. gate' = "chat_loading" /\ chatGen' = chatGen + 1 /\ tokenRef' = chatGen + 1
    BY DEF Claims, tryAcquireChat
  <1>3. \A k \in Slots : LoadOK(k)'
    <2> SUFFICES ASSUME NEW k \in Slots PROVE LoadOK(k)'
      OBVIOUS
    <2>1. /\ chatGen \in Nat
          /\ \A j \in Slots : LoadOK(j) /\ load[j].token \in Nat /\ load[j].gen \in Nat
      BY DEF Owned, Typed, Record
    <2>2. CASE k = l
      BY <1>1, <1>2, <2>1, <2>2 DEF LoadOK, Tokenless
    <2>3. CASE k # l
      BY <1>1, <1>2, <2>1, <2>3 DEF LoadOK
    <2> QED  BY <2>2, <2>3
  <1>4. LoadingIsSomeones' /\ GateIsOwned' /\ OwnerStep
    BY <1>1, <1>2 DEF LoadingIsSomeones, GateIsOwned, OwnerStep
  <1>5. (ChatHolds => chatGen # 0)' /\ tokenRef' <= chatGen' /\ switch'.token <= chatGen'
    BY <1>2 DEF Typed, Owned
  <1> QED  BY <1>3, <1>4, <1>5 DEF Owned

-----------------------------------------------------------------------------
(* What a step does to the line of native operations.                      *)

\* a load whose native load is in the line waits for it
StillWaits ==
  \A k \in Slots : load[k].at = "initing" /\ Pending("init", k) => load'[k].at = "initing"

LEMMA OpFacts ==
  ASSUME NEW kind \in {"embed", "use", "free", "dispose", "init"},
         NEW by \in Slots \cup Callers \cup {Switch}
  PROVE  Op(kind, by) \in Ops /\ Op(kind, by).kind = kind /\ Op(kind, by).by = by
  BY DEF Op, Ops

LEMMA LinedStays ==
  ASSUME Typed, Lined, fifo' = fifo, stage' = stage, StillWaits
  PROVE  Lined'
  <1> SUFFICES ASSUME NEW i \in 1 .. Len(fifo), fifo[i].kind = "init"
               PROVE  load'[fifo[i].by].at = "initing"
    BY DEF Lined
  <1>1. fifo[i].by \in Slots /\ load[fifo[i].by].at = "initing"
    BY DEF Lined
  <1>2. fifo[i] \in Ops /\ i \in DOMAIN fifo
    BY DEF Typed
  <1>3. fifo[i] = Op("init", fifo[i].by)
    BY <1>2 DEF Op, Ops
  <1> QED  BY <1>1, <1>2, <1>3 DEF StillWaits, Pending

LEMMA LinedGrows ==
  ASSUME Typed, Lined,
         NEW kind \in {"embed", "use", "free", "dispose", "init"},
         NEW by \in Slots \cup Callers \cup {Switch}, Submit(kind, by),
         \A k \in Slots : load[k].at = "initing" => load'[k].at = "initing",
         kind = "init" => by \in Slots /\ load'[by].at = "initing"
  PROVE  fifo' \in Seq(Ops) /\ Lined'
  <1>1. /\ Op(kind, by) \in Ops /\ Op(kind, by).kind = kind /\ Op(kind, by).by = by
    BY OpFacts
  <1>2. /\ fifo' = Append(fifo, Op(kind, by)) /\ stage' = stage /\ fifo \in Seq(Ops)
    BY DEF Submit, Typed
  <1>3. /\ fifo' \in Seq(Ops) /\ Len(fifo') = Len(fifo) + 1 /\ Len(fifo) \in Nat
        /\ fifo'[Len(fifo) + 1] = Op(kind, by)
        /\ \A i \in 1 .. Len(fifo) : fifo'[i] = fifo[i]
    BY <1>1, <1>2, AppendProperties
  <1>4. stage # "queued" => Len(fifo) > 0 /\ fifo'[1] = fifo[1]
    BY <1>3 DEF Lined
  <1>5. \A i \in 1 .. Len(fifo') : fifo'[i].kind = "init" =>
          fifo'[i].by \in Slots /\ load'[fifo'[i].by].at = "initing"
    BY <1>1, <1>3 DEF Lined
  <1> QED  BY <1>2, <1>3, <1>4, <1>5 DEF Lined

LEMMA LinedShrinks ==
  ASSUME Typed, Lined, fifo # <<>>, Settle,
         \A k \in Slots : load[k].at = "initing" => load'[k].at = "initing"
  PROVE  fifo' \in Seq(Ops) /\ Lined'
  <1>1. fifo' = Tail(fifo) /\ stage' = "queued" /\ fifo \in Seq(Ops)
    BY DEF Settle, Typed
  <1>2. /\ fifo' \in Seq(Ops) /\ Len(fifo') = Len(fifo) - 1 /\ Len(fifo) \in Nat
        /\ \A i \in 1 .. Len(fifo') : fifo'[i] = fifo[i + 1]
    BY <1>1, HeadTailProperties
  <1>3. \A i \in 1 .. Len(fifo') : fifo'[i].kind = "init" =>
          fifo'[i].by \in Slots /\ load'[fifo'[i].by].at = "initing"
    BY <1>2 DEF Lined
  <1> QED  BY <1>1, <1>2, <1>3 DEF Lined

LEMMA LinedGranted ==
  ASSUME Typed, Lined, fifo # <<>>, NEW q \in Callers, Granted(q), load' = load
  PROVE  fifo' \in Seq(Ops) /\ Lined' /\ stage' = "queued"
  <1>1. /\ Op("use", q) \in Ops /\ Op("use", q).kind = "use"
    BY OpFacts
  <1>2. fifo' = Append(Tail(fifo), Op("use", q)) /\ stage' = "queued" /\ fifo \in Seq(Ops)
    BY DEF Granted, Typed
  <1>3. /\ Tail(fifo) \in Seq(Ops) /\ Len(Tail(fifo)) = Len(fifo) - 1 /\ Len(fifo) \in Nat
        /\ \A i \in 1 .. Len(Tail(fifo)) : Tail(fifo)[i] = fifo[i + 1]
    BY <1>2, HeadTailProperties
  <1>4. /\ fifo' \in Seq(Ops) /\ Len(fifo') = Len(fifo)
        /\ fifo'[Len(fifo)] = Op("use", q)
        /\ \A i \in 1 .. Len(fifo) - 1 : fifo'[i] = fifo[i + 1]
    BY <1>1, <1>2, <1>3, AppendProperties
  <1>5. \A i \in 1 .. Len(fifo') : fifo'[i].kind = "init" =>
          fifo'[i].by \in Slots /\ load'[fifo'[i].by].at = "initing"
    BY <1>1, <1>4 DEF Lined
  <1> QED  BY <1>2, <1>4, <1>5 DEF Lined

\* the first operation goes on to its next step
LEMMA LinedGoesOn ==
  ASSUME Typed, Lined, fifo # <<>>, fifo' = fifo, load' = load,
         \/ stage' = "starting" /\ fifo[1].kind = "embed"
         \/ stage' = "closing" /\ fifo[1].kind = "free"
         \/ /\ stage' \in {"waiting", "draining", "loading", "opening", "undoing"}
            /\ fifo[1].kind \in {"dispose", "init"}
  PROVE  Lined'
  <1>1. Len(fifo) > 0
    BY DEF Typed
  <1> QED  BY <1>1 DEF Lined

-----------------------------------------------------------------------------
(* What every step of a load leaves alone.                                 *)

Moves(l) ==
  load' \in [Slots -> Record] /\ \A k \in Slots \ {l} : load'[k] = load[k]

\* the embedder is as it was, or it was given up
EmbedderKept == UNCHANGED <<emb, embHung, embedHeld>> \/ embHung' = TRUE

LoadFrame ==
  /\ UNCHANGED <<stage, chatVars, turn, embMem, switch, appGen>> /\ EmbedderKept
  /\ emb' \in BOOLEAN /\ embHung' \in BOOLEAN /\ embedHeld' \in BOOLEAN

LEMMA GoesFacts ==
  ASSUME Typed, NEW l \in Slots, NEW at \in LoadSteps, Goes(l, at)
  PROVE  /\ Moves(l) /\ load'[l].at = at /\ load'[l].model = load[l].model
         /\ load'[l].gen = load[l].gen /\ load'[l].token = load[l].token
  BY DEF Typed, Goes, Moves, Record

LEMMA EndsFacts ==
  ASSUME Typed, NEW l \in Slots, NEW ok \in BOOLEAN, Ends(l, ok)
  PROVE  /\ Moves(l) /\ load'[l].at \in {"off", "told"} /\ load'[l].token = 0
         /\ load'[l].gen = 0
  BY EndedFacts DEF Typed, Ends, Moves

LEMMA FrameKeeps ==
  ASSUME EngineInv, LoadFrame, load[Turn].at = "off" => load'[Turn].at = "off"
  PROVE  TurnLoads' /\ Counted' /\ Embedded'
  <1>1. TurnLoads'
    BY DEF EngineInv, TurnLoads, LoadFrame
  <1>2. Counted'
    BY DEF EngineInv, Counted, LoadFrame, chatVars, Running
  <1>3. Embedded'
    BY DEF EngineInv, Typed, Embedded, EmbedderIsHeld, LoadFrame, EmbedderKept
  <1> QED  BY <1>1, <1>2, <1>3

LEMMA LoadTyped ==
  ASSUME Typed, NEW l \in Slots, Moves(l), LoadFrame, fifo' \in Seq(Ops), chatGen' \in Nat,
         tokenRef' \in Nat, selected' \in Models
  PROVE  Typed'
  BY DEF Typed, Moves, LoadFrame, chatVars

(* A load that moves on, or ends, without its token or its place being touched. *)
LEMMA QuietLoad ==
  ASSUME EngineInv, NEW l \in Slots, load[l].at # "off", Moves(l), Steady(l), LoadFrame,
         fifo' \in Seq(Ops), Lined', GateStays, chatGen' = chatGen, tokenRef' = tokenRef,
         selected' = selected
  PROVE  EngineInv' /\ OwnerStep
  <1>1. Typed'
    BY LoadTyped DEF EngineInv, Typed
  <1>2. \A k \in Slots : Steady(k)
    BY DEF EngineInv, Typed, Owned, LoadOK, Steady, Moves, Record
  <1>3. Owned' /\ OwnerStep
    BY <1>1, <1>2, OwnedStays DEF EngineInv, LoadFrame
  <1>4. load[Turn].at = "off" => load'[Turn].at = "off"
    BY DEF Moves, Slots
  <1> QED  BY <1>1, <1>3, <1>4, FrameKeeps DEF EngineInv

(* A load that gives its place back. *)
LEMMA GivingLoad ==
  ASSUME EngineInv, NEW l \in Slots, load[l].at # "off", Moves(l), LoadFrame,
         PlaceGiven(load[l].token), tokenRef' = Unreferenced(load[l].token),
         load'[l].token = 0, load'[l].gen <= appGen,
         load'[l].at \notin {"off", "told"} => load'[l].model \in Models,
         fifo' \in Seq(Ops), Lined', chatGen' = chatGen, selected' = selected
  PROVE  EngineInv' /\ OwnerStep
  <1>1. Typed'
    BY LoadTyped DEF EngineInv, Typed, Unreferenced
  <1>2. Owned' /\ OwnerStep
    BY <1>1, OwnedGiven DEF EngineInv, LoadFrame, Moves
  <1>3. load[Turn].at = "off" => load'[Turn].at = "off"
    BY DEF Moves, Slots
  <1> QED  BY <1>1, <1>2, <1>3, FrameKeeps DEF EngineInv

LEMMA ClaimFacts ==
  ASSUME Typed, NEW l \in Slots, Claims(l)
  PROVE  /\ Moves(l) /\ load'[l].at = "gating" /\ chatGen' \in Nat /\ tokenRef' \in Nat
  <1>1. chatGen + 1 \in Nat /\ load \in [Slots -> Record] /\ "gating" \in LoadSteps
    BY DEF Typed, LoadSteps
  <1>2. chatGen' = chatGen + 1 /\ tokenRef' = chatGen + 1
    BY DEF Claims, tryAcquireChat
  <1>3. [load[l] EXCEPT !.at = "gating", !.token = chatGen + 1] \in Record
    BY <1>1 DEF Record
  <1>4. load' = [load EXCEPT ![l] = [load[l] EXCEPT !.at = "gating", !.token = chatGen + 1]]
    BY <1>1 DEF Claims, Record
  <1>5. Moves(l) /\ load'[l].at = "gating"
    BY <1>1, <1>3, <1>4 DEF Moves, Record
  <1> QED  BY <1>1, <1>2, <1>5

(* A load that takes the place. *)
LEMMA TakingLoad ==
  ASSUME EngineInv, NEW l \in Slots, load[l].at # "off", load[l].at # "told", Claims(l),
         LoadFrame, ~ChatHolds, fifo' \in Seq(Ops), Lined', selected' = selected
  PROVE  EngineInv' /\ OwnerStep
  <1>1. Moves(l) /\ chatGen' \in Nat /\ tokenRef' \in Nat
    BY ClaimFacts DEF EngineInv
  <1>2. Typed'
    BY <1>1, LoadTyped DEF EngineInv, Typed
  <1>3. load[l].model \in Models
    BY DEF EngineInv, Owned, LoadOK
  <1>4. Owned' /\ OwnerStep
    BY <1>2, <1>3, OwnedTaken DEF EngineInv, LoadFrame
  <1>5. load[Turn].at = "off" => load'[Turn].at = "off"
    BY <1>1 DEF Moves, Slots
  <1> QED  BY <1>2, <1>4, <1>5, FrameKeeps DEF EngineInv

(* The gate's own operations, as the lemmas above want them. *)
LEMMA GivenBack ==
  ASSUME Typed, NEW token, markChatReleased(token)
  PROVE  PlaceGiven(token) /\ chatGen' = chatGen /\ embedHeld' = embedHeld
  BY DEF markChatReleased, Released, PlaceGiven, GateStays, ChatHolds

LEMMA EmbedReleased ==
  ASSUME releaseEmbed
  PROVE  GateStays /\ chatGen' = chatGen /\ embedHeld' = FALSE
  BY DEF releaseEmbed, EmbedFreed, GateStays, ChatHolds

LEMMA EmbedTaken ==
  ASSUME tryAcquireEmbed
  PROVE  GateStays /\ chatGen' = chatGen /\ embedHeld' = TRUE
  BY DEF tryAcquireEmbed, GateStays, ChatHolds

-----------------------------------------------------------------------------
(* The steps of a load.                                                    *)

LEMMA LoadOpensKeeps ==
  ASSUME EngineInv, NEW l \in Slots, LoadOpens(l)
  PROVE  EngineInv' /\ OwnerStep
  <1>1. /\ load[l].at = "called" /\ load[l].token = 0 /\ load[l].model \in Models
    BY DEF EngineInv, Owned, LoadOK, Tokenless, LoadOpens, At
  <1>2. /\ Moves(l) /\ load'[l].token = 0 /\ load'[l].gen <= appGen
        /\ load'[l].at \in {"off", "told", "probing"}
        /\ load'[l].at = "probing" => load'[l].model = load[l].model
    <2>1. CASE \E ok \in BOOLEAN : Ends(l, ok)
      <3>1. /\ Moves(l) /\ load'[l].at \in {"off", "told"} /\ load'[l].token = 0
            /\ load'[l].gen = 0
        BY <2>1, EndsFacts DEF EngineInv
      <3> QED  BY <3>1 DEF EngineInv, Typed
    <2>2. CASE load' = [load EXCEPT ![l].at = "probing", ![l].gen = appGen]
      <3>1. load \in [Slots -> Record] /\ appGen \in Nat /\ "probing" \in LoadSteps
        BY DEF EngineInv, Typed, LoadSteps
      <3>2. [load[l] EXCEPT !.at = "probing", !.gen = appGen] \in Record
        BY <3>1 DEF Record
      <3>3. load' = [load EXCEPT ![l] = [load[l] EXCEPT !.at = "probing", !.gen = appGen]]
        BY <2>2, <3>1 DEF Record
      <3> QED  BY <1>1, <3>1, <3>2, <3>3 DEF Moves, Record
    <2> QED  BY <2>1, <2>2 DEF LoadOpens
  <1>3. LoadFrame /\ GateStays /\ UNCHANGED <<fifo, chatGen, tokenRef, selected>>
    BY DEF EngineInv, Typed, LoadOpens, LoadFrame, EmbedderKept, GateStays, gateVars, fifoVars,
           chatVars, embVars, pickVars, turnVars
  <1>4. Steady(l)
    BY <1>1, <1>2 DEF Steady
  <1>5. Lined'
    <2>1. StillWaits
      BY <1>1, <1>2 DEF StillWaits, Moves
    <2> QED  BY <1>3, <2>1, LinedStays DEF EngineInv, LoadFrame
  <1> QED  BY <1>1, <1>2, <1>3, <1>4, <1>5, QuietLoad DEF EngineInv, Typed

LEMMA LoadProbedKeeps ==
  ASSUME EngineInv, NEW l \in Slots, LoadProbed(l)
  PROVE  EngineInv' /\ OwnerStep
  <1>1. /\ load[l].at = "probing" /\ load[l].token = 0 /\ load[l].model \in Models
        /\ load[l].gen <= appGen
    BY DEF EngineInv, Owned, LoadOK, Tokenless, LoadProbed, At
  <1>2. /\ Moves(l) /\ load'[l].token = 0 /\ load'[l].gen <= appGen
        /\ load'[l].at \in {"off", "told", "claiming"}
        /\ load'[l].at = "claiming" => load'[l].model = load[l].model
    <2>1. CASE Ends(l, FALSE)
      <3>1. /\ Moves(l) /\ load'[l].at \in {"off", "told"} /\ load'[l].token = 0
            /\ load'[l].gen = 0
        BY <2>1, EndsFacts DEF EngineInv
      <3> QED  BY <3>1 DEF EngineInv, Typed
    <2>2. CASE Goes(l, "claiming")
      BY <1>1, <2>2, GoesFacts DEF EngineInv, LoadSteps
    <2> QED  BY <2>1, <2>2 DEF LoadProbed
  <1>3. LoadFrame /\ GateStays /\ UNCHANGED <<fifo, chatGen, tokenRef, selected>>
    BY DEF EngineInv, Typed, LoadProbed, LoadFrame, EmbedderKept, GateStays, fifoVars,
           chatVars, embVars, pickVars, turnVars
  <1>4. Steady(l)
    BY <1>1, <1>2 DEF Steady
  <1>5. Lined'
    <2>1. StillWaits
      BY <1>1, <1>2 DEF StillWaits, Moves
    <2> QED  BY <1>3, <2>1, LinedStays DEF EngineInv, LoadFrame
  <1> QED  BY <1>1, <1>2, <1>3, <1>4, <1>5, QuietLoad DEF EngineInv, Typed

LEMMA LoadClaimsKeeps ==
  ASSUME EngineInv, NEW l \in Slots, LoadClaims(l)
  PROVE  EngineInv' /\ OwnerStep
  <1>1. /\ load[l].at = "claiming" /\ load[l].token = 0 /\ load[l].model \in Models
        /\ load[l].gen <= appGen
    BY DEF EngineInv, Owned, LoadOK, Tokenless, LoadClaims, At
  <1>2. /\ UNCHANGED <<chatVars, embVars, turn, switch, appGen, selected>>
    BY DEF LoadClaims, pickVars, turnVars
  <1>3. CASE /\ Claims(l) /\ UNCHANGED fifoVars
             /\ MayAcquireChat(load[l].model \in Small)
    <2>1. LoadFrame /\ ~ChatHolds
      BY <1>2, <1>3 DEF EngineInv, Typed, Claims, tryAcquireChat, MayAcquireChat, ChatHolds,
           LoadFrame, EmbedderKept, embVars, fifoVars
    <2>2. Moves(l) /\ load'[l].at = "gating"
      BY <1>3, ClaimFacts DEF EngineInv
    <2>3. Lined'
      <3>1. StillWaits
        BY <1>1, <2>2 DEF StillWaits, Moves
      <3> QED  BY <1>3, <3>1, LinedStays DEF EngineInv, fifoVars
    <2> QED  BY <1>1, <1>2, <1>3, <2>1, <2>3, TakingLoad DEF EngineInv, Typed, fifoVars
  <1>4. CASE Ends(l, FALSE) /\ UNCHANGED <<gate, embedHeld, chatGen, tokenRef, fifoVars>>
    <2>1. /\ Moves(l) /\ load'[l].token = 0 /\ load'[l].gen = 0
          /\ load'[l].at \in {"off", "told"}
      BY <1>4, EndsFacts DEF EngineInv
    <2>2. LoadFrame /\ GateStays /\ Steady(l)
      BY <1>1, <1>2, <1>4, <2>1 DEF EngineInv, Typed, LoadFrame, EmbedderKept, GateStays, embVars,
           fifoVars, Steady
    <2>3. Lined'
      <3>1. StillWaits
        BY <1>1, <2>1 DEF StillWaits, Moves
      <3> QED  BY <1>4, <3>1, LinedStays DEF EngineInv, fifoVars
    <2> QED  BY <1>1, <1>2, <1>4, <2>1, <2>2, <2>3, QuietLoad DEF EngineInv, Typed, fifoVars
  <1>5. CASE /\ Submit("free", l) /\ Goes(l, "freeing")
             /\ UNCHANGED <<gate, embedHeld, chatGen, tokenRef>>
    <2>1. /\ Moves(l) /\ load'[l].token = 0 /\ load'[l].gen = load[l].gen
          /\ load'[l].at = "freeing" /\ load'[l].model = load[l].model
      BY <1>1, <1>5, GoesFacts DEF EngineInv, LoadSteps
    <2>2. LoadFrame /\ GateStays /\ Steady(l)
      BY <1>1, <1>2, <1>5, <2>1 DEF EngineInv, Typed, LoadFrame, EmbedderKept, GateStays, embVars,
           Submit, Steady
    <2>3. fifo' \in Seq(Ops) /\ Lined'
      <3>1. \A k \in Slots : load[k].at = "initing" => load'[k].at = "initing"
        BY <1>1, <2>1 DEF Moves
      <3> QED  BY <1>5, <3>1, LinedGrows DEF EngineInv
    <2> QED  BY <1>1, <1>2, <1>5, <2>1, <2>2, <2>3, QuietLoad DEF EngineInv
  <1> QED  BY <1>3, <1>4, <1>5 DEF LoadClaims

-----------------------------------------------------------------------------
(* The ways a load goes on, and the ways it ends.                          *)

LEMMA QuietGo ==
  ASSUME EngineInv, NEW l \in Slots, load[l].at \notin {"off", "told", "initing"},
         NEW at \in LoadSteps \ {"off", "told"}, at \in Tokenless => load[l].token = 0,
         Goes(l, at), LoadFrame, UNCHANGED <<gate, fifo, chatGen, tokenRef, selected>>
  PROVE  EngineInv' /\ OwnerStep
  <1>1. /\ Moves(l) /\ load'[l].at = at /\ load'[l].model = load[l].model
        /\ load'[l].gen = load[l].gen /\ load'[l].token = load[l].token
    BY GoesFacts DEF EngineInv
  <1>2. load[l].gen <= appGen /\ load[l].model \in Models
    BY DEF EngineInv, Owned, LoadOK
  <1>3. Steady(l) /\ GateStays
    BY <1>1, <1>2 DEF Steady, GateStays
  <1>4. StillWaits
    BY <1>1 DEF StillWaits, Moves
  <1>5. Lined'
    BY <1>4, LinedStays DEF EngineInv, LoadFrame
  <1> QED  BY <1>1, <1>3, <1>5, QuietLoad DEF EngineInv, Typed

LEMMA QuietEnd ==
  ASSUME EngineInv, NEW l \in Slots, load[l].at \notin {"off", "initing"}, load[l].token = 0,
         NEW ok \in BOOLEAN, Ends(l, ok), LoadFrame, GateStays,
         UNCHANGED <<fifo, chatGen, tokenRef, selected>>
  PROVE  EngineInv' /\ OwnerStep
  <1>1. /\ Moves(l) /\ load'[l].at \in {"off", "told"} /\ load'[l].token = 0
        /\ load'[l].gen = 0
    BY EndsFacts DEF EngineInv
  <1>2. Steady(l)
    BY <1>1 DEF EngineInv, Typed, Steady
  <1>3. StillWaits
    BY <1>1 DEF StillWaits, Moves
  <1>4. Lined'
    BY <1>3, LinedStays DEF EngineInv, LoadFrame
  <1> QED  BY <1>1, <1>2, <1>4, QuietLoad DEF EngineInv, Typed

LEMMA GivingEnd ==
  ASSUME EngineInv, NEW l \in Slots, load[l].at # "off",
         load[l].at = "initing" => ~Pending("init", l),
         NEW ok \in BOOLEAN, Ends(l, ok), LoadFrame, PlaceGiven(load[l].token),
         tokenRef' = Unreferenced(load[l].token), UNCHANGED <<fifo, chatGen, selected>>
  PROVE  EngineInv' /\ OwnerStep
  <1>1. /\ Moves(l) /\ load'[l].at \in {"off", "told"} /\ load'[l].token = 0
        /\ load'[l].gen = 0
    BY EndsFacts DEF EngineInv
  <1>2. load'[l].gen <= appGen
    BY <1>1 DEF EngineInv, Typed
  <1>3. StillWaits
    BY <1>1 DEF StillWaits, Moves
  <1>4. Lined'
    BY <1>3, LinedStays DEF EngineInv, LoadFrame
  <1>5. fifo' \in Seq(Ops)
    BY DEF EngineInv, Typed
  <1> QED  BY <1>1, <1>2, <1>4, <1>5, GivingLoad

LEMMA AbandonKeeps ==
  ASSUME EngineInv, NEW l \in Slots, load[l].at # "off",
         load[l].at = "initing" => ~Pending("init", l), NEW ok \in BOOLEAN,
         GivesBack(l), Ends(l, ok),
         UNCHANGED <<stage, chatVars, turn, switch, appGen, embVars, fifo, selected>>
  PROVE  EngineInv' /\ OwnerStep
  <1>1. PlaceGiven(load[l].token) /\ chatGen' = chatGen /\ embedHeld' = embedHeld
    BY GivenBack DEF GivesBack, EngineInv
  <1>2. LoadFrame
    BY <1>1 DEF EngineInv, Typed, LoadFrame, EmbedderKept, embVars
  <1>3. tokenRef' = Unreferenced(load[l].token)
    BY DEF GivesBack
  <1> QED  BY <1>1, <1>2, <1>3, GivingEnd

LEMMA GivesUpKeeps ==
  ASSUME EngineInv, NEW l \in Slots, load[l].at \notin {"off", "initing"}, GivesUp(l),
         UNCHANGED <<stage, chatVars, turn, switch, appGen, fifo, selected>>
  PROVE  EngineInv' /\ OwnerStep
  <1>1. PlaceGiven(load[l].token) /\ chatGen' = chatGen
    BY DEF GivesUp, PlaceGiven, GateStays, ChatHolds, EmbedFreed
  <1>2. LoadFrame
    BY DEF GivesUp, LoadFrame, EmbedderKept, markEmbedderHung
  <1>3. tokenRef' = Unreferenced(load[l].token) /\ Ends(l, FALSE)
    BY DEF GivesUp
  <1> QED  BY <1>1, <1>2, <1>3, GivingEnd

LEMMA LoadReclaimsKeeps ==
  ASSUME EngineInv, NEW l \in Slots, LoadReclaims(l)
  PROVE  EngineInv' /\ OwnerStep
  <1>1. load[l].at = "freeing" /\ load[l].token = 0
    BY DEF EngineInv, Owned, LoadOK, Tokenless, LoadReclaims, At
  <1>2. UNCHANGED <<fifo, stage, chatVars, turn, switch, appGen, selected>>
    BY DEF LoadReclaims, fifoVars, pickVars, turnVars
  <1>3. CASE MayAcquireChat(is2B) /\ Claims(l) /\ UNCHANGED embVars
    <2>1. LoadFrame /\ ~ChatHolds
      BY <1>2, <1>3 DEF EngineInv, Typed, Claims, tryAcquireChat, MayAcquireChat, ChatHolds,
           LoadFrame, EmbedderKept, embVars
    <2>2. Moves(l) /\ load'[l].at = "gating"
      BY <1>3, ClaimFacts DEF EngineInv
    <2>3. StillWaits
      BY <1>1, <2>2 DEF StillWaits, Moves
    <2>4. Lined'
      BY <1>2, <2>3, LinedStays DEF EngineInv
    <2> QED  BY <1>1, <1>2, <1>3, <2>1, <2>4, TakingLoad DEF EngineInv, Typed
  <1>4. CASE Ends(l, FALSE) /\ UNCHANGED <<gateVars, tokenRef, embVars>>
    <2>1. LoadFrame /\ GateStays /\ UNCHANGED <<chatGen, tokenRef>>
      BY <1>2, <1>4 DEF EngineInv, Typed, LoadFrame, EmbedderKept, GateStays, embVars, gateVars
    <2> QED  BY <1>1, <1>2, <1>4, <2>1, QuietEnd
  <1>5. CASE markEmbedderHung /\ releaseEmbed /\ Ends(l, FALSE) /\ UNCHANGED tokenRef
    <2>1. GateStays /\ UNCHANGED chatGen /\ embedHeld' = FALSE
      BY <1>5, EmbedReleased
    <2>2. LoadFrame
      BY <1>2, <1>5, <2>1 DEF LoadFrame, EmbedderKept, markEmbedderHung
    <2> QED  BY <1>1, <1>2, <1>5, <2>1, <2>2, QuietEnd
  <1> QED  BY <1>3, <1>4, <1>5 DEF LoadReclaims

LEMMA RefusedKeeps ==
  ASSUME EngineInv, NEW l \in Slots, load[l].at \notin {"off", "told", "initing"}, Refused(l),
         UNCHANGED <<chatVars, turn, switch, appGen, embVars, selected>>
  PROVE  EngineInv' /\ OwnerStep
  <1>1. PlaceGiven(load[l].token) /\ chatGen' = chatGen /\ embedHeld' = embedHeld
    BY GivenBack DEF Refused, GivesBack, EngineInv
  <1>2. UNCHANGED <<fifo, stage>> /\ tokenRef' = Unreferenced(load[l].token)
    BY DEF Refused, GivesBack, fifoVars
  <1>3. LoadFrame
    BY <1>1, <1>2 DEF EngineInv, Typed, LoadFrame, EmbedderKept, embVars
  <1>4. /\ Moves(l) /\ load'[l].at = "reporting" /\ load'[l].token = 0
        /\ load'[l].gen = load[l].gen /\ load'[l].model = load[l].model
    <2>1. load \in [Slots -> Record] /\ "reporting" \in LoadSteps
      BY DEF EngineInv, Typed, LoadSteps
    <2>2. [load[l] EXCEPT !.at = "reporting", !.token = 0] \in Record
      BY <2>1 DEF Record
    <2>3. load' = [load EXCEPT ![l] = [load[l] EXCEPT !.at = "reporting", !.token = 0]]
      BY <2>1 DEF Refused, Record
    <2> QED  BY <2>1, <2>2, <2>3 DEF Moves, Record
  <1>5. load'[l].gen <= appGen /\ load'[l].model \in Models
    BY <1>4 DEF EngineInv, Owned, LoadOK
  <1>6. StillWaits
    BY <1>4 DEF StillWaits, Moves
  <1>7. Lined' /\ fifo' \in Seq(Ops)
    BY <1>2, <1>6, LinedStays DEF EngineInv, Typed
  <1> QED  BY <1>1, <1>2, <1>3, <1>4, <1>5, <1>7, GivingLoad

\* a load that puts an operation at the end of the line
LEMMA SubmitGo ==
  ASSUME EngineInv, NEW l \in Slots, load[l].at \notin {"off", "told", "initing"},
         NEW at \in LoadSteps \ Tokenless, Goes(l, at),
         NEW kind \in {"free", "dispose", "init"}, Submit(kind, l),
         kind = "init" => at = "initing", LoadFrame, UNCHANGED <<gate, chatGen, tokenRef, selected>>
  PROVE  EngineInv' /\ OwnerStep
  <1>1. /\ Moves(l) /\ load'[l].at = at /\ load'[l].model = load[l].model
        /\ load'[l].gen = load[l].gen /\ load'[l].token = load[l].token
    BY GoesFacts DEF EngineInv
  <1>2. load[l].gen <= appGen /\ load[l].model \in Models
    BY DEF EngineInv, Owned, LoadOK
  <1>3. Steady(l) /\ GateStays
    BY <1>1, <1>2 DEF Steady, GateStays
  <1>4. \A k \in Slots : load[k].at = "initing" => load'[k].at = "initing"
    BY <1>1 DEF Moves
  <1>5. fifo' \in Seq(Ops) /\ Lined'
    BY <1>1, <1>4, LinedGrows DEF EngineInv
  <1> QED  BY <1>1, <1>3, <1>5, QuietLoad

LEMMA AdmittedKeeps ==
  ASSUME EngineInv, NEW l \in Slots, load[l].at \notin {"off", "told", "initing"}, Admitted(l),
         UNCHANGED <<chatVars, turn, switch, appGen, embVars, selected>>
  PROVE  EngineInv' /\ OwnerStep
  <1>1. UNCHANGED <<gate, chatGen, tokenRef, stage>> /\ Goes(l, "clearing")
    BY DEF Admitted, Submit, fifoVars
  <1>2. LoadFrame
    BY <1>1 DEF EngineInv, Typed, Admitted, LoadFrame, EmbedderKept, embVars
  <1>3. "clearing" \in LoadSteps \ Tokenless /\ "clearing" \notin {"off", "told"}
    BY DEF LoadSteps, Tokenless
  <1>4. CASE UNCHANGED fifoVars
    BY <1>1, <1>2, <1>3, <1>4, QuietGo DEF fifoVars
  <1>5. CASE Submit("free", l)
    BY <1>1, <1>2, <1>3, <1>5, SubmitGo
  <1> QED  BY <1>4, <1>5 DEF Admitted

LEMMA LoadGatedKeeps ==
  ASSUME EngineInv, NEW l \in Slots, LoadGated(l)
  PROVE  EngineInv' /\ OwnerStep
  <1>1. load[l].at = "gating"
    BY DEF LoadGated, At
  <1>2. UNCHANGED <<chatVars, turn, switch, appGen, embVars, selected>>
    BY DEF LoadGated, pickVars, turnVars
  <1>3. CASE Refused(l)
    BY <1>1, <1>2, <1>3, RefusedKeeps
  <1>4. CASE Admitted(l)
    BY <1>1, <1>2, <1>4, AdmittedKeeps
  <1>5. CASE Goes(l, "evicting") /\ UNCHANGED <<gateVars, fifoVars, tokenRef>>
    <2>1. LoadFrame /\ UNCHANGED <<gate, fifo, chatGen, tokenRef, selected>>
      BY <1>2, <1>5 DEF EngineInv, Typed, LoadFrame, EmbedderKept, embVars, gateVars, fifoVars
    <2>2. "evicting" \in LoadSteps \ {"off", "told"} /\ "evicting" \notin Tokenless
      BY DEF LoadSteps, Tokenless
    <2> QED  BY <1>1, <1>5, <2>1, <2>2, QuietGo
  <1> QED  BY <1>3, <1>4, <1>5 DEF LoadGated

LEMMA LoadEvictsKeeps ==
  ASSUME EngineInv, NEW l \in Slots, LoadEvicts(l)
  PROVE  EngineInv' /\ OwnerStep
  <1>1. load[l].at \in {"evicting", "evicted"}
    BY DEF LoadEvicts, At
  <1>2. UNCHANGED <<chatVars, turn, switch, appGen, embVars, selected>>
    BY DEF LoadEvicts, pickVars, turnVars
  <1>3. CASE Refused(l)
    BY <1>1, <1>2, <1>3, RefusedKeeps
  <1>4. CASE Admitted(l)
    BY <1>1, <1>2, <1>4, AdmittedKeeps
  <1>5. CASE Submit("dispose", l) /\ Goes(l, "evicted") /\ UNCHANGED <<gateVars, tokenRef>>
    <2>1. LoadFrame /\ UNCHANGED <<gate, chatGen, tokenRef, selected>>
      BY <1>2, <1>5 DEF EngineInv, Typed, LoadFrame, EmbedderKept, embVars, gateVars, Submit
    <2>2. "evicted" \in LoadSteps \ Tokenless
      BY DEF LoadSteps, Tokenless
    <2> QED  BY <1>1, <1>5, <2>1, <2>2, SubmitGo
  <1> QED  BY <1>3, <1>4, <1>5 DEF LoadEvicts

LEMMA ReportKeeps ==
  ASSUME EngineInv, NEW l \in Slots, reportLoadRefusal(l)
  PROVE  EngineInv' /\ OwnerStep
  <1>1. load[l].at = "reporting" /\ load[l].token = 0
    BY DEF EngineInv, Owned, LoadOK, Tokenless, reportLoadRefusal, At
  <1>2. LoadFrame /\ UNCHANGED <<gate, fifo, chatGen, tokenRef, selected>>
    BY DEF EngineInv, Typed, reportLoadRefusal, LoadFrame, EmbedderKept, gateVars, fifoVars,
           chatVars, embVars, pickVars, turnVars
  <1>3. "hopping" \in LoadSteps \ {"off", "told"}
    BY DEF LoadSteps
  <1> QED  BY <1>1, <1>2, <1>3, QuietGo DEF reportLoadRefusal

LEMMA FallbackKeeps ==
  ASSUME EngineInv, NEW l \in Slots, runLoadFallback(l)
  PROVE  EngineInv' /\ OwnerStep
  <1>1. load[l].at = "hopping" /\ load[l].token = 0
    BY DEF EngineInv, Owned, LoadOK, Tokenless, runLoadFallback, At
  <1>2. LoadFrame /\ UNCHANGED <<gate, fifo, chatGen, tokenRef>>
    BY DEF EngineInv, Typed, runLoadFallback, LoadFrame, EmbedderKept, gateVars, fifoVars,
           chatVars, embVars, pickVars, turnVars
  <1>3. CASE Ends(l, FALSE) /\ UNCHANGED pickVars
    BY <1>1, <1>2, <1>3, QuietEnd DEF GateStays, pickVars
  <1>4. ASSUME NEW m \in Models, l = "hop" \/ At("hop", "off"), selected' = m,
               load' = [[load EXCEPT ![l] = Ended(l, FALSE)] EXCEPT !["hop"] = Called(m)]
        PROVE  EngineInv' /\ OwnerStep
    <2>1. load \in [Slots -> Record] /\ "hop" \in Slots /\ appGen \in Nat
      BY DEF EngineInv, Typed, Slots
    <2>2. /\ load' \in [Slots -> Record] /\ load'["hop"] = Called(m)
          /\ l # "hop" => load'[l] = Ended(l, FALSE)
          /\ \A k \in Slots \ {l, "hop"} : load'[k] = load[k]
      BY <1>4, <2>1, CalledFacts, EndedFacts
    <2>3. load["hop"].token = 0 /\ load["hop"].at # "initing"
      BY <1>1, <1>4, <2>1 DEF EngineInv, Owned, LoadOK, Tokenless, At
    <2>4. \A k \in Slots : Steady(k)
      <3> SUFFICES ASSUME NEW k \in Slots PROVE Steady(k)
        OBVIOUS
      <3>1. CASE k = "hop"
        BY <2>1, <2>2, <2>3, <3>1, CalledFacts DEF Steady
      <3>2. CASE k = l /\ l # "hop"
        <4>1. /\ load'[l].at \in {"off", "told"} /\ load'[l].gen = 0 /\ load'[l].token = 0
          BY <2>2, <3>2, EndedFacts
        <4> QED  BY <1>1, <2>1, <3>2, <4>1 DEF Steady
      <3>3. CASE k \notin {l, "hop"}
        BY <2>2, <3>3 DEF EngineInv, Owned, LoadOK, Steady
      <3> QED  BY <3>1, <3>2, <3>3
    <2>5. Typed'
      BY <1>2, <1>4, <2>2 DEF EngineInv, Typed, LoadFrame, chatVars
    <2>6. Owned' /\ OwnerStep
      BY <1>2, <2>4, <2>5, OwnedStays DEF EngineInv, LoadFrame, GateStays
    <2>7. StillWaits
      BY <1>1, <2>2, <2>3 DEF StillWaits
    <2>8. Lined'
      BY <1>2, <2>7, LinedStays DEF EngineInv, LoadFrame
    <2>9. load[Turn].at = "off" => load'[Turn].at = "off"
      BY <1>1, <2>2 DEF Slots, Turn
    <2> QED  BY <1>2, <2>5, <2>6, <2>8, <2>9, FrameKeeps DEF EngineInv
  <1> QED  BY <1>3, <1>4 DEF runLoadFallback

LEMMA LoadClearedKeeps ==
  ASSUME EngineInv, NEW l \in Slots, LoadCleared(l)
  PROVE  EngineInv' /\ OwnerStep
  <1>1. load[l].at = "clearing"
    BY DEF LoadCleared, At
  <1>2. UNCHANGED <<fifo, stage, chatVars, turn, switch, appGen, selected>>
    BY DEF LoadCleared, fifoVars, pickVars, turnVars
  <1>3. CASE Goes(l, "submitting") /\ UNCHANGED <<gateVars, tokenRef, embVars>>
    <2>1. LoadFrame /\ UNCHANGED <<gate, chatGen>>
      BY <1>2, <1>3 DEF EngineInv, Typed, LoadFrame, EmbedderKept, embVars, gateVars
    <2>2. "submitting" \in LoadSteps \ {"off", "told"} /\ "submitting" \notin Tokenless
      BY DEF LoadSteps, Tokenless
    <2> QED  BY <1>1, <1>2, <1>3, <2>1, <2>2, QuietGo
  <1>4. CASE Abandons(l)
    BY <1>1, <1>2, <1>4, AbandonKeeps DEF Abandons
  <1>5. CASE GivesUp(l)
    BY <1>1, <1>2, <1>5, GivesUpKeeps
  <1> QED  BY <1>3, <1>4, <1>5 DEF LoadCleared

LEMMA LoadSubmitsKeeps ==
  ASSUME EngineInv, NEW l \in Slots, LoadSubmits(l)
  PROVE  EngineInv' /\ OwnerStep
  <1>1. load[l].at = "submitting"
    BY DEF LoadSubmits, At
  <1>2. UNCHANGED <<fifo, stage, chatVars, turn, switch, appGen, selected>>
    BY DEF LoadSubmits, fifoVars, pickVars, turnVars
  <1>3. CASE Goes(l, "queueing") /\ UNCHANGED <<gateVars, tokenRef, embVars>>
    <2>1. LoadFrame /\ UNCHANGED <<gate, chatGen>>
      BY <1>2, <1>3 DEF EngineInv, Typed, LoadFrame, EmbedderKept, embVars, gateVars
    <2>2. "queueing" \in LoadSteps \ {"off", "told"} /\ "queueing" \notin Tokenless
      BY DEF LoadSteps, Tokenless
    <2> QED  BY <1>1, <1>2, <1>3, <2>1, <2>2, QuietGo
  <1>4. CASE GivesBack(l) /\ Ends(l, FALSE) /\ UNCHANGED embVars
    BY <1>1, <1>2, <1>4, AbandonKeeps
  <1>5. CASE Abandons(l)
    BY <1>1, <1>2, <1>5, AbandonKeeps DEF Abandons
  <1> QED  BY <1>3, <1>4, <1>5 DEF LoadSubmits

LEMMA LoadQueuesKeeps ==
  ASSUME EngineInv, NEW l \in Slots, LoadQueues(l)
  PROVE  EngineInv' /\ OwnerStep
  <1>1. load[l].at = "queueing"
    BY DEF LoadQueues, At
  <1>2. UNCHANGED <<chatVars, turn, switch, appGen, selected>>
    BY DEF LoadQueues, pickVars, turnVars
  <1>3. CASE Submit("init", l) /\ Goes(l, "initing") /\ UNCHANGED <<gateVars, tokenRef, embVars>>
    <2>1. LoadFrame /\ UNCHANGED <<gate, chatGen>>
      BY <1>2, <1>3 DEF EngineInv, Typed, LoadFrame, EmbedderKept, embVars, gateVars, Submit
    <2>2. "initing" \in LoadSteps \ Tokenless
      BY DEF LoadSteps, Tokenless
    <2> QED  BY <1>1, <1>2, <1>3, <2>1, <2>2, SubmitGo
  <1>4. CASE GivesUp(l) /\ UNCHANGED fifoVars
    BY <1>1, <1>2, <1>4, GivesUpKeeps DEF fifoVars
  <1> QED  BY <1>3, <1>4 DEF LoadQueues

(* The native load is back.  The place of a load that is kept is found through the
   reference: its generation is the current one, so no switch took the reference away. *)
LEMMA LoadSettlesKeeps ==
  ASSUME EngineInv, NEW l \in Slots, LoadSettles(l)
  PROVE  EngineInv' /\ OwnerStep
  <1>1. load[l].at = "initing" /\ ~Pending("init", l)
    BY DEF LoadSettles, At
  <1>2. UNCHANGED <<fifo, stage, chatVars, turn, switch, appGen, selected>>
    BY DEF LoadSettles, fifoVars, pickVars, turnVars
  <1>3. CASE Abandons(l)
    BY <1>1, <1>2, <1>3, AbandonKeeps DEF Abandons
  <1>4. CASE GivesBack(l) /\ Ends(l, FALSE) /\ UNCHANGED embVars
    BY <1>1, <1>2, <1>4, AbandonKeeps
  <1>5. CASE /\ StillCurrent(l) /\ markChatReady(load[l].token) /\ Ends(l, TRUE)
             /\ UNCHANGED <<tokenRef, embVars>>
    <2>1. /\ Moves(l) /\ load'[l].at \in {"off", "told"} /\ load'[l].token = 0
          /\ load'[l].gen = 0
      BY <1>5, EndsFacts DEF EngineInv
    <2>2. /\ chatGen' = chatGen /\ embedHeld' = embedHeld /\ (ChatHolds' <=> ChatHolds)
          /\ gate' = IF load[l].token = chatGen /\ ChatHolds THEN "chat_ready" ELSE gate
      BY <1>5 DEF markChatReady, ChatHolds
    <2>3. LoadFrame
      BY <1>2, <1>5, <2>2 DEF EngineInv, Typed, LoadFrame, EmbedderKept, embVars
    <2>4. Typed'
      BY <1>2, <1>5, <2>1, <2>2, <2>3, LoadTyped DEF EngineInv, Typed
    <2>5. \A k \in Slots : LoadOK(k)'
      <3> SUFFICES ASSUME NEW k \in Slots PROVE LoadOK(k)'
        OBVIOUS
      <3>1. CASE k = l
        BY <1>2, <2>1, <2>2, <3>1 DEF EngineInv, Typed, LoadOK, Record
      <3>2. CASE k # l
        <4>1. load'[k] = load[k] /\ LoadOK(k) /\ appGen' = appGen /\ tokenRef' = tokenRef
          BY <1>2, <1>5, <2>1, <3>2 DEF Moves, EngineInv, Owned
        <4> QED  BY <2>1, <2>2, <3>2, <4>1 DEF Moves, LoadOK
      <3> QED  BY <3>1, <3>2
    <2>6. (ChatHolds => chatGen # 0)' /\ OwnerStep /\ (tokenRef <= chatGen)'
          /\ (switch.token <= chatGen)'
      BY <1>2, <1>5, <2>2 DEF EngineInv, Owned, OwnerStep
    <2>7. LoadingIsSomeones'
      <3> SUFFICES ASSUME gate' = "chat_loading"
                   PROVE  \E k \in Slots : load'[k].token = chatGen'
        BY DEF LoadingIsSomeones
      <3>1. gate = "chat_loading" /\ load[l].token # chatGen
        BY <2>2 DEF ChatHolds
      <3> QED  BY <2>1, <2>2, <3>1 DEF Moves, EngineInv, Owned, LoadingIsSomeones
    <2>8. GateIsOwned'
      <3> SUFFICES ASSUME ChatHolds PROVE GateIsOwned'
        BY <2>2 DEF GateIsOwned
      <3>1. CASE load[l].token = chatGen
        <4>1. tokenRef = chatGen
          BY <1>5, <3>1 DEF EngineInv, Owned, LoadOK, StillCurrent
        <4> QED  BY <1>5, <2>2, <4>1 DEF GateIsOwned
      <3>2. CASE load[l].token # chatGen
        BY <1>2, <1>5, <2>1, <2>2, <3>2 DEF Moves, EngineInv, Owned, GateIsOwned
      <3> QED  BY <3>1, <3>2
    <2>9. Owned' /\ OwnerStep
      BY <2>5, <2>6, <2>7, <2>8 DEF Owned
    <2>10. StillWaits
      BY <1>1, <2>1 DEF StillWaits, Moves
    <2>11. Lined'
      BY <1>2, <2>10, LinedStays DEF EngineInv
    <2>12. load[Turn].at = "off" => load'[Turn].at = "off"
      BY <1>1, <2>1 DEF Moves, Slots
    <2> QED  BY <2>3, <2>4, <2>9, <2>11, <2>12, FrameKeeps DEF EngineInv
  <1> QED  BY <1>3, <1>4, <1>5 DEF LoadSettles

-----------------------------------------------------------------------------
(* The embedder's steps.                                                   *)

(* The loads, the switch and the chat's context are not touched. *)
LEMMA EmbedKeeps ==
  ASSUME EngineInv, GateStays,
         UNCHANGED <<load, chatVars, turn, chatGen, appGen, selected, tokenRef, switch>>,
         fifo' \in Seq(Ops), Lined', Embedded',
         stage \notin {"waiting", "draining", "loading", "opening", "undoing"},
         stage' \notin {"waiting", "draining", "loading", "opening", "undoing"},
         emb' \in BOOLEAN, embMem' \in BOOLEAN, embHung' \in BOOLEAN, embedHeld' \in BOOLEAN
  PROVE  EngineInv' /\ OwnerStep
  <1>1. Typed'
    BY DEF EngineInv, Typed, chatVars
  <1>2. Owned' /\ OwnerStep
    BY <1>1, OwnedUntouched DEF EngineInv
  <1>3. TurnLoads' /\ Counted'
    BY DEF EngineInv, TurnLoads, Counted, chatVars, Running
  <1> QED  BY <1>1, <1>2, <1>3 DEF EngineInv

LEMMA EnsureEmbedderKeeps ==
  ASSUME EngineInv, NEW q \in Callers, ensureEmbedder(q)
  PROVE  EngineInv' /\ OwnerStep
  <1>1. fifo # <<>> /\ fifo[1].kind = "embed" /\ stage = "queued"
    BY DEF ensureEmbedder, Op
  <1>2. UNCHANGED <<load, chatVars, turn, appGen, selected, tokenRef, switch>>
    BY DEF ensureEmbedder, pickVars, turnVars
  <1>3. CASE Settle /\ UNCHANGED <<gateVars, embVars>>
    <2>1. fifo' \in Seq(Ops) /\ Lined' /\ stage' = "queued"
      BY <1>1, <1>2, <1>3, LinedShrinks DEF EngineInv, Settle
    <2>2. Embedded' /\ GateStays
      BY <1>1, <1>3 DEF EngineInv, Embedded, EmbedderIsHeld, embVars, gateVars, GateStays
    <2> QED  BY <1>1, <1>2, <1>3, <2>1, <2>2, EmbedKeeps DEF EngineInv, Typed, embVars, gateVars
  <1>4. CASE emb /\ tryAcquireEmbed /\ Granted(q) /\ UNCHANGED embVars
    <2>1. fifo' \in Seq(Ops) /\ Lined' /\ stage' = "queued"
      BY <1>1, <1>2, <1>4, LinedGranted DEF EngineInv
    <2>2. GateStays /\ chatGen' = chatGen /\ embedHeld' = TRUE
      BY <1>4, EmbedTaken
    <2>3. Embedded'
      BY <1>4, <2>2 DEF Embedded, EmbedderIsHeld, embVars
    <2> QED  BY <1>1, <1>2, <1>4, <2>1, <2>2, <2>3, EmbedKeeps DEF EngineInv, Typed, embVars
  <1>5. CASE /\ tryAcquireEmbed /\ stage' = "starting" /\ embMem' = TRUE
             /\ UNCHANGED <<fifo, emb, embHung>>
    <2>1. Lined' /\ fifo' \in Seq(Ops)
      BY <1>1, <1>2, <1>5, LinedGoesOn DEF EngineInv, Typed
    <2>2. GateStays /\ chatGen' = chatGen /\ embedHeld' = TRUE
      BY <1>5, EmbedTaken
    <2>3. Embedded'
      BY <1>5, <2>2 DEF Embedded, EmbedderIsHeld
    <2> QED  BY <1>1, <1>2, <1>5, <2>1, <2>2, <2>3, EmbedKeeps DEF EngineInv, Typed
  <1> QED  BY <1>3, <1>4, <1>5 DEF ensureEmbedder

LEMMA EmbedderStartedKeeps ==
  ASSUME EngineInv, NEW q \in Callers, EmbedderStarted(q)
  PROVE  EngineInv' /\ OwnerStep
  <1>1. fifo # <<>> /\ stage = "starting"
    BY DEF EmbedderStarted
  <1>2. UNCHANGED <<load, chatVars, turn, appGen, selected, tokenRef, switch>>
    BY DEF EmbedderStarted, pickVars, turnVars
  <1>3. CASE emb' = TRUE /\ Granted(q) /\ UNCHANGED <<gateVars, embMem, embHung>>
    <2>1. fifo' \in Seq(Ops) /\ Lined' /\ stage' = "queued"
      BY <1>1, <1>2, <1>3, LinedGranted DEF EngineInv
    <2>2. Embedded' /\ GateStays
      BY <1>3 DEF EngineInv, Embedded, EmbedderIsHeld, gateVars, GateStays
    <2> QED  BY <1>1, <1>2, <1>3, <2>1, <2>2, EmbedKeeps DEF EngineInv, Typed, gateVars
  <1>4. CASE Settle /\ emb' = FALSE /\ embMem' = FALSE /\ UNCHANGED embHung /\ releaseEmbed
    <2>1. fifo' \in Seq(Ops) /\ Lined' /\ stage' = "queued"
      BY <1>1, <1>2, <1>4, LinedShrinks DEF EngineInv, Settle
    <2>2. GateStays /\ chatGen' = chatGen /\ embedHeld' = FALSE
      BY <1>4, EmbedReleased
    <2>3. Embedded'
      BY <1>4 DEF Embedded, EmbedderIsHeld
    <2> QED  BY <1>1, <1>2, <1>4, <2>1, <2>2, <2>3, EmbedKeeps DEF EngineInv, Typed
  <1> QED  BY <1>3, <1>4 DEF EmbedderStarted

LEMMA EmbeddingDoneKeeps ==
  ASSUME EngineInv, NEW q \in Callers, EmbeddingDone(q)
  PROVE  EngineInv' /\ OwnerStep
  <1>1. fifo # <<>> /\ fifo[1].kind = "use" /\ Settle
    BY DEF EmbeddingDone, Op
  <1>2. stage \notin {"starting", "waiting", "draining", "loading", "opening", "undoing"}
    BY <1>1 DEF EngineInv, Lined
  <1>3. UNCHANGED <<load, chatVars, turn, chatGen, appGen, selected, tokenRef, switch, embVars,
                    gate, embedHeld>>
    BY DEF EmbeddingDone, pickVars, turnVars, gateVars
  <1>4. fifo' \in Seq(Ops) /\ Lined' /\ stage' = "queued"
    BY <1>1, <1>3, LinedShrinks DEF EngineInv, Settle
  <1>5. Embedded' /\ GateStays
    BY <1>2, <1>3 DEF EngineInv, Embedded, EmbedderIsHeld, embVars, GateStays
  <1> QED  BY <1>2, <1>3, <1>4, <1>5, EmbedKeeps DEF EngineInv, Typed, embVars

(* A release that finds no handle leaves the memory of a start that was given up. *)
LEMMA ReleaseEmbedderKeeps ==
  ASSUME EngineInv, releaseEmbedder
  PROVE  EngineInv' /\ OwnerStep
  <1>1. fifo # <<>> /\ fifo[1].kind = "free" /\ stage \in {"queued", "closing"}
    BY DEF releaseEmbedder, First
  <1>2. UNCHANGED <<load, chatVars, turn, appGen, selected, tokenRef, switch>>
    BY DEF releaseEmbedder, pickVars, turnVars
  <1>3. CASE Settle /\ releaseEmbed /\ (embMem' => embHung') /\ embMem' \in BOOLEAN
             /\ emb' \in BOOLEAN /\ embHung' \in BOOLEAN
    <2>1. fifo' \in Seq(Ops) /\ Lined' /\ stage' = "queued"
      BY <1>1, <1>2, <1>3, LinedShrinks DEF EngineInv, Settle
    <2>2. GateStays /\ chatGen' = chatGen /\ embedHeld' = FALSE
      BY <1>3, EmbedReleased
    <2>3. Embedded'
      BY <1>3 DEF Embedded, EmbedderIsHeld
    <2> QED  BY <1>1, <1>2, <1>3, <2>1, <2>2, <2>3, EmbedKeeps
  <1>4. CASE stage' = "closing" /\ UNCHANGED <<gateVars, fifo, embVars>> /\ emb
    <2>1. Lined' /\ fifo' \in Seq(Ops)
      BY <1>1, <1>2, <1>4, LinedGoesOn DEF EngineInv, Typed
    <2>2. Embedded' /\ GateStays
      BY <1>4 DEF EngineInv, Embedded, EmbedderIsHeld, embVars, gateVars, GateStays
    <2> QED  BY <1>1, <1>2, <1>4, <2>1, <2>2, EmbedKeeps DEF EngineInv, Typed, embVars, gateVars
  <1>5. CASE First("free", "queued") /\ (embHung \/ ~emb) /\ releaseEmbed /\ Settle
             /\ UNCHANGED embVars
    BY <1>3, <1>5 DEF First, EngineInv, Typed, Embedded, embVars
  <1>6. CASE emb' = FALSE /\ embMem' = FALSE /\ UNCHANGED embHung /\ releaseEmbed /\ Settle
    BY <1>3, <1>6 DEF EngineInv, Typed
  <1> QED  BY <1>4, <1>5, <1>6 DEF releaseEmbedder

-----------------------------------------------------------------------------
(* The engine's steps.                                                     *)

LEMMA SettlesFacts ==
  ASSUME EngineInv, NEW worked \in BOOLEAN, fifo # <<>>, EngineSettles(worked)
  PROVE  /\ load' \in [Slots -> Record] /\ fifo' \in Seq(Ops) /\ Lined' /\ stage' = "queued"
         /\ \A k \in Slots : /\ load'[k].at = load[k].at /\ load'[k].model = load[k].model
                             /\ load'[k].gen = load[k].gen /\ load'[k].token = load[k].token
  <1>1. load \in [Slots -> Record] /\ fifo \in Seq(Ops) /\ 1 \in 1 .. Len(fifo)
    BY DEF EngineInv, Typed
  <1>2. /\ load' \in [Slots -> Record]
        /\ \A k \in Slots : /\ load'[k].at = load[k].at /\ load'[k].model = load[k].model
                            /\ load'[k].gen = load[k].gen /\ load'[k].token = load[k].token
    <2>1. CASE fifo[1].kind # "init"
      BY <1>1, <2>1 DEF EngineSettles
    <2>2. CASE fifo[1].kind = "init"
      <3>1. fifo[1].by \in Slots
        BY <1>1, <2>2 DEF EngineInv, Lined
      <3>2. load' = [load EXCEPT ![fifo[1].by] = [load[fifo[1].by] EXCEPT !.ok = worked]]
        BY <1>1, <2>2, <3>1 DEF EngineSettles, Record
      <3>3. [load[fifo[1].by] EXCEPT !.ok = worked] \in Record
        BY <1>1, <3>1 DEF Record
      <3> QED  BY <1>1, <3>1, <3>2, <3>3 DEF Record
    <2> QED  BY <2>1, <2>2
  <1>3. Settle
    BY DEF EngineSettles
  <1>4. fifo' \in Seq(Ops) /\ Lined'
    BY <1>2, <1>3, LinedShrinks DEF EngineInv
  <1> QED  BY <1>2, <1>3, <1>4 DEF Settle

(* The gate, the embedder, the switch and the turn are not touched. *)
LEMMA EngineKeeps ==
  ASSUME EngineInv, UNCHANGED <<gateVars, embVars, pickVars, tokenRef, switch, turnVars>>,
         load' \in [Slots -> Record], fifo' \in Seq(Ops), Lined', Counted',
         \A k \in Slots : /\ load'[k].at = load[k].at /\ load'[k].model = load[k].model
                          /\ load'[k].gen = load[k].gen /\ load'[k].token = load[k].token,
         stage # "starting", chatMem' \in Nat, contextHung' \in BOOLEAN
  PROVE  EngineInv' /\ OwnerStep
  <1>1. Typed'
    BY DEF EngineInv, Typed, gateVars, embVars, pickVars
  <1>2. \A k \in Slots : Steady(k)
    BY DEF EngineInv, Owned, LoadOK, Steady
  <1>3. Owned' /\ OwnerStep
    BY <1>1, <1>2, OwnedStays DEF EngineInv, GateStays, gateVars, pickVars
  <1>4. TurnLoads' /\ Embedded'
    BY DEF EngineInv, TurnLoads, Embedded, EmbedderIsHeld, gateVars, embVars, turnVars, Slots, Turn
  <1> QED  BY <1>1, <1>3, <1>4 DEF EngineInv

LEMMA InvalidateKeeps ==
  ASSUME EngineInv, NEW kind \in {"dispose", "init"}, First(kind, "queued"), Invalidate,
         UNCHANGED <<gateVars, embVars, pickVars, tokenRef, switch, turnVars>>
  PROVE  EngineInv' /\ OwnerStep
  <1>1. fifo # <<>> /\ fifo[1].kind = kind /\ stage = "queued"
    BY DEF First
  <1>2. /\ UNCHANGED <<fifo, load, chatMem, contextHung>> /\ context' = NoModel
        /\ stage' = IF context # NoModel THEN "waiting" ELSE "draining"
    BY DEF Invalidate
  <1>3. Lined' /\ fifo' \in Seq(Ops)
    BY <1>1, <1>2, LinedGoesOn DEF EngineInv, Typed
  <1>4. Counted'
    BY <1>1, <1>2 DEF EngineInv, Counted, Running, turnVars
  <1> QED  BY <1>1, <1>2, <1>3, <1>4, EngineKeeps DEF EngineInv, Typed

LEMMA DisposeEngineKeeps ==
  ASSUME EngineInv, disposeEngine PROVE EngineInv' /\ OwnerStep
  BY InvalidateKeeps DEF disposeEngine

LEMMA InitEngineKeeps ==
  ASSUME EngineInv, initEngine PROVE EngineInv' /\ OwnerStep
  <1>1. fifo # <<>> /\ stage = "queued" /\ First("init", "queued")
    BY DEF initEngine, First
  <1>2. UNCHANGED <<gateVars, embVars, pickVars, tokenRef, switch, turnVars>>
    BY DEF initEngine
  <1>3. CASE (EngineSettles(TRUE) \/ EngineSettles(FALSE)) /\ UNCHANGED chatVars
    <2>2. /\ load' \in [Slots -> Record] /\ fifo' \in Seq(Ops) /\ Lined' /\ stage' = "queued"
          /\ \A k \in Slots : /\ load'[k].at = load[k].at /\ load'[k].model = load[k].model
                              /\ load'[k].gen = load[k].gen /\ load'[k].token = load[k].token
      BY <1>1, <1>3, SettlesFacts
    <2>3. Counted'
      BY <1>1, <1>2, <1>3, <2>2 DEF EngineInv, Counted, chatVars, Running, turnVars
    <2> QED  BY <1>1, <1>2, <1>3, <2>2, <2>3, EngineKeeps DEF EngineInv, Typed, chatVars
  <1>4. CASE Invalidate
    BY <1>1, <1>2, <1>4, InvalidateKeeps
  <1> QED  BY <1>3, <1>4 DEF initEngine

\* an operation of the engine that settles, with the chat's memory in order
LEMMA SettledKeeps ==
  ASSUME EngineInv, EngineSettles(TRUE) \/ EngineSettles(FALSE), fifo # <<>>,
         stage # "starting", chatMem' \in Nat, contextHung' \in BOOLEAN,
         contextHung' => context' = NoModel /\ chatMem' <= 1,
         ~contextHung' => chatMem' = IF context' # NoModel THEN 1 ELSE 0,
         Running => chatMem' > 0,
         UNCHANGED <<gateVars, embVars, pickVars, tokenRef, switch, turnVars>>
  PROVE  EngineInv' /\ OwnerStep
  <1>1. /\ load' \in [Slots -> Record] /\ fifo' \in Seq(Ops) /\ Lined' /\ stage' = "queued"
        /\ \A k \in Slots : /\ load'[k].at = load[k].at /\ load'[k].model = load[k].model
                            /\ load'[k].gen = load[k].gen /\ load'[k].token = load[k].token
    BY SettlesFacts
  <1>2. Counted'
    BY <1>1 DEF Counted, Running, turnVars
  <1> QED  BY <1>1, <1>2, EngineKeeps

(* The jobs have ended: nobody runs in the context that goes. *)
LEMMA ContextReleasedKeeps ==
  ASSUME EngineInv, ContextReleased PROVE EngineInv' /\ OwnerStep
  <1>1. fifo # <<>> /\ stage \in {"waiting", "draining", "undoing"} /\ ~Running
    BY DEF ContextReleased, Waits
  <1>2. UNCHANGED <<gateVars, embVars, pickVars, tokenRef, switch, turnVars>>
    BY DEF ContextReleased
  <1>3. /\ context = NoModel /\ chatMem \in Nat /\ contextHung \in BOOLEAN
        /\ contextHung => stage = "draining" /\ chatMem <= 1
        /\ ~contextHung => chatMem = IF stage = "draining" THEN 0 ELSE 1
    BY <1>1 DEF EngineInv, Typed, Counted
  <1>4. CASE /\ chatMem' = Freed /\ (EngineSettles(TRUE) \/ EngineSettles(FALSE))
             /\ UNCHANGED <<context, contextHung>>
    <2>1. /\ chatMem' \in Nat /\ contextHung' \in BOOLEAN /\ context' = NoModel
          /\ contextHung' => chatMem' <= 1
          /\ ~contextHung' => chatMem' = 0
      BY <1>1, <1>3, <1>4 DEF Freed
    <2> QED  BY <1>1, <1>2, <1>4, <2>1, SettledKeeps
  <1>5. CASE /\ fifo[1].kind = "init" /\ ~contextHung /\ chatMem' = Freed + 1
             /\ stage' = "loading" /\ UNCHANGED <<fifo, load, context, contextHung>>
    <2>1. chatMem' = 1
      BY <1>1, <1>3, <1>5 DEF Freed
    <2>2. Lined' /\ fifo' \in Seq(Ops)
      BY <1>1, <1>5, LinedGoesOn DEF EngineInv, Typed
    <2>3. Counted'
      BY <1>1, <1>2, <1>3, <1>5, <2>1 DEF Counted, Running, turnVars
    <2> QED  BY <1>1, <1>2, <1>3, <1>5, <2>1, <2>2, <2>3, EngineKeeps DEF EngineInv, Typed
  <1>6. CASE /\ stage # "draining" /\ contextHung' = TRUE /\ EngineSettles(FALSE)
             /\ UNCHANGED <<context, chatMem>>
    BY <1>1, <1>2, <1>3, <1>6, SettledKeeps
  <1> QED  BY <1>4, <1>5, <1>6 DEF ContextReleased

LEMMA DisposeTimesOutKeeps ==
  ASSUME EngineInv, DisposeTimesOut PROVE EngineInv' /\ OwnerStep
  <1>1. fifo # <<>> /\ stage \in {"waiting", "draining", "undoing"} /\ Running
    BY DEF DisposeTimesOut, Waits
  <1>2. /\ contextHung' = TRUE /\ EngineSettles(FALSE) /\ UNCHANGED <<context, chatMem>>
        /\ UNCHANGED <<gateVars, embVars, pickVars, tokenRef, switch, turnVars>>
    BY DEF DisposeTimesOut
  <1>3. context = NoModel /\ chatMem \in Nat /\ chatMem <= 1 /\ chatMem > 0
    BY <1>1 DEF EngineInv, Typed, Counted
  <1> QED  BY <1>1, <1>2, <1>3, SettledKeeps

LEMMA EngineLoadedKeeps ==
  ASSUME EngineInv, EngineLoaded PROVE EngineInv' /\ OwnerStep
  <1>1. fifo # <<>> /\ fifo[1].kind = "init" /\ stage = "loading"
    BY DEF EngineLoaded, First
  <1>2. UNCHANGED <<gateVars, embVars, pickVars, tokenRef, switch, turnVars, contextHung>>
    BY DEF EngineLoaded
  <1>3. /\ context = NoModel /\ contextHung = FALSE /\ contextHung' = FALSE /\ chatMem = 1
        /\ ~Running
    BY <1>1, <1>2 DEF EngineInv, Typed, Counted
  <1>4. load[fifo[1].by].model # NoModel
    <2>1. 1 \in 1 .. Len(fifo)
      BY <1>1 DEF EngineInv, Typed
    <2>2. fifo[1].by \in Slots /\ load[fifo[1].by].at = "initing"
      BY <1>1, <2>1 DEF EngineInv, Lined
    <2>3. load[fifo[1].by].model \in Models
      BY <2>2 DEF EngineInv, Owned, LoadOK
    <2> QED  BY <2>3, EngineAssumption
  <1>5. CASE /\ context' = load[fifo[1].by].model /\ stage' = "opening"
             /\ UNCHANGED <<fifo, load, chatMem>>
    <2>1. chatMem' = 1 /\ context' # NoModel /\ chatMem' \in Nat
      BY <1>3, <1>4, <1>5
    <2>2. Lined' /\ fifo' \in Seq(Ops)
      BY <1>1, <1>5, LinedGoesOn DEF EngineInv, Typed
    <2>3. Counted'
      BY <1>2, <1>3, <1>5, <2>1 DEF Counted, Running, turnVars
    <2> QED  BY <1>1, <1>2, <1>3, <1>5, <2>1, <2>2, <2>3, EngineKeeps DEF EngineInv, Typed
  <1>6. CASE chatMem' = chatMem - 1 /\ EngineSettles(FALSE) /\ UNCHANGED context
    <2>1. chatMem' = 0 /\ context' = NoModel /\ chatMem' \in Nat
      BY <1>3, <1>6
    <2>2. /\ contextHung' \in BOOLEAN
          /\ contextHung' => context' = NoModel /\ chatMem' <= 1
          /\ ~contextHung' => chatMem' = IF context' # NoModel THEN 1 ELSE 0
          /\ Running => chatMem' > 0
      BY <1>3, <2>1
    <2> QED  BY <1>1, <1>2, <1>6, <2>1, <2>2, SettledKeeps
  <1> QED  BY <1>5, <1>6 DEF EngineLoaded

(* A context that opened, or did not: its memory stays with it until it is released. *)
LEMMA EngineOpenedKeeps ==
  ASSUME EngineInv, EngineOpened PROVE EngineInv' /\ OwnerStep
  <1>1. fifo # <<>> /\ fifo[1].kind = "init" /\ stage = "opening"
    BY DEF EngineOpened, First
  <1>2. UNCHANGED <<gateVars, embVars, pickVars, tokenRef, switch, turnVars>>
    BY DEF EngineOpened
  <1>3. /\ context # NoModel /\ contextHung = FALSE /\ chatMem = 1
        /\ Running => chatMem > 0
    BY <1>1 DEF EngineInv, Typed, Counted
  <1>4. CASE (EngineSettles(TRUE) \/ EngineSettles(FALSE)) /\ UNCHANGED chatVars
    BY <1>1, <1>2, <1>3, <1>4, SettledKeeps DEF chatVars
  <1>5. CASE /\ context' = NoModel /\ stage' = "undoing"
             /\ UNCHANGED <<fifo, load, chatMem, contextHung>>
    <2>1. Lined' /\ fifo' \in Seq(Ops)
      BY <1>1, <1>5, LinedGoesOn DEF EngineInv, Typed
    <2>2. Counted'
      BY <1>2, <1>3, <1>5 DEF Counted, Running, turnVars
    <2> QED  BY <1>1, <1>2, <1>3, <1>5, <2>1, <2>2, EngineKeeps DEF EngineInv, Typed
  <1>6. \A worked \in BOOLEAN :
          EngineSettles(worked) => EngineSettles(TRUE) \/ EngineSettles(FALSE)
    OBVIOUS
  <1> QED  BY <1>4, <1>5, <1>6 DEF EngineOpened

-----------------------------------------------------------------------------
(* The user's steps and the turn's.                                        *)

(* The gate, the engine, the embedder and the switch are not touched. *)
LEMMA UserKeeps ==
  ASSUME EngineInv, UNCHANGED <<gateVars, chatVars, embVars, appGen, tokenRef, switch, stage>>,
         selected' \in Models, load' \in [Slots -> Record], \A k \in Slots : Steady(k),
         fifo' \in Seq(Ops), Lined', TurnLoads',
         Running' => chatMem > 0 /\ stage # "loading"
  PROVE  EngineInv' /\ OwnerStep
  <1>1. Typed'
    BY DEF EngineInv, Typed, gateVars, chatVars, embVars
  <1>2. Owned' /\ OwnerStep
    BY <1>1, OwnedStays DEF EngineInv, GateStays, gateVars
  <1>3. Counted' /\ Embedded'
    BY DEF EngineInv, Counted, Embedded, EmbedderIsHeld, gateVars, chatVars, embVars
  <1> QED  BY <1>1, <1>2, <1>3 DEF EngineInv

LEMMA UnmovedLoads ==
  ASSUME EngineInv, load' = load
  PROVE  load' \in [Slots -> Record] /\ StillWaits /\ \A k \in Slots : Steady(k)
  BY DEF EngineInv, Typed, Owned, LoadOK, Steady, StillWaits

LEMMA CalledLoad ==
  ASSUME EngineInv, NEW s \in Slots, load[s].at \in {"off", "told"}, NEW m \in Models,
         load' = [load EXCEPT ![s] = Called(m)]
  PROVE  /\ load' \in [Slots -> Record] /\ StillWaits /\ \A k \in Slots : Steady(k)
         /\ \A k \in Slots \ {s} : load'[k] = load[k]
  <1>1. load \in [Slots -> Record] /\ appGen \in Nat
    BY DEF EngineInv, Typed
  <1>2. /\ load' \in [Slots -> Record] /\ load'[s] = Called(m)
        /\ \A k \in Slots \ {s} : load'[k] = load[k]
    BY <1>1, CalledFacts
  <1>3. StillWaits
    BY <1>2 DEF StillWaits
  <1>4. load[s].token = 0
    BY DEF EngineInv, Owned, LoadOK, Tokenless
  <1>5. Steady(s)
    BY <1>1, <1>2, <1>4, CalledFacts DEF Steady
  <1>6. \A k \in Slots \ {s} : Steady(k)
    BY <1>2 DEF EngineInv, Owned, LoadOK, Steady
  <1> QED  BY <1>2, <1>3, <1>5, <1>6

LEMMA ClearedLoad ==
  ASSUME EngineInv, load[Turn].at = "told", load' = [load EXCEPT ![Turn] = NoLoad]
  PROVE  /\ load' \in [Slots -> Record] /\ StillWaits /\ \A k \in Slots : Steady(k)
         /\ load'[Turn].at = "off"
  <1>1. load \in [Slots -> Record] /\ appGen \in Nat /\ Turn \in Slots
    BY DEF EngineInv, Typed, Slots
  <1>2. /\ load' \in [Slots -> Record] /\ load'[Turn] = NoLoad
        /\ \A k \in Slots \ {Turn} : load'[k] = load[k]
    BY <1>1, NoLoadFacts
  <1>3. StillWaits
    BY <1>2 DEF StillWaits
  <1>4. load[Turn].token = 0
    BY <1>1 DEF EngineInv, Owned, LoadOK, Tokenless
  <1>5. Steady(Turn)
    BY <1>1, <1>2, <1>4, NoLoadFacts DEF Steady
  <1>6. \A k \in Slots \ {Turn} : Steady(k)
    BY <1>2 DEF EngineInv, Owned, LoadOK, Steady
  <1> QED  BY <1>2, <1>3, <1>5, <1>6, NoLoadFacts

LEMMA ReloadKeeps ==
  ASSUME EngineInv, load["tap"].at = "off", load' = [load EXCEPT !["tap"] = Called(selected)],
         UNCHANGED <<gateVars, chatVars, embVars, pickVars, tokenRef, switch, fifoVars, turnVars>>
  PROVE  EngineInv' /\ OwnerStep
  <1>1. "tap" \in Slots /\ Turn \in Slots /\ Turn # "tap" /\ selected \in Models
    BY DEF EngineInv, Typed, Slots, Turn
  <1>2. /\ load' \in [Slots -> Record] /\ StillWaits /\ \A k \in Slots : Steady(k)
        /\ load'[Turn] = load[Turn]
    BY <1>1, CalledLoad
  <1>3. Lined' /\ fifo' \in Seq(Ops)
    BY <1>2, LinedStays DEF EngineInv, Typed, fifoVars
  <1>4. TurnLoads' /\ (Running' => chatMem > 0 /\ stage # "loading")
    BY <1>2 DEF EngineInv, TurnLoads, Counted, Running, turnVars
  <1> QED  BY <1>1, <1>2, <1>3, <1>4, UserKeeps DEF pickVars, fifoVars

LEMMA NothingKeeps ==
  ASSUME EngineInv, UNCHANGED <<gateVars, chatVars, embVars, pickVars, tokenRef, switch, fifoVars,
                                turnVars, load>>
  PROVE  EngineInv' /\ OwnerStep
  <1>1. load' \in [Slots -> Record] /\ StillWaits /\ \A k \in Slots : Steady(k)
    BY UnmovedLoads
  <1>2. Lined' /\ fifo' \in Seq(Ops)
    BY <1>1, LinedStays DEF EngineInv, Typed, fifoVars
  <1>3. TurnLoads' /\ (Running' => chatMem > 0 /\ stage # "loading")
    BY DEF EngineInv, TurnLoads, Counted, Running, turnVars
  <1> QED  BY <1>1, <1>2, <1>3, UserKeeps DEF EngineInv, Typed, pickVars, fifoVars

LEMMA ProbeKeeps ==
  ASSUME EngineInv, Probe PROVE EngineInv' /\ OwnerStep
  <1>1. UNCHANGED <<gateVars, chatVars, embVars, pickVars, tokenRef, switch, fifoVars, turnVars>>
    BY DEF Probe
  <1> QED  BY <1>1, ReloadKeeps, NothingKeeps DEF Probe, At

LEMMA UserReloadKeeps ==
  ASSUME EngineInv, userReloadModel PROVE EngineInv' /\ OwnerStep
  BY ReloadKeeps DEF userReloadModel, At

(* The reference becomes the switch's token: no load on its way is current any more. *)
LEMMA SelectKeeps ==
  ASSUME EngineInv, NEW m \in Models, selectModel(m) PROVE EngineInv' /\ OwnerStep
  <1>1. /\ switch.at = "off" /\ switch'.at = "waiting" /\ switch'.token = tokenRef
        /\ tokenRef' = 0 /\ appGen' = appGen + 1 /\ selected' = m
        /\ switch' = [at |-> "waiting", token |-> tokenRef]
    BY DEF selectModel
  <1>2. UNCHANGED <<gate, embedHeld, chatGen, fifo, stage, context, chatMem, contextHung, emb,
                    embMem, embHung, load, turn>>
    BY DEF selectModel, gateVars, fifoVars, chatVars, embVars, turnVars
  <1>3. Typed'
    BY <1>1, <1>2 DEF EngineInv, Typed
  <1>4. \A l \in Slots : LoadOK(l)'
    <2> SUFFICES ASSUME NEW l \in Slots PROVE LoadOK(l)'
      OBVIOUS
    <2>1. LoadOK(l) /\ load[l].gen \in Nat /\ appGen \in Nat
      BY DEF EngineInv, Typed, Owned, Record
    <2>2. load[l].gen <= appGen' /\ load[l].gen # appGen'
      BY <1>1, <2>1 DEF LoadOK
    <2> QED  BY <1>2, <2>1, <2>2 DEF LoadOK
  <1>5. (tokenRef <= chatGen)' /\ (switch.token <= chatGen)' /\ (ChatHolds => chatGen # 0)'
    BY <1>1, <1>2 DEF EngineInv, Typed, Owned, ChatHolds
  <1>6. LoadingIsSomeones' /\ GateIsOwned' /\ OwnerStep
    BY <1>1, <1>2 DEF EngineInv, Owned, LoadingIsSomeones, GateIsOwned, OwnerStep, ChatHolds
  <1>7. Owned'
    BY <1>4, <1>5, <1>6 DEF Owned
  <1>8. TurnLoads' /\ Lined' /\ Counted' /\ Embedded'
    BY <1>2 DEF EngineInv, TurnLoads, Lined, Counted, Running, Embedded, EmbedderIsHeld
  <1> QED  BY <1>3, <1>6, <1>7, <1>8 DEF EngineInv

LEMMA SwitchEndsKeeps ==
  ASSUME EngineInv, switch.at # "off", SwitchEnds,
         UNCHANGED <<fifoVars, chatVars, embVars, pickVars, tokenRef, load, turnVars>>
  PROVE  EngineInv' /\ OwnerStep
  <1>1. PlaceGiven(switch.token) /\ chatGen' = chatGen /\ embedHeld' = embedHeld
    BY GivenBack DEF EngineInv, SwitchEnds
  <1>2. /\ switch' = [at |-> "off", token |-> 0] /\ switch'.at = "off" /\ switch'.token = 0
        /\ switch' # switch
    BY DEF SwitchEnds
  <1>3. UNCHANGED <<fifo, stage, context, chatMem, contextHung, emb, embMem, embHung, appGen,
                    selected, tokenRef, load, turn>>
    BY DEF fifoVars, chatVars, embVars, pickVars, turnVars
  <1>4. Typed'
    BY <1>1, <1>2, <1>3 DEF EngineInv, Typed
  <1>5. \A l \in Slots : LoadOK(l)'
    BY <1>1, <1>3 DEF EngineInv, Owned, LoadOK
  <1>6. (tokenRef <= chatGen)' /\ (switch.token <= chatGen)' /\ (ChatHolds => chatGen # 0)'
    BY <1>1, <1>2, <1>3 DEF EngineInv, Typed, Owned, PlaceGiven, GateStays, ChatHolds
  <1>7. OwnerStep
    BY <1>1, <1>2 DEF OwnerStep, PlaceGiven, GateStays, ChatHolds
  <1>8. LoadingIsSomeones' /\ GateIsOwned'
    <2> SUFFICES ASSUME ChatHolds' PROVE LoadingIsSomeones' /\ GateIsOwned'
      BY DEF LoadingIsSomeones, GateIsOwned, ChatHolds
    <2>1. ChatHolds /\ gate' = gate /\ switch.token # chatGen
      BY <1>1 DEF PlaceGiven, GateStays, ChatHolds
    <2> QED
      BY <1>1, <1>3, <2>1 DEF EngineInv, Owned, LoadingIsSomeones, GateIsOwned
  <1>9. Owned'
    BY <1>5, <1>6, <1>8 DEF Owned
  <1>10. TurnLoads' /\ Lined' /\ Counted' /\ Embedded'
    BY <1>1, <1>3 DEF EngineInv, TurnLoads, Lined, Counted, Running, Embedded, EmbedderIsHeld
  <1> QED  BY <1>4, <1>7, <1>9, <1>10 DEF EngineInv

LEMMA SwitchDisposesKeeps ==
  ASSUME EngineInv, SwitchDisposes PROVE EngineInv' /\ OwnerStep
  <1>1. switch.at = "waiting" /\ UNCHANGED <<chatVars, embVars, pickVars, tokenRef, load, turnVars>>
    BY DEF SwitchDisposes
  <1>2. CASE Submit("dispose", Switch) /\ switch' = [switch EXCEPT !.at = "disposing"]
             /\ UNCHANGED gateVars
    <2>1. /\ switch' \in [at : {"off", "waiting", "disposing"}, token : Nat]
          /\ switch'.at = "disposing" /\ switch'.token = switch.token
      BY <1>2 DEF EngineInv, Typed
    <2>2. fifo' \in Seq(Ops) /\ Lined' /\ stage' = stage
      BY <1>1, <1>2, LinedGrows DEF EngineInv, Submit
    <2>3. UNCHANGED <<gate, embedHeld, chatGen, context, chatMem, contextHung, emb, embMem, embHung,
                      appGen, selected, tokenRef, load, turn>>
      BY <1>1, <1>2 DEF gateVars, chatVars, embVars, pickVars, turnVars
    <2>4. Typed'
      BY <2>1, <2>2, <2>3 DEF EngineInv, Typed
    <2>5. \A l \in Slots : LoadOK(l)'
      BY <2>3 DEF EngineInv, Owned, LoadOK
    <2>6. LoadingIsSomeones' /\ GateIsOwned' /\ OwnerStep
      BY <1>1, <2>1, <2>3 DEF EngineInv, Owned, LoadingIsSomeones, GateIsOwned, OwnerStep, ChatHolds
    <2>7. Owned'
      BY <2>1, <2>3, <2>5, <2>6 DEF EngineInv, Owned, ChatHolds
    <2>8. TurnLoads' /\ Counted' /\ Embedded'
      BY <2>2, <2>3 DEF EngineInv, TurnLoads, Counted, Running, Embedded, EmbedderIsHeld
    <2> QED  BY <2>2, <2>4, <2>6, <2>7, <2>8 DEF EngineInv
  <1>3. CASE SwitchEnds /\ UNCHANGED fifoVars
    BY <1>1, <1>3, SwitchEndsKeeps
  <1> QED  BY <1>2, <1>3 DEF SwitchDisposes

LEMMA SwitchSettlesKeeps ==
  ASSUME EngineInv, SwitchSettles PROVE EngineInv' /\ OwnerStep
  BY SwitchEndsKeeps DEF SwitchSettles

LEMMA SendKeeps ==
  ASSUME EngineInv, Send PROVE EngineInv' /\ OwnerStep
  <1>1. Turn \in Slots /\ selected \in Models /\ load[Turn].at = "off"
    BY DEF EngineInv, Typed, Slots, TurnLoads, Send
  <1>2. load' \in [Slots -> Record] /\ StillWaits /\ \A k \in Slots : Steady(k)
    BY <1>1, CalledLoad DEF Send
  <1>3. UNCHANGED <<gateVars, chatVars, embVars, pickVars, tokenRef, switch, fifoVars>>
    BY DEF Send, TurnFrame
  <1>4. Lined' /\ fifo' \in Seq(Ops)
    BY <1>2, <1>3, LinedStays DEF EngineInv, Typed, fifoVars
  <1>5. TurnLoads' /\ ~Running'
    BY DEF Send, TurnLoads, Running
  <1> QED  BY <1>1, <1>2, <1>3, <1>4, <1>5, UserKeeps DEF pickVars, fifoVars

LEMMA TurnStartsKeeps ==
  ASSUME EngineInv, TurnStarts PROVE EngineInv' /\ OwnerStep
  <1>1. /\ load' \in [Slots -> Record] /\ StillWaits /\ \A k \in Slots : Steady(k)
        /\ load'[Turn].at = "off"
    BY ClearedLoad DEF TurnStarts, At
  <1>2. UNCHANGED <<gateVars, chatVars, embVars, pickVars, tokenRef, switch, fifoVars>>
    BY DEF TurnStarts, TurnFrame
  <1>3. Lined' /\ fifo' \in Seq(Ops)
    BY <1>1, <1>2, LinedStays DEF EngineInv, Typed, fifoVars
  <1>4. TurnLoads'
    BY <1>1 DEF TurnLoads
  <1>5. Running' => chatMem > 0 /\ stage # "loading"
    BY DEF EngineInv, Counted, TurnStarts, TurnOver, TurnGoes, Running
  <1> QED  BY <1>1, <1>2, <1>3, <1>4, <1>5, UserKeeps DEF EngineInv, Typed, pickVars, fifoVars

LEMMA WaitKeeps ==
  ASSUME EngineInv, waitForInFlightChatLoad PROVE EngineInv' /\ OwnerStep
  <1>1. /\ Turn \in Slots /\ selected \in Models /\ load[Turn].at = "off"
        /\ UNCHANGED <<gateVars, chatVars, embVars, pickVars, tokenRef, switch, fifoVars>>
    BY DEF EngineInv, Typed, Slots, TurnLoads, waitForInFlightChatLoad, TurnFrame
  <1>2. load' \in [Slots -> Record] /\ StillWaits /\ \A k \in Slots : Steady(k)
    BY <1>1, CalledLoad, UnmovedLoads DEF waitForInFlightChatLoad
  <1>3. Lined' /\ fifo' \in Seq(Ops)
    BY <1>1, <1>2, LinedStays DEF EngineInv, Typed, fifoVars
  <1>4. TurnLoads' /\ ~Running'
    BY <1>1 DEF waitForInFlightChatLoad, TurnOver, TurnGoes, TurnLoads, Running
  <1> QED  BY <1>1, <1>2, <1>3, <1>4, UserKeeps DEF pickVars, fifoVars

\* the turn moves on, or ends, and no load of its own is on its way
LEMMA TurnMoves ==
  ASSUME EngineInv, TurnFrame, load' = load, fifo' \in Seq(Ops), Lined', stage' = stage,
         turn' \notin {"ensure", "again"} => load[Turn].at = "off", Running' => Running
  PROVE  EngineInv' /\ OwnerStep
  <1>1. load' \in [Slots -> Record] /\ \A k \in Slots : Steady(k)
    BY UnmovedLoads
  <1>2. TurnLoads' /\ (Running' => chatMem > 0 /\ stage # "loading")
    BY DEF EngineInv, TurnLoads, Counted
  <1> QED  BY <1>1, <1>2, UserKeeps DEF EngineInv, Typed, TurnFrame, pickVars

LEMMA ToolCalledKeeps ==
  ASSUME EngineInv, ToolCalled PROVE EngineInv' /\ OwnerStep
  <1>1. load' = load /\ Submit("embed", "tool") /\ stage' = stage /\ TurnFrame
    BY DEF ToolCalled, Submit
  <1>2. "tool" \in Slots \cup Callers \cup {Switch}
    BY DEF Callers
  <1>3. fifo' \in Seq(Ops) /\ Lined'
    BY <1>1, <1>2, LinedGrows DEF EngineInv
  <1>4. load[Turn].at = "off" /\ Running
    BY DEF EngineInv, TurnLoads, ToolCalled, Running
  <1> QED  BY <1>1, <1>3, <1>4, TurnMoves

LEMMA IndexerAsksKeeps ==
  ASSUME EngineInv, IndexerAsks PROVE EngineInv' /\ OwnerStep
  <1>1. load' = load /\ Submit("embed", "indexer") /\ stage' = stage /\ turn' = turn /\ TurnFrame
    BY DEF IndexerAsks, Submit, turnVars
  <1>2. "indexer" \in Slots \cup Callers \cup {Switch}
    BY DEF Callers
  <1>3. fifo' \in Seq(Ops) /\ Lined'
    BY <1>1, <1>2, LinedGrows DEF EngineInv
  <1> QED  BY <1>1, <1>3, TurnMoves DEF EngineInv, TurnLoads, Running

LEMMA TurnGoesKeeps ==
  ASSUME EngineInv, ToolReturns \/ TurnEnds \/ Stop \/ StopUnlocks
  PROVE  EngineInv' /\ OwnerStep
  <1>1. TurnFrame /\ UNCHANGED <<fifoVars, load>>
    BY DEF ToolReturns, TurnEnds, Stop, StopUnlocks
  <1>2. StillWaits
    BY <1>1, UnmovedLoads
  <1>3. Lined' /\ fifo' \in Seq(Ops) /\ stage' = stage
    BY <1>1, <1>2, LinedStays DEF EngineInv, Typed, fifoVars
  <1>4. (turn' \notin {"ensure", "again"} => load[Turn].at = "off") /\ (Running' => Running)
    BY DEF EngineInv, TurnLoads, Running, ToolReturns, TurnEnds, Stop, StopUnlocks, TurnOver, TurnGoes
  <1> QED  BY <1>1, <1>3, <1>4, TurnMoves

-----------------------------------------------------------------------------
(* Every step.                                                             *)

LEMMA LoadStepKeeps ==
  ASSUME EngineInv, NEW l \in Slots, LoadStep(l) PROVE EngineInv' /\ OwnerStep
  BY LoadOpensKeeps, LoadProbedKeeps, LoadClaimsKeeps, LoadReclaimsKeeps, LoadGatedKeeps,
     LoadEvictsKeeps, ReportKeeps, FallbackKeeps, LoadClearedKeeps, LoadSubmitsKeeps,
     LoadQueuesKeeps, LoadSettlesKeeps DEF LoadStep

LEMMA NextKeeps ==
  ASSUME EngineInv, [EngineNext]_engineVars PROVE EngineInv' /\ OwnerStep
  <1>1. CASE \E l \in Slots : LoadStep(l)
    BY <1>1, LoadStepKeeps
  <1>2. CASE \E q \in Callers : EmbedStep(q)
    BY <1>2, EnsureEmbedderKeeps, EmbedderStartedKeeps, EmbeddingDoneKeeps DEF EmbedStep
  <1>3. CASE releaseEmbedder
    BY <1>3, ReleaseEmbedderKeeps
  <1>4. CASE EngineStep
    BY <1>4, DisposeEngineKeeps, InitEngineKeeps, ContextReleasedKeeps, DisposeTimesOutKeeps,
       EngineLoadedKeeps, EngineOpenedKeeps DEF EngineStep
  <1>5. CASE SwitchStep
    BY <1>5, SwitchDisposesKeeps, SwitchSettlesKeeps DEF SwitchStep
  <1>6. CASE TurnStep
    BY <1>6, TurnStartsKeeps, WaitKeeps, ToolCalledKeeps, TurnGoesKeeps DEF TurnStep
  <1>7. CASE Probe \/ userReloadModel \/ Send \/ Stop \/ StopUnlocks \/ IndexerAsks
    BY <1>7, ProbeKeeps, UserReloadKeeps, SendKeeps, TurnGoesKeeps, IndexerAsksKeeps
  <1>8. CASE \E m \in Models : selectModel(m)
    BY <1>8, SelectKeeps
  <1>9. CASE Heat \/ Cool \/ UNCHANGED engineVars
    <2>1. UNCHANGED <<gateVars, chatVars, embVars, pickVars, tokenRef, switch, fifoVars, turnVars,
                      load>>
      BY <1>9 DEF Heat, Cool, engineVars
    <2> QED  BY <2>1, NothingKeeps
  <1> QED  BY <1>1, <1>2, <1>3, <1>4, <1>5, <1>6, <1>7, <1>8, <1>9 DEF EngineNext

(* The invariant holds of every behaviour of EngineGate. *)
THEOREM EngineInvariance == EngineSpec => []EngineInv
  <1>1. EngineInit => EngineInv
    BY InitHolds
  <1>2. EngineInv /\ [EngineNext]_engineVars => EngineInv'
    BY NextKeeps
  <1> QED  BY <1>1, <1>2, PTL DEF EngineSpec

(* However loads, switches, stops and timeouts interleave, the place of a resident chat
   can be given back: its token is in the reference, in the switch that took it, or in a
   load (markChatReleased, chatGateGenRef).  A lost token would shut the gate for good. *)
THEOREM GateNeverLeaks == EngineSpec => []GateIsOwned
  <1>1. EngineInv => GateIsOwned
    BY DEF EngineInv, Owned
  <1> QED  BY <1>1, EngineInvariance, PTL

(* "Loading" at the gate is some living load's: every way out of ensureEngineForModel
   opens the gate it shut. *)
THEOREM LoadingHasItsLoad == EngineSpec => []LoadingIsSomeones
  <1>1. EngineInv => LoadingIsSomeones
    BY DEF EngineInv, Owned
  <1> QED  BY <1>1, EngineInvariance, PTL

(* Only the owner of the chat's place gives it back: the load with the newest token or the
   switch that captured it, never a late load's release (the generation in llamaContextGate). *)
THEOREM OwnerAloneFrees == EngineSpec => OwnerFrees
  <1>1. EngineInv /\ [EngineNext]_engineVars => [OwnerStep]_engineVars
    BY NextKeeps
  <1>2. OwnerStep => (ChatHolds /\ ~ChatHolds' =>
       \/ \E l \in Slots : load[l].token = chatGen /\ load'[l] # load[l]
       \/ switch.at # "off" /\ switch.token = chatGen /\ switch' # switch)
    BY DEF OwnerStep
  <1> QED  BY <1>1, <1>2, EngineInvariance, PTL DEF EngineSpec, OwnerFrees

(* The chat never holds two contexts: initEngine frees the old one before it loads. *)
THEOREM OneChatAtATime == EngineSpec => []OneChat
  <1>1. EngineInv => OneChat
    BY DEF EngineInv, Typed, Counted, OneChat
  <1> QED  BY <1>1, EngineInvariance, PTL

(* No context is released while a job runs in it, one that waits for its document tool
   included: disposeEngine waits for the jobs, or gives the context up unreleased. *)
THEOREM NoReleaseUnderAJob == EngineSpec => []ReleaseIsQuiet
  <1>1. EngineInv => ReleaseIsQuiet
    BY DEF EngineInv, Counted, ReleaseIsQuiet, Running
  <1> QED  BY <1>1, EngineInvariance, PTL

(* The embedder's memory is held at the gate, unless its native call was given up: nothing
   drops the handle with its memory still there but markEmbedderHung. *)
THEOREM EmbedderStaysHeld == EngineSpec => []EmbedderIsHeld
  <1>1. EngineInv => EmbedderIsHeld
    BY DEF EngineInv, Embedded
  <1> QED  BY <1>1, EngineInvariance, PTL

-----------------------------------------------------------------------------
(* The types the argument above did without.                               *)

GateTyped ==
  /\ gate \in {"idle", "chat_loading", "chat_ready", "embed_active"} /\ is2B \in BOOLEAN
  /\ strayed \in BOOLEAN

FaceTyped ==
  /\ modelState \in {"checking", "loading", "ready", "error"}
  /\ hopped \in Models \cup {NoModel} /\ probe \in BOOLEAN

WorkTyped ==
  /\ stage \in {"queued", "starting", "closing", "waiting", "draining", "loading", "opening",
               "undoing"}
  /\ context \in Models \cup {NoModel}
  /\ query \in [Callers -> {"off", "asked", "using", "cut"}]

UserTyped ==
  /\ turn \in {"off", "ensure", "again", "wait", "decode", "tool"}
  /\ claimed \in BOOLEAN /\ stopped \in BOOLEAN
  /\ hot \in BOOLEAN /\ acts \in 0 .. MaxActs

AllTyped == GateTyped /\ FaceTyped /\ WorkTyped /\ UserTyped

LEMMA AllTypedStarts == EngineInit => AllTyped
  <1> SUFFICES ASSUME EngineInit PROVE AllTyped
    OBVIOUS
  <1>1. Boot /\ acts = 0
    BY DEF EngineInit
  <1>2. GateTyped /\ FaceTyped
    BY <1>1 DEF Boot, GateTyped, FaceTyped
  <1>3. query \in [Callers -> {"off", "asked", "using", "cut"}]
    BY <1>1 DEF Boot
  <1>4. WorkTyped
    BY <1>1, <1>3 DEF Boot, WorkTyped
  <1>5. UserTyped
    <2>1. 0 \in 0 .. MaxActs
      BY EngineAssumption
    <2> QED  BY <1>1, <2>1 DEF Boot, UserTyped
  <1> QED  BY <1>2, <1>4, <1>5 DEF AllTyped

LEMMA StraysTyped ==
  ASSUME NEW yes, Strays(yes)
  PROVE  (yes \in BOOLEAN => strayed' \in BOOLEAN) /\ acts' = acts
  BY DEF Strays

LEMMA GivesBackTyped ==
  ASSUME GateTyped, NEW l, GivesBack(l)
  PROVE  gate' \in {"idle", "chat_loading", "chat_ready", "embed_active"} /\ is2B' = is2B
  BY DEF GateTyped, GivesBack, markChatReleased, Released

LEMMA GivesUpTyped ==
  ASSUME GateTyped, FaceTyped, NEW l, GivesUp(l)
  PROVE  GateTyped' /\ FaceTyped'
  BY DEF GateTyped, FaceTyped, GivesUp, EmbedFreed, Shows, histVars

LEMMA AdmittedTyped ==
  ASSUME GateTyped, FaceTyped, NEW l, Admitted(l)
  PROVE  GateTyped' /\ FaceTyped'
  BY DEF GateTyped, FaceTyped, Admitted, Shows, histVars

LEMMA RefusedTyped ==
  ASSUME GateTyped, FaceTyped, NEW l, Refused(l)
  PROVE  GateTyped' /\ FaceTyped'
  BY GivesBackTyped DEF GateTyped, FaceTyped, Refused, faceVars, histVars

LEMMA AbandonsTyped ==
  ASSUME GateTyped, FaceTyped, NEW l, Abandons(l), strayed' \in BOOLEAN
  PROVE  GateTyped' /\ FaceTyped'
  BY GivesBackTyped DEF GateTyped, FaceTyped, Abandons, faceVars

LEMMA LoadWorkTyped ==
  ASSUME WorkTyped, UserTyped, NEW l \in Slots, LoadStep(l)
  PROVE  WorkTyped' /\ UserTyped'
  <1>1. UNCHANGED <<context, query, turn, claimed, stopped, hot, acts>>
    BY DEF LoadStep, LoadOpens, LoadProbed, LoadClaims, LoadReclaims, LoadGated, LoadEvicts,
           reportLoadRefusal, runLoadFallback, LoadCleared, LoadSubmits, LoadQueues, LoadSettles,
           Refused, Admitted, GivesUp, Leaves, Strays, chatVars, turnVars, histVars
  <1>2. stage' = stage
    BY DEF LoadStep, LoadOpens, LoadProbed, LoadClaims, LoadReclaims, LoadGated, LoadEvicts,
           reportLoadRefusal, runLoadFallback, LoadCleared, LoadSubmits, LoadQueues, LoadSettles,
           Refused, Admitted, Submit, fifoVars
  <1> QED  BY <1>1, <1>2 DEF WorkTyped, UserTyped

LEMMA LoadGateTyped ==
  ASSUME GateTyped, FaceTyped, NEW l \in Slots, LoadStep(l)
  PROVE  GateTyped' /\ FaceTyped'
  <1>1. CASE LoadOpens(l) \/ LoadProbed(l) \/ reportLoadRefusal(l)
    <2>1. is2B' = is2B \/ is2B' = (load[l].model \in Small)
      BY <1>1 DEF LoadOpens, LoadProbed, reportLoadRefusal, gateVars
    <2>2. is2B' \in BOOLEAN
      <3>1. (load[l].model \in Small) \in BOOLEAN
        OBVIOUS
      <3> QED  BY <2>1, <3>1, Zenon DEF GateTyped
    <2>3. gate' = gate /\ strayed' = strayed
      BY <1>1 DEF LoadOpens, LoadProbed, reportLoadRefusal, gateVars, histVars
    <2>4. FaceTyped'
      BY <1>1 DEF LoadOpens, LoadProbed, reportLoadRefusal, FaceTyped, Shows, faceVars
    <2> QED  BY <2>2, <2>3, <2>4 DEF GateTyped
  <1>2. CASE LoadClaims(l)
    <2>1. is2B' = (load[l].model \in Small)
      BY <1>2 DEF LoadClaims
    <2>2. is2B' \in BOOLEAN
      BY <2>1
    <2>3. gate' \in {gate, "chat_loading"} /\ strayed' = strayed
      BY <1>2 DEF LoadClaims, Claims, tryAcquireChat, histVars
    <2>4. FaceTyped'
      BY <1>2 DEF LoadClaims, FaceTyped, faceVars
    <2> QED  BY <2>2, <2>3, <2>4 DEF GateTyped
  <1>3. CASE LoadReclaims(l)
    BY <1>3 DEF LoadReclaims, Claims, tryAcquireChat, releaseEmbed, EmbedFreed, GateTyped, FaceTyped,
           Shows, gateVars, faceVars, histVars
  <1>4. CASE LoadGated(l) \/ LoadEvicts(l)
    BY <1>4, AdmittedTyped, RefusedTyped DEF LoadGated, LoadEvicts, GateTyped, FaceTyped,
           gateVars, faceVars, histVars
  <1>5. CASE runLoadFallback(l)
    BY <1>5 DEF runLoadFallback, GateTyped, FaceTyped, gateVars, faceVars, histVars
  <1>6. CASE LoadCleared(l) \/ LoadQueues(l)
    BY <1>6, AbandonsTyped, GivesUpTyped DEF LoadCleared, LoadQueues, GateTyped, FaceTyped,
           gateVars, faceVars, histVars
  <1>7. CASE LoadSubmits(l)
    BY <1>7, AbandonsTyped, GivesBackTyped DEF LoadSubmits, GateTyped, FaceTyped, Shows,
           gateVars, faceVars, histVars
  <1>8. CASE LoadSettles(l)
    <2>1. strayed' \in BOOLEAN
      BY <1>8, StraysTyped DEF LoadSettles, Leaves, GateTyped, histVars
    <2> QED
      BY <1>8, <2>1, AbandonsTyped, GivesBackTyped DEF LoadSettles, markChatReady, GateTyped,
         FaceTyped, Shows, faceVars
  <1> QED  BY <1>1, <1>2, <1>3, <1>4, <1>5, <1>6, <1>7, <1>8 DEF LoadStep

LEMMA AnswerTyped ==
  ASSUME WorkTyped, NEW q \in Callers, NEW said \in {"off", "asked", "using", "cut"}, Answer(q, said)
  PROVE  query' \in [Callers -> {"off", "asked", "using", "cut"}]
  BY DEF WorkTyped, Answer

LEMMA EmbedTyped ==
  ASSUME AllTyped, releaseEmbedder \/ \E q \in Callers : EmbedStep(q)
  PROVE  AllTyped'
  <1>1. UNCHANGED <<is2B, strayed, acts, context, turn, claimed, stopped, hot>> /\ FaceTyped'
    BY DEF AllTyped, FaceTyped, releaseEmbedder, EmbedStep, ensureEmbedder, EmbedderStarted,
           EmbeddingDone, tryAcquireEmbed, releaseEmbed, chatVars, turnVars, histVars, gateVars, faceVars
  <1>2. GateTyped'
    BY <1>1 DEF AllTyped, GateTyped, releaseEmbedder, EmbedStep, ensureEmbedder, EmbedderStarted,
           EmbeddingDone, tryAcquireEmbed, releaseEmbed, EmbedFreed, gateVars
  <1>3. query' \in [Callers -> {"off", "asked", "using", "cut"}]
    BY AnswerTyped DEF AllTyped, WorkTyped, releaseEmbedder, EmbedStep, ensureEmbedder, EmbedderStarted,
           EmbeddingDone, Granted
  <1>4. stage' \in {stage, "queued", "starting", "closing"}
    BY DEF releaseEmbedder, EmbedStep, ensureEmbedder, EmbedderStarted, EmbeddingDone, Granted, Settle
  <1> QED  BY <1>1, <1>2, <1>3, <1>4 DEF AllTyped, WorkTyped, UserTyped

LEMMA EngineTyped ==
  ASSUME EngineInv, AllTyped, EngineStep
  PROVE  AllTyped'
  <1>1. /\ UNCHANGED <<gateVars, faceVars, turnVars, hot, query>>
    BY DEF EngineStep, disposeEngine, initEngine, ContextReleased, DisposeTimesOut, EngineLoaded,
           EngineOpened
  <1>2. stage' \in {"queued", "waiting", "draining", "loading", "opening", "undoing"}
    BY DEF EngineStep, disposeEngine, initEngine, ContextReleased, DisposeTimesOut, EngineLoaded,
           EngineOpened, Invalidate, EngineSettles, Settle
  <1>3. context' \in Models \cup {NoModel}
    <2>1. CASE EngineLoaded /\ context' # context
      <3>1. fifo # <<>> /\ fifo[1].kind = "init" /\ context' = load[fifo[1].by].model
        BY <2>1 DEF EngineLoaded, First
      <3>2. 1 \in 1 .. Len(fifo)
        BY <3>1 DEF EngineInv, Typed
      <3>3. fifo[1].by \in Slots
        BY <3>1, <3>2 DEF EngineInv, Lined
      <3> QED  BY <3>1, <3>3 DEF EngineInv, Typed, Record
    <2>2. CASE ~(EngineLoaded /\ context' # context)
      BY <2>2 DEF AllTyped, WorkTyped, EngineStep, disposeEngine, initEngine, ContextReleased,
         DisposeTimesOut, EngineOpened, Invalidate, chatVars
    <2> QED  BY <2>1, <2>2
  <1>4. strayed' \in BOOLEAN /\ acts' = acts
    <2>1. UNCHANGED histVars \/ \E yes \in BOOLEAN : Strays(yes)
      <3>1. \A l : (strayed /\ ~Placed(l)) \in BOOLEAN /\ (~Placed(l)) \in BOOLEAN
        BY DEF Placed
      <3>2. CASE initEngine
        BY <3>1, <3>2, Zenon DEF initEngine
      <3>3. CASE ContextReleased
        BY <3>1, <3>3, Zenon DEF ContextReleased
      <3>4. CASE disposeEngine \/ DisposeTimesOut \/ EngineLoaded \/ EngineOpened
        BY <3>4 DEF disposeEngine, DisposeTimesOut, EngineLoaded, EngineOpened
      <3> QED  BY <3>2, <3>3, <3>4 DEF EngineStep
    <2> QED  BY <2>1, StraysTyped DEF AllTyped, GateTyped, histVars
  <1> QED  BY <1>1, <1>2, <1>3, <1>4 DEF AllTyped, GateTyped, FaceTyped, WorkTyped, UserTyped, gateVars,
              faceVars, turnVars

LEMMA SwitchTyped ==
  ASSUME AllTyped, SwitchStep \/ \E m \in Models : selectModel(m)
  PROVE  AllTyped'
  <1>1. UNCHANGED <<stage, context, query, turn, claimed, stopped, hot>>
    BY DEF SwitchStep, SwitchDisposes, SwitchSettles, selectModel, Submit, fifoVars, chatVars, turnVars
  <1>2. acts' \in 0 .. MaxActs
    <2>1. CASE SwitchStep
      BY <2>1 DEF AllTyped, UserTyped, SwitchStep, SwitchDisposes, SwitchSettles, SwitchEnds, Leaves,
         Strays, histVars
    <2>2. CASE \E m \in Models : selectModel(m)
      <3>1. acts < MaxActs /\ acts' = acts + 1
        BY <2>2 DEF selectModel, Act
      <3> QED  BY <3>1, EngineAssumption DEF AllTyped, UserTyped
    <2> QED  BY <2>1, <2>2
  <1>3. strayed' \in BOOLEAN
    <2>1. CASE SwitchEnds
      BY <2>1, StraysTyped DEF SwitchEnds, Leaves
    <2>2. CASE ~SwitchEnds
      BY <2>2 DEF AllTyped, GateTyped, SwitchStep, SwitchDisposes, SwitchSettles, selectModel, Act,
         histVars
    <2> QED  BY <2>1, <2>2
  <1>4. GateTyped' /\ FaceTyped'
    BY <1>3 DEF AllTyped, GateTyped, FaceTyped, SwitchStep, SwitchDisposes, SwitchSettles, SwitchEnds,
       markChatReleased, Released, selectModel, Shows, gateVars, faceVars
  <1> QED  BY <1>1, <1>2, <1>4 DEF AllTyped, WorkTyped, UserTyped

LEMMA UserStepTyped ==
  ASSUME AllTyped,
         \/ TurnStep \/ Probe \/ userReloadModel \/ Send \/ Stop \/ StopUnlocks
         \/ IndexerAsks \/ Heat \/ Cool
  PROVE  AllTyped'
  <1>1. UNCHANGED <<gateVars, strayed, stage, context>>
    BY DEF TurnStep, TurnStarts, waitForInFlightChatLoad, ToolCalled, ToolReturns, TurnEnds, Probe,
       userReloadModel, Send, Stop, StopUnlocks, IndexerAsks, Heat, Cool, Act, TurnFrame, Submit,
       fifoVars, chatVars, histVars
  <1>2. FaceTyped'
    BY DEF AllTyped, FaceTyped, TurnStep, TurnStarts, waitForInFlightChatLoad, ToolCalled, ToolReturns,
       TurnEnds, Probe, userReloadModel, Send, Stop, StopUnlocks, IndexerAsks, Heat, Cool, TurnFrame,
       faceVars
  <1>3. query' \in [Callers -> {"off", "asked", "using", "cut"}]
    BY AnswerTyped DEF AllTyped, WorkTyped, Callers, TurnStep, TurnStarts, waitForInFlightChatLoad,
       ToolCalled, ToolReturns, TurnEnds, Probe, userReloadModel, Send, Stop, StopUnlocks, IndexerAsks,
       Heat, Cool
  <1>4. turn' \in {"off", "ensure", "again", "wait", "decode", "tool"} /\ claimed' \in BOOLEAN
        /\ stopped' \in BOOLEAN /\ hot' \in BOOLEAN
    BY DEF AllTyped, UserTyped, TurnStep, TurnStarts, waitForInFlightChatLoad, ToolCalled, ToolReturns,
       TurnEnds, TurnOver, TurnGoes, TurnFrame, Probe, userReloadModel, Send, Stop, StopUnlocks,
       IndexerAsks, Heat, Cool, turnVars
  <1>5. acts' \in 0 .. MaxActs
    BY EngineAssumption DEF AllTyped, UserTyped, TurnStep, TurnStarts, waitForInFlightChatLoad,
       ToolCalled, ToolReturns, TurnEnds, Probe, userReloadModel, Send, Stop, StopUnlocks, IndexerAsks,
       Heat, Cool, Act, histVars
  <1> QED  BY <1>1, <1>2, <1>3, <1>4, <1>5 DEF AllTyped, GateTyped, WorkTyped, UserTyped, gateVars

LEMMA AllTypedNext ==
  ASSUME EngineInv, AllTyped, [EngineNext]_engineVars
  PROVE  AllTyped'
  <1>1. CASE \E l \in Slots : LoadStep(l)
    BY <1>1, LoadWorkTyped, LoadGateTyped DEF AllTyped
  <1>2. CASE releaseEmbedder \/ \E q \in Callers : EmbedStep(q)
    BY <1>2, EmbedTyped
  <1>3. CASE EngineStep
    BY <1>3, EngineTyped
  <1>4. CASE SwitchStep \/ \E m \in Models : selectModel(m)
    BY <1>4, SwitchTyped
  <1>5. CASE \/ TurnStep \/ Probe \/ userReloadModel \/ Send \/ Stop \/ StopUnlocks
             \/ IndexerAsks \/ Heat \/ Cool
    BY <1>5, UserStepTyped
  <1>6. CASE UNCHANGED engineVars
    BY <1>6 DEF AllTyped, GateTyped, FaceTyped, WorkTyped, UserTyped, engineVars, gateVars, fifoVars,
       chatVars, faceVars, turnVars, histVars
  <1> QED  BY <1>1, <1>2, <1>3, <1>4, <1>5, <1>6 DEF EngineNext

\* The engine's state keeps its types; no load and no reference holds a gate token that was
\* never handed out (chatGen), or a generation of the app that is still to come.
THEOREM EngineTypes == EngineSpec => []EngineTypeOK
  <1>1. EngineInit => EngineInv /\ AllTyped
    BY InitHolds, AllTypedStarts
  <1>2. EngineInv /\ AllTyped /\ [EngineNext]_engineVars => (EngineInv /\ AllTyped)'
    BY NextKeeps, AllTypedNext
  <1>3. EngineInv /\ AllTyped => EngineTypeOK
    <2> SUFFICES ASSUME EngineInv, AllTyped PROVE EngineTypeOK
      OBVIOUS
    <2>1. Typed /\ Owned /\ Counted
      BY DEF EngineInv
    <2>2. chatMem \in 0 .. 2
      BY <2>1 DEF Typed, Counted
    <2>3. tokenRef \in 0 .. chatGen /\ switch.token \in 0 .. chatGen
      BY <2>1 DEF Typed, Owned
    <2>4. \A l \in Slots : load[l] \in [at : LoadSteps, model : Models \cup {NoModel}, gen : 0 .. appGen,
                                         token : 0 .. chatGen, ok : BOOLEAN]
      BY <2>1 DEF Typed, Record, Owned, LoadOK
    <2>5. load \in [Slots -> [at : LoadSteps, model : Models \cup {NoModel}, gen : 0 .. appGen,
                             token : 0 .. chatGen, ok : BOOLEAN]]
      BY <2>1, <2>4 DEF Typed
    <2>6. switch \in [at : {"off", "waiting", "disposing"}, token : 0 .. chatGen]
      BY <2>1, <2>3 DEF Typed
    <2> QED  BY <2>1, <2>2, <2>3, <2>5, <2>6 DEF EngineTypeOK, Typed, Ops, AllTyped, GateTyped,
                FaceTyped, WorkTyped, UserTyped
  <1> QED  BY <1>1, <1>2, <1>3, PTL DEF EngineSpec

-----------------------------------------------------------------------------
(* One budget, below the co-residency threshold: the gate keeps the two    *)
(* apart (Apart), and the chat's memory is there only behind the gate, or  *)
(* marked (Kept).                                                          *)

\* the gate: held for a chat or open, it does not hold the embedder
Apart ==
  /\ gate \in {"idle", "chat_loading", "chat_ready", "embed_active"}
  /\ ChatHolds \/ gate = "idle" => ~embedHeld

\* the memory: the gate is held while it is there, and a load that holds the gate over it
\* is one whose native call is in the line -- the loads before that hold an empty place
Kept ==
  /\ strayed \in BOOLEAN
  /\ ~strayed /\ chatMem > 0 =>
       \/ contextHung
       \/ ChatHolds /\ \A l \in Slots : load[l].token = chatGen => load[l].at = "initing"

Budget == Apart /\ Kept

LEMMA BudgetStarts == EngineInit => Budget
  <1> SUFFICES ASSUME Boot PROVE Budget
    BY DEF EngineInit
  <1>1. gate = "idle" /\ embedHeld = FALSE /\ strayed = FALSE /\ chatMem = 0
    BY DEF Boot
  <1>2. Apart
    BY <1>1 DEF Apart
  <1>3. strayed \in BOOLEAN
    BY <1>1
  <1>4. ~(chatMem > 0)
    BY <1>1
  <1> QED  BY <1>2, <1>3, <1>4 DEF Budget, Kept

-----------------------------------------------------------------------------
(* The gate's operations keep the two apart.                               *)

LEMMA ApartGiven ==
  ASSUME Apart, NEW token, gate' = Released(token, embedHeld), embedHeld' = embedHeld
  PROVE  Apart'
  BY DEF Apart, Released, ChatHolds

LEMMA ApartFreed ==
  ASSUME Apart, releaseEmbed
  PROVE  Apart'
  BY DEF Apart, releaseEmbed, EmbedFreed, ChatHolds

LEMMA ApartTaken ==
  ASSUME ~HighMem, Apart, tryAcquireEmbed
  PROVE  Apart'
  BY DEF Apart, tryAcquireEmbed, MayAcquireEmbed, allowsCoResidency, ChatHolds

LEMMA ApartClaimed ==
  ASSUME ~HighMem, Apart, NEW two, MayAcquireChat(two), tryAcquireChat
  PROVE  Apart' /\ ~ChatHolds /\ ChatHolds'
  BY DEF Apart, MayAcquireChat, tryAcquireChat, allowsCoResidency, ChatHolds

-----------------------------------------------------------------------------
(* The chat's place: kept, given back, taken.                              *)

\* what a load's step leaves alone
Elsewhere == UNCHANGED <<chatMem, contextHung, appGen, switch>>

\* a load that takes no token, and does not leave its native call with one
GoesWell(l) ==
  load'[l].token # 0 => /\ load'[l].token = load[l].token
                        /\ load[l].at = "initing" => load'[l].at = "initing"

LEMMA KeptStays ==
  ASSUME EngineInv, Kept, \A l \in Slots : GoesWell(l), ChatHolds' <=> ChatHolds,
         UNCHANGED <<chatGen, chatMem, contextHung, strayed>>
  PROVE  Kept'
  BY DEF EngineInv, Owned, Kept, GoesWell

\* a step of one load; a native call is left without a token
LEMMA OneGoesWell ==
  ASSUME EngineInv, NEW l \in Slots, Moves(l), load'[l].token \in {0, load[l].token},
         load[l].at = "initing" => load'[l].token = 0
  PROVE  \A k \in Slots : GoesWell(k)
  BY DEF GoesWell, Moves

LEMMA EndsWell ==
  ASSUME EngineInv, NEW l \in Slots, NEW ok \in BOOLEAN, Ends(l, ok)
  PROVE  \A k \in Slots : GoesWell(k)
  BY EndsFacts, OneGoesWell DEF EngineInv

LEMMA MovesWell ==
  ASSUME EngineInv, NEW l \in Slots, NEW at \in LoadSteps, Goes(l, at), load[l].at # "initing"
  PROVE  \A k \in Slots : GoesWell(k)
  BY GoesFacts, OneGoesWell DEF EngineInv

(* A load gives its place back: before its native call the place is empty, or marked
   already; after it, the memory is marked. *)
LEMMA KeptGiven ==
  ASSUME EngineInv, Kept, NEW l \in Slots, PlaceGiven(load[l].token), Moves(l),
         load'[l].token = 0, UNCHANGED <<chatGen, chatMem, contextHung>>,
         (strayed' = strayed /\ load[l].at # "initing") \/ Leaves(load[l].token)
  PROVE  Kept'
  <1>1. \A k \in Slots : load'[k].token = chatGen /\ ChatHolds => load'[k] = load[k]
    BY DEF Moves, EngineInv, Owned
  <1>2. strayed' \in BOOLEAN /\ (strayed => strayed')
    BY DEF Kept, Leaves, Strays
  <1>3. CASE load[l].token = chatGen /\ ChatHolds
    <2>1. chatMem > 0 /\ ~strayed' => contextHung
      BY <1>3 DEF Kept, Leaves, Strays
    <2> QED  BY <1>2, <2>1 DEF Kept
  <1>4. CASE ~(load[l].token = chatGen /\ ChatHolds)
    <2>1. ChatHolds' <=> ChatHolds
      BY <1>4 DEF PlaceGiven, GateStays, ChatHolds
    <2> QED  BY <1>1, <1>2, <2>1 DEF Kept
  <1> QED  BY <1>3, <1>4

(* The switch gives back the token it took, and the memory behind it is marked. *)
LEMMA KeptSwitched ==
  ASSUME EngineInv, Kept, SwitchEnds, UNCHANGED <<load, chatMem, contextHung>>
  PROVE  Kept'
  <1>1. PlaceGiven(switch.token) /\ chatGen' = chatGen
    BY GivenBack DEF EngineInv, SwitchEnds
  <1>2. /\ strayed' \in BOOLEAN /\ (strayed => strayed')
        /\ chatMem > 0 /\ ChatHolds /\ switch.token = chatGen => strayed'
    BY DEF Kept, SwitchEnds, Leaves, Strays
  <1>3. ChatHolds /\ switch.token # chatGen => ChatHolds'
    BY <1>1 DEF PlaceGiven, GateStays, ChatHolds
  <1> QED  BY <1>1, <1>2, <1>3 DEF Kept

-----------------------------------------------------------------------------
(* The steps of a load.                                                    *)

\* a load that moves, with the gate as it was or open for the embedder
LEMMA BudgetQuiet ==
  ASSUME EngineInv, Budget, Elsewhere, \A k \in Slots : GoesWell(k),
         UNCHANGED <<gate, embedHeld>> \/ releaseEmbed, UNCHANGED <<chatGen, strayed>>
  PROVE  Budget'
  <1>1. Apart' /\ (ChatHolds' <=> ChatHolds)
    BY ApartFreed DEF Budget, Apart, ChatHolds, releaseEmbed, EmbedFreed
  <1> QED  BY <1>1, KeptStays DEF Budget, Elsewhere

LEMMA BudgetGiven ==
  ASSUME EngineInv, Budget, Elsewhere, NEW l \in Slots, GivesBack(l), Moves(l),
         load'[l].token = 0,
         (strayed' = strayed /\ load[l].at # "initing") \/ Leaves(load[l].token)
  PROVE  Budget'
  <1>1. PlaceGiven(load[l].token) /\ UNCHANGED <<chatGen, embedHeld>>
    BY GivenBack DEF EngineInv, GivesBack
  <1>2. Apart'
    BY ApartGiven DEF Budget, GivesBack, markChatReleased
  <1> QED  BY <1>1, <1>2, KeptGiven DEF Budget, Elsewhere

LEMMA BudgetEnds ==
  ASSUME EngineInv, Budget, Elsewhere, NEW l \in Slots, NEW ok \in BOOLEAN, GivesBack(l), Ends(l, ok),
         (strayed' = strayed /\ load[l].at # "initing") \/ Leaves(load[l].token)
  PROVE  Budget'
  <1>1. Moves(l) /\ load'[l].token = 0
    BY EndsFacts DEF EngineInv
  <1> QED  BY <1>1, BudgetGiven

LEMMA BudgetGivesUp ==
  ASSUME EngineInv, Budget, Elsewhere, NEW l \in Slots, GivesUp(l), load[l].at # "initing"
  PROVE  Budget'
  <1>1. PlaceGiven(load[l].token) /\ chatGen' = chatGen /\ Apart' /\ strayed' = strayed
    BY DEF GivesUp, PlaceGiven, GateStays, ChatHolds, EmbedFreed, Budget, Apart, histVars
  <1>2. Moves(l) /\ load'[l].token = 0
    BY EndsFacts DEF EngineInv, GivesUp
  <1> QED  BY <1>1, <1>2, KeptGiven DEF Budget, Elsewhere

(* A load takes the place: nobody was behind the gate, so the memory was marked, or none. *)
LEMMA BudgetClaims ==
  ASSUME ~HighMem, EngineInv, Budget, Elsewhere, NEW two, MayAcquireChat(two), tryAcquireChat,
         strayed' = strayed
  PROVE  Budget'
  <1>1. Apart' /\ ~ChatHolds
    BY ApartClaimed DEF Budget
  <1>2. Kept'
    BY <1>1 DEF Budget, Kept, Elsewhere
  <1> QED  BY <1>1, <1>2 DEF Budget

LEMMA BudgetRefused ==
  ASSUME EngineInv, Budget, Elsewhere, NEW l \in Slots, Refused(l), load[l].at # "initing"
  PROVE  Budget'
  <1>1. load \in [Slots -> Record] /\ "reporting" \in LoadSteps
    BY DEF EngineInv, Typed, LoadSteps
  <1>2. [load[l] EXCEPT !.at = "reporting", !.token = 0] \in Record
    BY <1>1 DEF Record
  <1>3. load' = [load EXCEPT ![l] = [load[l] EXCEPT !.at = "reporting", !.token = 0]]
    BY <1>1 DEF Refused, Record
  <1>4. Moves(l) /\ load'[l].token = 0
    BY <1>1, <1>2, <1>3 DEF Moves, Record
  <1> QED  BY <1>4, BudgetGiven DEF Refused, histVars

LEMMA BudgetLoad ==
  ASSUME ~HighMem, EngineInv, Budget, NEW l \in Slots, LoadStep(l)
  PROVE  Budget'
  <1>2. CASE LoadOpens(l)
    <2>1. Elsewhere /\ UNCHANGED <<gate, embedHeld, chatGen, strayed>>
      BY <1>2 DEF LoadOpens, Elsewhere, gateVars, chatVars, pickVars, histVars
    <2>2. CASE \E ok \in BOOLEAN : Ends(l, ok)
      BY <2>1, <2>2, EndsWell, BudgetQuiet
    <2>3. CASE load' = [load EXCEPT ![l].at = "probing", ![l].gen = appGen]
      <3>1. load[l].token = 0 /\ load[l].at = "called"
        BY <1>2 DEF EngineInv, Owned, LoadOK, Tokenless, LoadOpens, At
      <3>2. \A k \in Slots : GoesWell(k)
        BY <2>3, <3>1 DEF EngineInv, Typed, Record, GoesWell
      <3> QED  BY <2>1, <3>2, BudgetQuiet
    <2> QED  BY <1>2, <2>2, <2>3 DEF LoadOpens
  <1>3. CASE LoadProbed(l)
    <2>1. Elsewhere /\ UNCHANGED <<gate, embedHeld, chatGen, strayed>> /\ load[l].at # "initing"
      BY <1>3 DEF LoadProbed, At, Elsewhere, chatVars, pickVars, histVars
    <2>2. CASE Ends(l, FALSE)
      BY <2>1, <2>2, EndsWell, BudgetQuiet
    <2>3. CASE Goes(l, "claiming")
      BY <2>1, <2>3, MovesWell, BudgetQuiet DEF LoadSteps
    <2> QED  BY <1>3, <2>2, <2>3 DEF LoadProbed
  <1>4. CASE LoadClaims(l)
    <2>1. Elsewhere /\ strayed' = strayed /\ load[l].at # "initing"
      BY <1>4 DEF LoadClaims, At, Elsewhere, chatVars, pickVars, histVars
    <2>2. CASE MayAcquireChat(load[l].model \in Small) /\ Claims(l)
      BY <2>1, <2>2, BudgetClaims DEF Claims
    <2>3. CASE Ends(l, FALSE) /\ UNCHANGED <<gate, embedHeld, chatGen>>
      BY <2>1, <2>3, EndsWell, BudgetQuiet
    <2>4. CASE Goes(l, "freeing") /\ UNCHANGED <<gate, embedHeld, chatGen>>
      BY <2>1, <2>4, MovesWell, BudgetQuiet DEF LoadSteps
    <2> QED  BY <1>4, <2>2, <2>3, <2>4 DEF LoadClaims
  <1>5. CASE LoadReclaims(l)
    <2>1. Elsewhere /\ strayed' = strayed
      BY <1>5 DEF LoadReclaims, Elsewhere, chatVars, pickVars, histVars
    <2>2. CASE MayAcquireChat(is2B) /\ Claims(l)
      BY <2>1, <2>2, BudgetClaims DEF Claims
    <2>3. CASE Ends(l, FALSE) /\ UNCHANGED gateVars
      BY <2>1, <2>3, EndsWell, BudgetQuiet DEF gateVars
    <2>4. CASE releaseEmbed /\ Ends(l, FALSE)
      BY <2>1, <2>4, EndsWell, BudgetQuiet DEF releaseEmbed
    <2> QED  BY <1>5, <2>2, <2>3, <2>4 DEF LoadReclaims
  <1>6. CASE LoadGated(l) \/ LoadEvicts(l)
    <2>1. Elsewhere /\ load[l].at \in {"gating", "evicting", "evicted"}
      BY <1>6 DEF LoadGated, LoadEvicts, At, Elsewhere, chatVars, pickVars
    <2>2. CASE Refused(l)
      BY <2>1, <2>2, BudgetRefused
    <2>3. ASSUME NEW at \in {"clearing", "evicting", "evicted"}, Goes(l, at),
                 UNCHANGED <<gate, embedHeld, chatGen, strayed>>
          PROVE  Budget'
      BY <2>1, <2>3, MovesWell, BudgetQuiet DEF LoadSteps
    <2>4. CASE Admitted(l)
      BY <2>3, <2>4 DEF Admitted, histVars
    <2> QED  BY <1>6, <2>2, <2>3, <2>4 DEF LoadGated, LoadEvicts, gateVars, histVars
  <1>7. CASE reportLoadRefusal(l)
    <2>1. Elsewhere /\ UNCHANGED <<gate, embedHeld, chatGen, strayed>> /\ load[l].at # "initing"
      BY <1>7 DEF reportLoadRefusal, At, Elsewhere, gateVars, chatVars, pickVars, histVars
    <2> QED  BY <1>7, <2>1, MovesWell, BudgetQuiet DEF reportLoadRefusal, LoadSteps
  <1>8. CASE runLoadFallback(l)
    <2>1. Elsewhere /\ UNCHANGED <<gate, embedHeld, chatGen, strayed>>
      BY <1>8 DEF runLoadFallback, Elsewhere, gateVars, chatVars, pickVars, histVars
    <2>2. CASE Ends(l, FALSE)
      BY <2>1, <2>2, EndsWell, BudgetQuiet
    <2>3. ASSUME NEW m \in Models,
                 load' = [[load EXCEPT ![l] = Ended(l, FALSE)] EXCEPT !["hop"] = Called(m)]
          PROVE  Budget'
      <3>1. load \in [Slots -> Record] /\ "hop" \in Slots
        BY DEF EngineInv, Typed, Slots
      <3>2. /\ load'["hop"] = Called(m) /\ (l # "hop" => load'[l] = Ended(l, FALSE))
            /\ \A k \in Slots \ {l, "hop"} : load'[k] = load[k]
        BY <2>3, <3>1
      <3>3. \A k \in Slots : GoesWell(k)
        <4> SUFFICES ASSUME NEW k \in Slots PROVE GoesWell(k)
          OBVIOUS
        <4>1. CASE k = "hop"
          BY <3>2, <4>1, CalledFacts DEF GoesWell
        <4>2. CASE k = l /\ l # "hop"
          BY <3>2, <4>2, EndedFacts DEF GoesWell
        <4>3. CASE k \notin {l, "hop"}
          BY <3>2, <4>3 DEF GoesWell
        <4> QED  BY <4>1, <4>2, <4>3
      <3> QED  BY <2>1, <3>3, BudgetQuiet
    <2> QED  BY <1>8, <2>2, <2>3 DEF runLoadFallback
  <1>9. CASE LoadCleared(l) \/ LoadSubmits(l) \/ LoadQueues(l)
    <2>1. Elsewhere /\ load[l].at \in {"clearing", "submitting", "queueing"} /\ strayed' = strayed
      BY <1>9 DEF LoadCleared, LoadSubmits, LoadQueues, GivesUp, At, Elsewhere, chatVars, pickVars,
         histVars
    <2>2. CASE GivesBack(l) /\ Ends(l, FALSE)
      BY <2>1, <2>2, BudgetEnds
    <2>3. CASE GivesUp(l)
      BY <2>1, <2>3, BudgetGivesUp
    <2>4. ASSUME NEW at \in {"submitting", "queueing", "initing"}, Goes(l, at),
                 UNCHANGED <<gate, embedHeld, chatGen>>
          PROVE  Budget'
      BY <2>1, <2>4, MovesWell, BudgetQuiet DEF LoadSteps
    <2>5. CASE LoadCleared(l)
      BY <2>2, <2>3, <2>4, <2>5 DEF LoadCleared, Abandons, gateVars
    <2>6. CASE LoadSubmits(l)
      BY <2>2, <2>4, <2>6 DEF LoadSubmits, Abandons, gateVars
    <2>7. CASE LoadQueues(l)
      BY <2>3, <2>4, <2>7 DEF LoadQueues, gateVars
    <2> QED  BY <1>9, <2>5, <2>6, <2>7
  <1>10. CASE LoadSettles(l)
    <2>1. Elsewhere
      BY <1>10 DEF LoadSettles, Elsewhere, chatVars, pickVars
    <2>2. CASE GivesBack(l) /\ Ends(l, FALSE) /\ Leaves(load[l].token)
      BY <2>1, <2>2, BudgetEnds
    <2>3. CASE markChatReady(load[l].token) /\ Ends(l, TRUE) /\ UNCHANGED histVars
      <3>1. Apart' /\ (ChatHolds' <=> ChatHolds) /\ chatGen' = chatGen
        BY <2>3 DEF Budget, Apart, markChatReady, ChatHolds
      <3> QED
        BY <2>1, <2>3, <3>1, EndsWell, KeptStays DEF Budget, Elsewhere, histVars
    <2> QED  BY <1>10, <2>2, <2>3 DEF LoadSettles, Abandons
  <1> QED
    BY <1>2, <1>3, <1>4, <1>5, <1>6, <1>7, <1>8, <1>9, <1>10 DEF LoadStep

-----------------------------------------------------------------------------
(* Every other step.                                                       *)

LEMMA BudgetEmbed ==
  ASSUME ~HighMem, EngineInv, Budget, releaseEmbedder \/ \E q \in Callers : EmbedStep(q)
  PROVE  Budget'
  <1>1. /\ Elsewhere /\ UNCHANGED <<strayed, load>>
        /\ UNCHANGED gateVars \/ releaseEmbed \/ tryAcquireEmbed
    BY DEF releaseEmbedder, EmbedStep, ensureEmbedder, EmbedderStarted, EmbeddingDone, Elsewhere,
       chatVars, pickVars, histVars
  <1>2. Apart' /\ (ChatHolds' <=> ChatHolds) /\ chatGen' = chatGen
    <2>1. CASE UNCHANGED gateVars
      BY <2>1 DEF Budget, Apart, ChatHolds, gateVars
    <2>2. CASE releaseEmbed
      BY <2>2, ApartFreed DEF Budget, ChatHolds, releaseEmbed, EmbedFreed
    <2>3. CASE tryAcquireEmbed
      BY <2>3, ApartTaken DEF Budget, ChatHolds, tryAcquireEmbed
    <2> QED  BY <1>1, <2>1, <2>2, <2>3
  <1>3. \A l \in Slots : GoesWell(l)
    BY <1>1 DEF GoesWell
  <1> QED  BY <1>1, <1>2, <1>3, KeptStays DEF Budget, Elsewhere

(* What an operation of the engine leaves of the memory: none, or what was there, or what
   a load took -- behind its own place, or marked. *)
LEMMA KeptAtWork ==
  ASSUME EngineInv, Kept, ChatHolds' <=> ChatHolds, chatGen' = chatGen, strayed' \in BOOLEAN,
         \A k \in Slots : load'[k].at = load[k].at /\ load'[k].token = load[k].token,
         \/ ~(chatMem' > 0) \/ contextHung' \/ strayed'
         \/ chatMem' = chatMem /\ ~strayed /\ contextHung' = contextHung
         \/ \E l \in Slots : Placed(l) /\ load[l].at = "initing"
  PROVE  Kept'
  <1>1. CASE chatMem' = chatMem /\ ~strayed /\ contextHung' = contextHung
    BY <1>1 DEF Kept
  <1>2. ASSUME NEW l \in Slots, Placed(l), load[l].at = "initing" PROVE Kept'
    <2>1. \A k \in Slots : load[k].token = chatGen => k = l
      BY <1>2 DEF Placed, EngineInv, Owned, LoadOK
    <2> QED  BY <1>2, <2>1 DEF Kept, Placed
  <1> QED  BY <1>1, <1>2 DEF Kept

LEMMA BudgetEngine ==
  ASSUME EngineInv, Budget, EngineStep
  PROVE  Budget'
  <1>1. UNCHANGED <<gate, embedHeld, chatGen>> /\ fifo # <<>>
    BY DEF EngineStep, disposeEngine, initEngine, ContextReleased, DisposeTimesOut, EngineLoaded,
       EngineOpened, First, Waits, gateVars
  <1>2. Apart' /\ (ChatHolds' <=> ChatHolds)
    BY <1>1 DEF Budget, Apart, ChatHolds
  <1>3. \A k \in Slots : load'[k].at = load[k].at /\ load'[k].token = load[k].token
    <2>1. load' = load \/ EngineSettles(TRUE) \/ EngineSettles(FALSE)
      BY DEF EngineStep, disposeEngine, initEngine, ContextReleased, DisposeTimesOut, EngineLoaded,
         EngineOpened, Invalidate
    <2> QED  BY <1>1, <2>1, SettlesFacts
  <1>4. fifo[1].kind = "init" => fifo[1].by \in Slots /\ load[fifo[1].by].at = "initing"
    <2>1. 1 \in 1 .. Len(fifo)
      BY <1>1 DEF EngineInv, Typed
    <2> QED  BY <2>1 DEF EngineInv, Lined
  <1>5. strayed \in BOOLEAN /\ contextHung \in BOOLEAN /\ chatMem \in Nat /\ Counted
    BY DEF Budget, Kept, EngineInv, Typed
  <1>6. CASE UNCHANGED histVars /\ UNCHANGED chatMem /\ (contextHung' = contextHung \/ contextHung')
    BY <1>1, <1>2, <1>3, <1>5, <1>6, KeptAtWork DEF Budget, histVars
  <1>7. CASE initEngine /\ Strays(strayed /\ ~Placed(fifo[1].by))
    <2>1. fifo[1].kind = "init" /\ UNCHANGED <<chatMem, contextHung>>
      BY <1>7 DEF initEngine, First, Invalidate, chatVars
    <2>2. strayed' = (strayed /\ ~Placed(fifo[1].by))
      BY <1>7 DEF Strays
    <2>3. CASE Placed(fifo[1].by)
      BY <1>1, <1>2, <1>3, <1>4, <2>1, <2>2, <2>3, KeptAtWork DEF Budget
    <2>4. CASE ~Placed(fifo[1].by)
      BY <1>1, <1>2, <1>3, <1>5, <2>1, <2>2, <2>4, KeptAtWork DEF Budget
    <2> QED  BY <2>3, <2>4
  <1>8. CASE ContextReleased /\ chatMem' = Freed /\ contextHung' = contextHung /\ Strays(FALSE)
    <2>1. stage \in {"waiting", "draining", "undoing"}
      BY <1>8 DEF ContextReleased, Waits
    <2>2. ~(chatMem' > 0) \/ contextHung'
      BY <1>5, <1>8, <2>1 DEF Counted, Freed
    <2> QED  BY <1>1, <1>2, <1>3, <1>8, <2>2, KeptAtWork DEF Budget, Strays
  <1>9. CASE ContextReleased /\ fifo[1].kind = "init" /\ Strays(~Placed(fifo[1].by))
    <2>1. strayed' = (~Placed(fifo[1].by))
      BY <1>9 DEF Strays
    <2>2. CASE Placed(fifo[1].by)
      BY <1>1, <1>2, <1>3, <1>4, <1>9, <2>1, <2>2, KeptAtWork DEF Budget
    <2>3. CASE ~Placed(fifo[1].by)
      BY <1>1, <1>2, <1>3, <2>1, <2>3, KeptAtWork DEF Budget
    <2> QED  BY <2>2, <2>3
  <1>10. CASE EngineLoaded /\ chatMem' = chatMem - 1 /\ Strays(FALSE)
    <2>1. stage = "loading"
      BY <1>10 DEF EngineLoaded, First
    <2>2. chatMem = 1
      BY <1>5, <2>1 DEF Counted
    <2>3. ~(chatMem' > 0)
      BY <1>10, <2>2
    <2>4. strayed' \in BOOLEAN
      BY <1>10, Zenon DEF Strays
    <2> QED  BY <1>1, <1>2, <1>3, <2>3, <2>4, KeptAtWork DEF Budget
  <1>11. \/ UNCHANGED histVars /\ UNCHANGED chatMem /\ (contextHung' = contextHung \/ contextHung')
         \/ initEngine /\ Strays(strayed /\ ~Placed(fifo[1].by))
         \/ ContextReleased /\ chatMem' = Freed /\ contextHung' = contextHung /\ Strays(FALSE)
         \/ ContextReleased /\ fifo[1].kind = "init" /\ Strays(~Placed(fifo[1].by))
         \/ EngineLoaded /\ chatMem' = chatMem - 1 /\ Strays(FALSE)
    <2>1. CASE disposeEngine \/ DisposeTimesOut \/ EngineOpened
      BY <2>1 DEF disposeEngine, DisposeTimesOut, EngineOpened, Invalidate, chatVars
    <2>2. CASE initEngine
      BY <2>2 DEF initEngine, Invalidate, chatVars
    <2>3. CASE ContextReleased
      BY <2>3 DEF ContextReleased
    <2>4. CASE EngineLoaded
      BY <2>4 DEF EngineLoaded
    <2> QED  BY <2>1, <2>2, <2>3, <2>4 DEF EngineStep
  <1> QED  BY <1>2, <1>6, <1>7, <1>8, <1>9, <1>10, <1>11 DEF Budget

LEMMA BudgetSwitch ==
  ASSUME EngineInv, Budget, SwitchStep \/ \E m \in Models : selectModel(m)
  PROVE  Budget'
  <1>1. UNCHANGED <<load, chatMem, contextHung>>
    BY DEF SwitchStep, SwitchDisposes, SwitchSettles, selectModel, chatVars
  <1>2. CASE SwitchEnds
    <2>1. Apart'
      BY <1>2, ApartGiven DEF Budget, SwitchEnds, markChatReleased
    <2> QED  BY <1>1, <1>2, <2>1, KeptSwitched DEF Budget
  <1>3. CASE UNCHANGED <<gateVars, strayed>>
    BY <1>1, <1>3 DEF Budget, Apart, Kept, ChatHolds, gateVars
  <1> QED
    BY <1>2, <1>3 DEF SwitchStep, SwitchDisposes, SwitchSettles, selectModel, Act, histVars

\* the user's and the turn's steps call a load or forget one that is over
LEMMA BudgetUser ==
  ASSUME EngineInv, Budget, Elsewhere, UNCHANGED <<gateVars, strayed>>,
         \/ load' = load
         \/ \E s \in Slots, m \in Models : load' = [load EXCEPT ![s] = Called(m)]
         \/ load' = [load EXCEPT ![Turn] = NoLoad]
  PROVE  Budget'
  <1>1. load \in [Slots -> Record] /\ Turn \in Slots
    BY DEF EngineInv, Typed, Slots
  <1>2. \A k \in Slots : load'[k] = load[k] \/ load'[k].token = 0
    BY <1>1, CalledFacts, NoLoadFacts
  <1>3. \A k \in Slots : GoesWell(k)
    BY <1>2 DEF GoesWell
  <1> QED  BY <1>3, BudgetQuiet DEF gateVars

LEMMA BudgetNext ==
  ASSUME ~HighMem, EngineInv, Budget, [EngineNext]_engineVars
  PROVE  Budget'
  <1>1. CASE \E l \in Slots : LoadStep(l)
    BY <1>1, BudgetLoad
  <1>2. CASE releaseEmbedder \/ \E q \in Callers : EmbedStep(q)
    BY <1>2, BudgetEmbed
  <1>3. CASE EngineStep
    BY <1>3, BudgetEngine
  <1>4. CASE SwitchStep \/ \E m \in Models : selectModel(m)
    BY <1>4, BudgetSwitch
  <1>5. CASE \/ TurnStep \/ Probe \/ userReloadModel \/ Send \/ Stop \/ StopUnlocks
             \/ IndexerAsks \/ Heat \/ Cool \/ UNCHANGED engineVars
    <2>1. Elsewhere /\ UNCHANGED <<gateVars, strayed>>
      BY <1>5 DEF TurnStep, TurnStarts, waitForInFlightChatLoad, ToolCalled, ToolReturns, TurnEnds,
         Probe, userReloadModel, Send, Stop, StopUnlocks, IndexerAsks, Heat, Cool, Act, TurnFrame,
         Elsewhere, chatVars, pickVars, histVars, engineVars
    <2>2. selected \in Models /\ Turn \in Slots /\ "tap" \in Slots
      BY DEF EngineInv, Typed, Slots
    <2>3. \/ load' = load
          \/ \E s \in Slots, m \in Models : load' = [load EXCEPT ![s] = Called(m)]
          \/ load' = [load EXCEPT ![Turn] = NoLoad]
      BY <1>5, <2>2 DEF TurnStep, TurnStarts, waitForInFlightChatLoad, ToolCalled, ToolReturns,
         TurnEnds, Probe, userReloadModel, Send, Stop, StopUnlocks, IndexerAsks, Heat, Cool, engineVars
    <2> QED  BY <2>1, <2>3, BudgetUser
  <1> QED  BY <1>1, <1>2, <1>3, <1>4, <1>5 DEF EngineNext

(* Below the co-residency threshold the chat's context and the embedder's never share the
   memory, whatever loads, switches, turns and the indexer do -- a load included that fails
   over the context it opened -- but after a native call was given up, or while the chat's
   memory is there without its place, in one of the four ways OneBudget names
   (hasMemoryHeadroomForCoResidency, canAcquireChat, canAcquireEmbed). *)
THEOREM OneBudgetBelowThreshold ==
  ASSUME ~HighMem
  PROVE  EngineSpec => []OneBudget
  <1>1. EngineInit => EngineInv /\ Budget
    BY InitHolds, BudgetStarts
  <1>2. EngineInv /\ Budget /\ [EngineNext]_engineVars => (EngineInv /\ Budget)'
    BY NextKeeps, BudgetNext
  <1>3. EngineInv /\ Budget => OneBudget
    BY DEF EngineInv, Embedded, EmbedderIsHeld, Budget, Kept, Apart, OneBudget
  <1> QED  BY <1>1, <1>2, <1>3, PTL DEF EngineSpec
=============================================================================
