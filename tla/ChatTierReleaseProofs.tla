----------------------- MODULE ChatTierReleaseProofs -----------------------
(***************************************************************************)
(* A proof about ChatTier and the engine's release of its model, true of   *)
(* every instance: the ticker demotes no claim that a chat action set      *)
(* after the release (ClaimOutlivesRelease). A claim set over a wakened    *)
(* engine moves the count that the ticker's sample is compared with.       *)
(***************************************************************************)
EXTENDS ChatTier, TLAPS

\* an engine that sleeps has released every claim, and the sample a tick is about to act
\* on was taken before any claim that is still good was set
Alive ==
  /\ asleep => \A s \in Slots : ~live[s]
  /\ tick.at = "relax" => \A s \in Slots : fresh[s] => ~live[s]

\* what the argument needs of the types, whatever the requests
RequestShape(r) == [at |-> r.at, dev |-> r.dev, op |-> r.op, chat |-> r.chat, slot |-> r.slot, from |-> r.from]
TickShape(k) == [at |-> k.at, slot |-> k.slot, dev |-> k.dev, chat |-> k.chat, same |-> k.same, moved |-> k.moved]
Shaped ==
  /\ thr = [t \in Threads |-> thr[t]] /\ \A t \in Threads : thr[t] = RequestShape(thr[t])
  /\ claim = [s \in Slots |-> claim[s]] /\ tick = TickShape(tick)
  /\ live = [s \in Slots |-> live[s]] /\ fresh = [s \in Slots |-> fresh[s]]

LEMMA ShapedMove ==
  ASSUME Shaped, NEW t \in Threads, NEW r, Put(t, r), r = RequestShape(r)
  PROVE  /\ thr' = [u \in Threads |-> thr'[u]] /\ \A u \in Threads : thr'[u] = RequestShape(thr'[u])
         /\ thr'[t] = r
  BY DEF Shaped, Put

LEMMA RequestFields ==
  ASSUME NEW q, NEW r, q = RequestShape(q),
         \/ \E place : r = [q EXCEPT !.at = place]
         \/ r = [q EXCEPT !.at = "recall", !.from = None]
         \/ \E s : r = [q EXCEPT !.slot = s, !.at = "recall"]
         \/ \E s, e : r = [q EXCEPT !.slot = s, !.from = e, !.at = "handover"]
         \/ r = NoRequest
  PROVE  r = RequestShape(r)
  <1> DEFINE p == [at |-> q.at, dev |-> q.dev, op |-> q.op, chat |-> q.chat, slot |-> q.slot, from |-> q.from]
  <1>1. q = p
    BY DEF RequestShape
  <1>2. ASSUME NEW place, r = [p EXCEPT !.at = place]
        PROVE  r = RequestShape(r)
    BY <1>2 DEF RequestShape
  <1>3. CASE r = [p EXCEPT !.at = "recall", !.from = None]
    BY <1>3 DEF RequestShape
  <1>4. ASSUME NEW s, r = [p EXCEPT !.slot = s, !.at = "recall"]
        PROVE  r = RequestShape(r)
    BY <1>4 DEF RequestShape
  <1>5. ASSUME NEW s, NEW e, r = [p EXCEPT !.slot = s, !.from = e, !.at = "handover"]
        PROVE  r = RequestShape(r)
    BY <1>5 DEF RequestShape
  <1>6. CASE r = NoRequest
    BY <1>6 DEF RequestShape, NoRequest
  <1> HIDE DEF p
  <1> QED  BY <1>1, <1>2, <1>3, <1>4, <1>5, <1>6

LEMMA ShapedRequest ==
  ASSUME Shaped, NEW t \in Threads, Request(t)
  PROVE  \E r : Put(t, r) /\ r = RequestShape(r)
  <1>1. CASE \E d \in Devices, op \in {"turn", "activate", "erase"}, c \in Chats \union {None} : Send(t, d, op, c)
    <2>1. PICK d \in Devices, op \in {"turn", "activate", "erase"}, c \in Chats \union {None} :
            Put(t, [at |-> "sent", dev |-> d, op |-> op, chat |-> c, slot |-> None, from |-> None])
      BY <1>1 DEF Send
    <2> QED  BY <2>1 DEF RequestShape
  <1> DEFINE q == thr[t]
  <1>2. CASE Lease(t)
    <2>1. PICK r : /\ Put(t, r)
                   /\ \/ \E s : r = [q EXCEPT !.slot = s, !.at = "recall"]
                      \/ \E s, e : r = [q EXCEPT !.slot = s, !.from = e, !.at = "handover"]
      <3>1. \/ \E s : Put(t, [q EXCEPT !.slot = s, !.at = "recall"])
            \/ \E s, e : Put(t, [q EXCEPT !.slot = s, !.from = e, !.at = "handover"])
        BY <1>2 DEF Lease
      <3>2. CASE \E s : Put(t, [q EXCEPT !.slot = s, !.at = "recall"])
        BY <3>2
      <3>3. CASE \E s, e : Put(t, [q EXCEPT !.slot = s, !.from = e, !.at = "handover"])
        BY <3>3
      <3> QED  BY <3>1, <3>2, <3>3
    <2>2. q = RequestShape(q)
      BY DEF Shaped
    <2> HIDE DEF q
    <2> QED  BY <2>1, <2>2, RequestFields
  <1>3. CASE Handover(t)
    <2>1. Put(t, [q EXCEPT !.at = "recall", !.from = None]) \/ Put(t, NoRequest)
      BY <1>3 DEF Handover, Leave
    <2>2. q = RequestShape(q)
      BY DEF Shaped
    <2> HIDE DEF q
    <2> QED  BY <2>1, <2>2, RequestFields
  <1>4. CASE Recall(t) \/ Complete(t)
    <2>1. PICK r : Put(t, r) /\ \E place : r = [q EXCEPT !.at = place]
      BY <1>4 DEF Recall, Complete, At
    <2>2. q = RequestShape(q)
      BY DEF Shaped
    <2> HIDE DEF q
    <2> QED  BY <2>1, <2>2, RequestFields
  <1>5. CASE EndTurn(t) \/ Abandon(t) \/ Activate(t) \/ Erase(t)
    <2>1. Put(t, NoRequest)
      BY <1>5 DEF EndTurn, Abandon, Activate, Erase, Leave
    <2> QED  BY <2>1 DEF NoRequest, RequestShape
  <1> QED  BY <1>1, <1>2, <1>3, <1>4, <1>5 DEF Request


LEMMA ShapedClaim ==
  ASSUME Shaped, NEW s, NEW k, Claim(s, k)
  PROVE  claim' = [q \in Slots |-> claim'[q]] /\ tick' = TickShape(tick') /\ tick'.at = tick.at
  <1>1. claim' = [q \in Slots |-> claim'[q]]
    BY DEF Shaped, Claim
  <1>2. tick = TickShape(tick)
    BY DEF Shaped
  <1>3. tick' = TickShape(tick') /\ tick'.at = tick.at
    BY <1>2 DEF Claim, Moved, TickShape
  <1> QED  BY <1>1, <1>3

\* what keeps Alive: the sleep and the sample of a tick, with every claim that is set good
Wakes == asleep' = FALSE \/ (asleep' = asleep /\ \A s \in Slots : live'[s] => live[s])
Fresh(s) == (fresh'[s] => fresh[s]) /\ (live'[s] => live[s] \/ ~fresh'[s])

AliveStep ==
  /\ claim' = [s \in Slots |-> claim'[s]] /\ tick' = TickShape(tick') /\ tick'.at = tick.at
  /\ live' = [s \in Slots |-> live'[s]] /\ fresh' = [s \in Slots |-> fresh'[s]]
  /\ Wakes /\ \A s \in Slots : Fresh(s)
  /\ thr' = thr => \A s \in Slots : claim'[s] = claim[s] \/ claim'[s].is # "evicted"

\* a claim that is not an eviction is set, and if it is good the sample has gone
LEMMA ClaimGoes ==
  ASSUME Shaped, NEW s, NEW k, k.is # "evicted", Claim(s, k), asleep' = FALSE,
         \/ UNCHANGED <<fresh, live>>
         \/ Count(s) /\ live' = [live EXCEPT ![s] = TRUE]
  PROVE  AliveStep
  <1>1. claim' = [q \in Slots |-> claim'[q]] /\ tick' = TickShape(tick') /\ tick'.at = tick.at
    BY ShapedClaim
  <1>2. \A q \in Slots : claim'[q] = claim[q] \/ claim'[q].is # "evicted"
    BY DEF Claim, Shaped
  <1> QED  BY <1>1, <1>2 DEF AliveStep, Shaped, Count, Wakes, Fresh

LEMMA RequestAlive ==
  ASSUME Shaped, NEW t \in Threads, Request(t)
  PROVE  AliveStep
  <1>1. CASE UNCHANGED <<tierVars, tick>> /\ (asleep' = asleep \/ asleep' = FALSE)
    BY <1>1 DEF Shaped, tierVars, AliveStep, Wakes, Fresh
  <1>2. CASE Handover(t)
    <2>1. /\ UNCHANGED <<fresh, live>> /\ (asleep' = asleep \/ asleep' = FALSE)
          /\ \/ UNCHANGED <<claim, tick>>
             \/ \E s, k : Claim(s, k)
      BY <1>2 DEF Handover, tierVars
    <2>2. thr' # thr
      <3>1. thr[t].at = "handover" /\ thr = [u \in Threads |-> thr[u]] /\ thr[t] = RequestShape(thr[t])
        BY <1>2 DEF Handover, Shaped
      <3>2. [thr[t] EXCEPT !.at = "recall", !.from = None] # thr[t]
        BY <3>1 DEF RequestShape
      <3>3. NoRequest # thr[t]
        BY <3>1 DEF NoRequest
      <3>4. \E r : r # thr[t] /\ Put(t, r)
        BY <1>2, <3>2, <3>3 DEF Handover, Leave
      <3> QED  BY <3>1, <3>4 DEF Put
    <2>3. claim' = [s \in Slots |-> claim'[s]] /\ tick' = TickShape(tick') /\ tick'.at = tick.at
      BY <2>1, ShapedClaim DEF Shaped
    <2> QED  BY <2>1, <2>2, <2>3 DEF Shaped, AliveStep, Wakes, Fresh
  <1>3. CASE Recall(t)
    <2>1. CASE UNCHANGED <<tierVars, asleep, tick>>
      BY <1>1, <2>1
    <2>2. ASSUME NEW s, claim' = [claim EXCEPT ![s] = Unknown], UNCHANGED <<fresh, live, asleep, tick>>
          PROVE  AliveStep
      BY <2>2 DEF Shaped, Unknown, AliveStep, Wakes, Fresh
    <2>3. ASSUME NEW s, NEW k, k.is # "evicted", Claim(s, k), asleep' = FALSE,
                 \/ UNCHANGED <<fresh, live>>
                 \/ Count(s) /\ live' = [live EXCEPT ![s] = TRUE]
          PROVE  AliveStep
      BY <2>3, ClaimGoes
    <2>4. \/ UNCHANGED <<tierVars, asleep, tick>>
          \/ \E s : claim' = [claim EXCEPT ![s] = Unknown] /\ UNCHANGED <<fresh, live, asleep, tick>>
          \/ \E s, k : /\ k.is # "evicted" /\ Claim(s, k) /\ asleep' = FALSE
                       /\ \/ UNCHANGED <<fresh, live>>
                          \/ Count(s) /\ live' = [live EXCEPT ![s] = TRUE]
      <3>1. /\ \A d, c : Resident(d, c).is # "evicted"
            /\ Empty.is # "evicted" /\ Unknown.is # "evicted"
        BY DEF Resident, Empty, Unknown
      <3> QED  BY <1>3, <3>1 DEF Recall
    <2> QED  BY <2>1, <2>2, <2>3, <2>4
  <1>4. CASE Activate(t)
    <2>1. thr' # thr
      <3>1. thr[t].at = "switch" /\ thr = [u \in Threads |-> thr[u]] /\ Put(t, NoRequest)
        BY <1>4 DEF Activate, Shaped, Leave
      <3> QED  BY <3>1 DEF Put, NoRequest
    <2>2. CASE UNCHANGED <<tierVars, asleep, tick>>
      BY <1>1, <2>2
    <2>3. CASE \E s : Count(s) /\ UNCHANGED <<claim, live, asleep, tick>>
      BY <2>1, <2>3 DEF Shaped, Count, AliveStep, Wakes, Fresh
    <2>4. CASE \E s, v : /\ Count(s) /\ asleep' = FALSE /\ live' = [live EXCEPT ![s] = v]
                         /\ UNCHANGED <<claim, tick>> \/ \E k : Claim(s, k)
      <3>1. PICK s, v : /\ Count(s) /\ asleep' = FALSE /\ live' = [live EXCEPT ![s] = v]
                        /\ UNCHANGED <<claim, tick>> \/ \E k : Claim(s, k)
        BY <2>4
      <3>2. claim' = [q \in Slots |-> claim'[q]] /\ tick' = TickShape(tick') /\ tick'.at = tick.at
        BY <3>1, ShapedClaim DEF Shaped
      <3> QED  BY <2>1, <3>1, <3>2 DEF Shaped, Count, AliveStep, Wakes, Fresh
    <2> QED  BY <1>4, <2>2, <2>3, <2>4 DEF Activate
  <1>5. CASE Erase(t)
    <2>1. /\ UNCHANGED <<fresh, live>> /\ (asleep' = asleep \/ asleep' = FALSE)
          /\ \/ UNCHANGED <<claim, tick>>
             \/ \E s : Claim(s, Empty)
      BY <1>5 DEF Erase
    <2>2. claim' = [q \in Slots |-> claim'[q]] /\ tick' = TickShape(tick') /\ tick'.at = tick.at
      BY <2>1, ShapedClaim DEF Shaped
    <2>3. \A s \in Slots : claim'[s] = claim[s] \/ claim'[s].is # "evicted"
      BY <2>1 DEF Claim, Empty, Shaped
    <2> QED  BY <2>1, <2>2, <2>3 DEF Shaped, AliveStep, Wakes, Fresh
  <1>6. CASE EndTurn(t)
    <2>1. tick' = TickShape(tick') /\ tick'.at = tick.at
      <3>1. tick = TickShape(tick)
        BY DEF Shaped
      <3> QED  BY <1>6, <3>1 DEF EndTurn, Remark, TickShape
    <2> QED  BY <1>6, <2>1 DEF EndTurn, Shaped, AliveStep, Wakes, Fresh
  <1>7. CASE Lease(t) \/ Abandon(t) \/ Complete(t)
             \/ \E d \in Devices, op \in {"turn", "activate", "erase"}, c \in Chats \union {None} : Send(t, d, op, c)
    <2>1. UNCHANGED <<tierVars, tick>> /\ (asleep' = asleep \/ asleep' = FALSE)
      BY <1>7 DEF Lease, Abandon, Complete, Send
    <2> QED  BY <1>1, <2>1
  <1> QED  BY <1>2, <1>3, <1>4, <1>5, <1>6, <1>7 DEF Request

LEMMA TickerFields ==
  ASSUME NEW k, NEW l, k = TickShape(k),
         \/ \E place : l = [k EXCEPT !.at = place] \/ l = [NoTick EXCEPT !.at = place]
         \/ l = NoTick \/ l = k
         \/ \E s, d, c, f, m : l = [at |-> "saving", slot |-> s, dev |-> d, chat |-> c, same |-> f, moved |-> m]
  PROVE  l = TickShape(l)
  <1> DEFINE p == [at |-> k.at, slot |-> k.slot, dev |-> k.dev, chat |-> k.chat, same |-> k.same, moved |-> k.moved]
  <1>1. k = p
    BY DEF TickShape
  <1>2. ASSUME NEW place, l = [p EXCEPT !.at = place] \/ l = [NoTick EXCEPT !.at = place]
        PROVE  l = TickShape(l)
    BY <1>2 DEF TickShape, NoTick
  <1>3. CASE l = NoTick \/ l = k
    BY <1>3 DEF TickShape, NoTick
  <1>4. ASSUME NEW s, NEW d, NEW c, NEW f, NEW m,
               l = [at |-> "saving", slot |-> s, dev |-> d, chat |-> c, same |-> f, moved |-> m]
        PROVE  l = TickShape(l)
    BY <1>4 DEF TickShape
  <1> HIDE DEF p
  <1> QED  BY <1>1, <1>2, <1>3, <1>4

LEMMA TickerShape ==
  ASSUME Shaped, Ticker
  PROVE  tick' = TickShape(tick')
  <1>1. tick = TickShape(tick)
    BY DEF Shaped
  <1>2. CASE \E s \in Slots : TickPick(s)
    BY <1>1, <1>2, TickerFields DEF TickPick
  <1>3. CASE TickDone
    BY <1>1, <1>3, TickerFields DEF TickDone
  <1>4. CASE TickSample \/ TickRead \/ TickRelax \/ TickEngine \/ TickCheck \/ TickRename
             \/ TickSettle \/ TickNothing
    <2>1. PICK place : tick' = [tick EXCEPT !.at = place] \/ tick' = [NoTick EXCEPT !.at = place]
      BY <1>4 DEF TickSample, TickRead, TickRelax, TickEngine, TickCheck, TickRename, TickSettle, TickNothing
    <2> QED  BY <1>1, <2>1, TickerFields
  <1> QED  BY <1>2, <1>3, <1>4 DEF Ticker

LEMMA TickerAlive ==
  ASSUME Shaped, Alive, Ticker
  PROVE  /\ Shaped' /\ Alive'
         /\ \A s \in Slots : live[s] => claim'[s] = claim[s] \/ claim'[s].is # "evicted"
  <1>1. thr' = thr /\ live' = live
    BY DEF Ticker, TickSample, TickRead, TickRelax, TickDone, TickPick, TickEngine, TickCheck,
           TickRename, TickSettle, TickNothing, tierVars
  <1>2. fresh' = [s \in Slots |-> fresh'[s]]
    BY DEF Ticker, TickSample, TickRead, TickRelax, TickDone, TickPick, TickEngine, TickCheck,
           TickRename, TickSettle, TickNothing, tierVars, Shaped, NoSample
  <1>3. /\ claim' = [s \in Slots |-> claim'[s]]
        /\ \A s \in Slots : live[s] => claim'[s] = claim[s] \/ claim'[s].is # "evicted"
    <2>1. CASE TickRelax
      BY <2>1 DEF TickRelax, Relaxed, Alive
    <2>2. CASE TickNothing
      BY <2>2 DEF TickNothing, Shaped, Unknown
    <2>3. CASE claim' = claim
      BY <2>3 DEF Shaped
    <2> QED  BY <2>1, <2>2, <2>3 DEF Ticker, TickSample, TickRead, TickDone, TickPick, TickEngine,
           TickCheck, TickRename, TickSettle, tierVars
  <1>4. Shaped'
    BY <1>1, <1>2, <1>3, TickerShape DEF Shaped
  <1>5. asleep' = asleep \/ asleep' = FALSE
    BY DEF Ticker, TickSample, TickRead, TickRelax, TickDone, TickPick, TickEngine, TickCheck,
           TickRename, TickSettle, TickNothing
  <1>6. tick'.at = "relax" => asleep
    <2> DEFINE p == [at |-> tick.at, slot |-> tick.slot, dev |-> tick.dev, chat |-> tick.chat,
                     same |-> tick.same, moved |-> tick.moved]
    <2>1. tick = p
      BY DEF Shaped, TickShape
    <2>2. \A place : [p EXCEPT !.at = place].at = place /\ [NoTick EXCEPT !.at = place].at = place
      BY DEF NoTick
    <2>3. NoTick.at # "relax"
      BY DEF NoTick
    <2> HIDE DEF p
    <2>4. \A place : [tick EXCEPT !.at = place].at = place /\ [NoTick EXCEPT !.at = place].at = place
      BY <2>1, <2>2
    <2>5. CASE TickRead \/ TickDone
      BY <2>3, <2>4, <2>5 DEF TickRead, TickDone
    <2>6. CASE \E s \in Slots : TickPick(s)
      BY <2>6 DEF TickPick
    <2>7. CASE TickSample \/ TickRelax \/ TickEngine \/ TickCheck \/ TickRename \/ TickSettle \/ TickNothing
      <3>1. PICK place : /\ place # "relax"
                         /\ tick' = [tick EXCEPT !.at = place] \/ tick' = [NoTick EXCEPT !.at = place]
        BY <2>7 DEF TickSample, TickRelax, TickEngine, TickCheck, TickRename, TickSettle, TickNothing
      <3> QED  BY <2>4, <3>1
    <2> QED  BY <2>5, <2>6, <2>7 DEF Ticker
  <1> QED  BY <1>1, <1>3, <1>4, <1>5, <1>6 DEF Alive

LEMMA ReleaseAlive ==
  ASSUME Shaped, Alive, Sleep \/ \E s \in Slots : PurgeIdle(s)
  PROVE  Shaped' /\ Alive' /\ claim' = claim
  BY DEF Shaped, Alive, Sleep, PurgeIdle

LEMMA StepAlive ==
  ASSUME Shaped, Alive, [Next]_vars
  PROVE  /\ Shaped' /\ Alive'
         /\ \A s \in Slots : live[s] /\ claim[s].is = "resident" /\ claim'[s].is = "evicted" => thr' # thr
  <1>1. CASE UNCHANGED vars
    BY <1>1 DEF vars, Shaped, Alive
  <1>2. ASSUME NEW t \in Threads, Request(t)
        PROVE  /\ Shaped' /\ Alive'
               /\ \A s \in Slots : claim[s].is = "resident" /\ claim'[s].is = "evicted" => thr' # thr
    <2>1. AliveStep
      BY <1>2, RequestAlive
    <2>2. Shaped'
      <3>1. PICK r : Put(t, r) /\ r = RequestShape(r)
        BY <1>2, ShapedRequest
      <3> QED  BY <2>1, <3>1, ShapedMove DEF AliveStep, Shaped
    <2>3. Alive'
      BY <2>1 DEF AliveStep, Alive, Wakes, Fresh
    <2> QED  BY <2>1, <2>2, <2>3 DEF AliveStep
  <1> QED  BY <1>1, <1>2, TickerAlive, ReleaseAlive DEF Next

LEMMA AliveStarts == Init => Shaped /\ Alive
  BY DEF Init, Shaped, Alive, NoRequest, NoTick, RequestShape, TickShape

(* A claim a chat action set after waking the engine is not demoted by a release it *)
(* outlived (invalidate.rs `invalidate_residency`, main.rs `tick`).                  *)
THEOREM ReleaseSparesNewClaims == Spec => ClaimOutlivesRelease
  <1>1. Init => Shaped /\ Alive
    BY AliveStarts
  <1>2. Shaped /\ Alive /\ [Next]_vars =>
          /\ (Shaped /\ Alive)'
          /\ [\A s \in Slots :
                (live[s] /\ claim[s].is = "resident" /\ claim'[s].is = "evicted") => thr' # thr]_vars
    BY StepAlive
  <1> QED  BY <1>1, <1>2, PTL DEF Spec, ClaimOutlivesRelease
=============================================================================
