------------------------------ MODULE EngineGate ------------------------------
(***************************************************************************)
(* The phone's own engine (phone/src): one process, two llama.cpp contexts *)
(* -- the chat model's and the embedder's -- and one memory budget.  The   *)
(* gate (engine/llamaContextGate.ts) says who may hold memory, a FIFO of   *)
(* native operations (the same file) lets one of them run at a time, and   *)
(* five kinds of caller wait for each other through both: the loads        *)
(* (host/engineEnsure.ts, engineEnsureLoad.ts, engineLoad.ts), the model   *)
(* switch (host/modelSwitch.ts), the turn (engine/LlamaService.ts,         *)
(* host/engineTurn.ts), and the two users of the embedder                  *)
(* (engine/EmbeddingService.ts): a turn's document tool and the indexer.   *)
(*                                                                         *)
(* JavaScript runs one step at a time between awaits; a step of the model  *)
(* is the code between two of them.  Every native call ends in the end,    *)
(* and any bounded wait may run out first: a hang is a call slower than    *)
(* every bound.                                                            *)
(***************************************************************************)
EXTENDS Naturals, Sequences, FiniteSets

CONSTANTS
  Models,     \* the catalog
  Small,      \* those of the 2B class
  HighMem,    \* whether the device is above CO_RESIDENCY_MIN_MEMORY_BYTES
  NoModel,
  MaxActs     \* bound: what the user, the indexer and the weather do

ASSUME EngineAssumption ==
  /\ Small \subseteq Models /\ NoModel \notin Models
  /\ HighMem \in BOOLEAN /\ MaxActs \in Nat

VARIABLES
  gate, embedHeld, chatGen, is2B,     \* llamaContextGate.ts
  fifo, stage,                        \* the native operations, and where the first is
  context, chatMem, contextHung,      \* LlamaService.ts: the handle, the memory, the mark
  emb, embMem, embHung,               \* EmbeddingService.ts: the same
  appGen, selected, tokenRef,         \* engineGenerationRef, modelIndexRef, chatGateGenRef
  modelState, hopped, probe, hot,     \* the pipeline's face, the fallback taken, the heat
  load,                               \* one record for each load in flight
  switch,                             \* the model switch: its step, the token it captured
  turn, claimed, stopped,             \* the turn, the send claim, the turn's abort signal
  query,                              \* the two users of the embedder
  strayed,                            \* history: the chat has memory without its place
  acts                                \* how many acts happened

gateVars == <<gate, embedHeld, chatGen, is2B>>
fifoVars == <<fifo, stage>>
chatVars == <<context, chatMem, contextHung>>
embVars == <<emb, embMem, embHung>>
faceVars == <<modelState, hopped, probe>>
pickVars == <<appGen, selected>>
turnVars == <<turn, claimed, stopped>>
histVars == <<strayed, acts>>
engineVars == <<gateVars, fifoVars, chatVars, embVars, faceVars, pickVars, tokenRef, hot,
                load, switch, turnVars, query, histVars>>

Turn == "turn"
Slots == {Turn, "tap", "hop"}     \* the turn's load, a kick's or a tap's, a fallback's
Callers == {"tool", "indexer"}
Switch == "switch"

NoLoad == [at |-> "off", model |-> NoModel, gen |-> 0, token |-> 0, ok |-> FALSE]
Called(m) == [NoLoad EXCEPT !.at = "called", !.model = m]

\* the process has just started
Boot ==
  /\ gate = "idle" /\ embedHeld = FALSE /\ chatGen = 0 /\ is2B = FALSE
  /\ fifo = <<>> /\ stage = "queued"
  /\ context = NoModel /\ chatMem = 0 /\ contextHung = FALSE
  /\ emb = FALSE /\ embMem = FALSE /\ embHung = FALSE
  /\ appGen = 0 /\ selected \in Models /\ tokenRef = 0
  /\ modelState = "checking" /\ hopped = NoModel /\ probe = TRUE /\ hot = FALSE
  /\ load = [l \in Slots |-> NoLoad]
  /\ switch = [at |-> "off", token |-> 0]
  /\ turn = "off" /\ claimed = FALSE /\ stopped = FALSE
  /\ query = [q \in Callers |-> "off"]
  /\ strayed = FALSE

EngineInit == Boot /\ acts = 0

Act == acts < MaxActs /\ acts' = acts + 1 /\ UNCHANGED strayed

-----------------------------------------------------------------------------
(* The gate.                                                               *)

ChatHolds == gate \in {"chat_loading", "chat_ready"}
allowsCoResidency(two) == HighMem /\ two

MayAcquireChat(two) == gate = "idle" \/ (gate = "embed_active" /\ allowsCoResidency(two))
tryAcquireChat == gate' = "chat_loading" /\ chatGen' = chatGen + 1 /\ UNCHANGED embedHeld

\* the gate after markChatReleased(token), with the embedder held or not
\* (slip: whoever asks)
ReleasedAnyway(token, held) ==
  IF ChatHolds THEN IF held THEN "embed_active" ELSE "idle" ELSE gate
Released(token, held) ==
  IF token = chatGen /\ ChatHolds THEN IF held THEN "embed_active" ELSE "idle" ELSE gate
markChatReleased(token) ==
  gate' = Released(token, embedHeld) /\ UNCHANGED <<embedHeld, chatGen, is2B>>

markChatReady(token) ==
  /\ gate' = IF token = chatGen /\ ChatHolds THEN "chat_ready" ELSE gate
  /\ UNCHANGED <<embedHeld, chatGen, is2B>>

\* (slip: only a loading chat is in the way)
MayAcquireEmbedBeside == gate # "chat_loading"
MayAcquireEmbed ==
  gate \in {"idle", "embed_active"} \/ (gate = "chat_ready" /\ allowsCoResidency(is2B))
tryAcquireEmbed ==
  /\ MayAcquireEmbed /\ embedHeld' = TRUE
  /\ gate' = (IF gate = "idle" THEN "embed_active" ELSE gate)
  /\ UNCHANGED <<chatGen, is2B>>

EmbedFreed == IF gate = "embed_active" THEN "idle" ELSE gate
releaseEmbed == embedHeld' = FALSE /\ gate' = EmbedFreed /\ UNCHANGED <<chatGen, is2B>>

\* the embedder goes on with its start only while no chat is in its way
canContinueEmbedInit ==
  ~(gate = "chat_loading" \/ (gate = "chat_ready" /\ ~allowsCoResidency(is2B)))

\* the handle is dropped; what it held stays in memory
\* (slip: nobody is told)
markEmbedderDropped == emb' = FALSE /\ UNCHANGED <<embHung, embMem>>
markEmbedderHung == embHung' = TRUE /\ emb' = FALSE /\ UNCHANGED embMem

-----------------------------------------------------------------------------
(* The FIFO of native operations: the first runs, the others wait.         *)

Op(kind, by) == [kind |-> kind, by |-> by]
Submit(kind, by) == fifo' = Append(fifo, Op(kind, by)) /\ UNCHANGED stage
Pending(kind, by) == \E i \in DOMAIN fifo : fifo[i] = Op(kind, by)
First(kind, at) == fifo # <<>> /\ fifo[1].kind = kind /\ stage = at
Settle == fifo' = Tail(fifo) /\ stage' = "queued"
Busy == fifo # <<>>

-----------------------------------------------------------------------------
(* The embedder's operations.                                              *)

Answer(q, said) == query' = [query EXCEPT ![q] = said]

\* the caller's signal: the stop cuts the turn's question, its own time limit a tool's
Aborted(q) == query[q] = "cut"

\* the embedder is there: embedQuery submits the question as an operation of its own
Granted(q) ==
  /\ fifo' = Append(Tail(fifo), Op("use", q)) /\ stage' = "queued" /\ Answer(q, "using")

ensureEmbedder(q) ==
  /\ fifo # <<>> /\ fifo[1] = Op("embed", q) /\ stage = "queued"
  /\ \/ /\ embHung \/ Aborted(q) \/ ~MayAcquireEmbed
        /\ Settle /\ Answer(q, "off") /\ UNCHANGED <<gateVars, embVars>>
     \/ /\ ~embHung /\ ~Aborted(q) /\ emb /\ tryAcquireEmbed
        /\ Granted(q) /\ UNCHANGED embVars
     \/ /\ ~embHung /\ ~Aborted(q) /\ ~emb /\ tryAcquireEmbed
        /\ stage' = "starting" /\ embMem' = TRUE
        /\ UNCHANGED <<fifo, emb, embHung, query>>
  /\ UNCHANGED <<chatVars, faceVars, pickVars, tokenRef, hot, load, switch, turnVars, histVars>>

\* initLlama is back: kept, or released at once when it failed, the caller is gone,
\* the embedder was given up, or a chat came
EmbedderStarted(q) ==
  /\ fifo # <<>> /\ fifo[1] = Op("embed", q) /\ stage = "starting"
  /\ \/ /\ ~embHung /\ ~Aborted(q) /\ canContinueEmbedInit
        /\ emb' = TRUE /\ Granted(q) /\ UNCHANGED <<gateVars, embMem, embHung>>
     \/ /\ Settle /\ emb' = FALSE /\ embMem' = FALSE /\ UNCHANGED embHung
        /\ releaseEmbed /\ Answer(q, "off")
  /\ UNCHANGED <<chatVars, faceVars, pickVars, tokenRef, hot, load, switch, turnVars, histVars>>

EmbeddingDone(q) ==
  /\ fifo # <<>> /\ fifo[1] = Op("use", q) /\ Settle /\ Answer(q, "off")
  /\ UNCHANGED <<gateVars, chatVars, embVars, faceVars, pickVars, tokenRef, hot, load, switch,
                 turnVars, histVars>>

releaseEmbedder ==
  /\ \/ /\ First("free", "queued") /\ (embHung \/ ~emb)
        /\ releaseEmbed /\ Settle /\ UNCHANGED embVars
     \/ /\ First("free", "queued") /\ ~embHung /\ emb
        /\ stage' = "closing" /\ UNCHANGED <<gateVars, fifo, embVars>>
     \/ /\ First("free", "closing")
        /\ emb' = FALSE /\ embMem' = FALSE /\ UNCHANGED embHung
        /\ releaseEmbed /\ Settle
  /\ UNCHANGED <<chatVars, faceVars, pickVars, tokenRef, hot, load, switch, turnVars, query,
                 histVars>>

-----------------------------------------------------------------------------
(* The engine's operations.                                                *)

\* (slip: a job that waits for its tool does not count)
Decoding == turn = "decode"
Running == turn \in {"decode", "tool"}    \* a job is in the engine's own queue

\* how an operation of the engine ends; a load hears whether it worked
EngineSettles(worked) ==
  /\ Settle
  /\ load' = IF fifo[1].kind = "init" THEN [load EXCEPT ![fifo[1].by].ok = worked] ELSE load

\* whether a load has the chat's place, and the history: whether the memory it takes or
\* finds is without one
Placed(l) == ChatHolds /\ load[l].token = chatGen
Strays(yes) == strayed' = yes /\ UNCHANGED acts

\* the context is out of reach from here on; what it holds is given back later
Invalidate ==
  /\ context' = NoModel /\ UNCHANGED <<chatMem, contextHung>>
  /\ stage' = (IF context # NoModel THEN "waiting" ELSE "draining")
  /\ UNCHANGED <<fifo, load>>

disposeEngine ==
  /\ First("dispose", "queued") /\ Invalidate
  /\ UNCHANGED <<gateVars, embVars, faceVars, pickVars, tokenRef, hot, switch, turnVars, query,
                 histVars>>

\* the same model under the same parameters is kept; under others it is replaced too
initEngine ==
  /\ First("init", "queued")
  /\ LET l == fifo[1].by IN
     \/ contextHung /\ EngineSettles(FALSE) /\ UNCHANGED <<chatVars, histVars>>
     \/ /\ ~contextHung /\ context = load[l].model /\ EngineSettles(TRUE)
        /\ Strays(strayed /\ ~Placed(l)) /\ UNCHANGED chatVars
     \/ ~contextHung /\ Invalidate /\ UNCHANGED histVars
  /\ UNCHANGED <<gateVars, embVars, faceVars, pickVars, tokenRef, hot, switch, turnVars, query>>

Waits == fifo # <<>> /\ stage \in {"waiting", "draining", "undoing"}
\* (slips: a context that is not there is released; the old one is not)
FreedAnyway == chatMem - 1
FreedNever == chatMem
Freed == IF stage = "draining" THEN chatMem ELSE chatMem - 1

\* the jobs have ended: the old context's memory goes, and a load takes its own
ContextReleased ==
  /\ Waits /\ ~Running
  /\ \/ /\ fifo[1].kind = "dispose" /\ chatMem' = Freed
        /\ EngineSettles(TRUE) /\ Strays(FALSE) /\ UNCHANGED <<context, contextHung>>
     \/ /\ fifo[1].kind = "init" /\ stage # "undoing" /\ ~contextHung /\ chatMem' = Freed + 1
        /\ stage' = "loading" /\ Strays(~Placed(fifo[1].by))
        /\ UNCHANGED <<fifo, load, context, contextHung>>
     \/ /\ stage = "undoing" /\ chatMem' = Freed
        /\ EngineSettles(FALSE) /\ Strays(FALSE) /\ UNCHANGED <<context, contextHung>>
     \/ /\ stage # "draining" /\ contextHung' = TRUE      \* release() threw
        /\ EngineSettles(FALSE) /\ UNCHANGED <<context, chatMem, histVars>>
  /\ UNCHANGED <<gateVars, embVars, faceVars, pickVars, tokenRef, hot, switch, turnVars, query>>

\* DISPOSE_SAFETY_TIMEOUT_MS: a job still runs, so nothing is released
DisposeTimesOut ==
  /\ Waits /\ Running
  /\ contextHung' = TRUE /\ EngineSettles(FALSE) /\ UNCHANGED <<context, chatMem>>
  /\ UNCHANGED <<gateVars, embVars, faceVars, pickVars, tokenRef, hot, switch, turnVars, query,
                 histVars>>

\* initLlama is back: the context is there for every reader, though the load goes on
EngineLoaded ==
  /\ First("init", "loading")
  /\ \/ /\ context' = load[fifo[1].by].model /\ stage' = "opening"
        /\ UNCHANGED <<fifo, load, chatMem, histVars>>
     \/ chatMem' = chatMem - 1 /\ EngineSettles(FALSE) /\ Strays(FALSE) /\ UNCHANGED context
  /\ UNCHANGED <<contextHung, gateVars, embVars, faceVars, pickVars, tokenRef, hot, switch,
                 turnVars, query>>

\* the saved session, then the projector: it opens; or it throws, and the load fails over
\* a context that stays; or it is refused, and the context is given back like an old one
EngineOpened ==
  /\ First("init", "opening")
  /\ \/ \E worked \in BOOLEAN : EngineSettles(worked) /\ UNCHANGED chatVars
     \/ /\ context' = NoModel /\ stage' = "undoing"
        /\ UNCHANGED <<fifo, load, chatMem, contextHung>>
  /\ UNCHANGED <<gateVars, embVars, faceVars, pickVars, tokenRef, hot, switch, turnVars, query,
                 histVars>>

-----------------------------------------------------------------------------
(* A load: ensureEngineForModel.                                           *)

At(l, at) == load[l].at = at
Goes(l, at) == load' = [load EXCEPT ![l].at = at]
StillCurrent(l) == load[l].gen = appGen /\ selected = load[l].model

\* how a load ends: the turn is told, nobody else listens
Ended(l, ok) == IF l = Turn THEN [NoLoad EXCEPT !.at = "told", !.ok = ok] ELSE NoLoad
Ends(l, ok) == load' = [load EXCEPT ![l] = Ended(l, ok)]
Shows(state) == modelState' = state /\ UNCHANGED <<hopped, probe>>

\* chatGateGenRef forgets the token, if it is still this one (slip: whichever it is)
ForgottenAnyway(token) == 0
Unreferenced(token) == IF tokenRef = token THEN 0 ELSE tokenRef

\* the history: the place is given back with the memory still there
Leaves(token) ==
  Strays(strayed \/ (chatMem > 0 /\ ChatHolds /\ token = chatGen))

GivesBack(l) ==
  markChatReleased(load[l].token) /\ tokenRef' = Unreferenced(load[l].token)

\* getActiveModelId: the name follows the context a little later
Named == IF stage = "opening" THEN {context, NoModel} ELSE {context}

\* the heat is asked, and the generation is taken, before anything else
LoadOpens(l) ==
  /\ At(l, "called")
  /\ \E named \in Named :
       \/ hot /\ Ends(l, FALSE) /\ UNCHANGED faceVars
       \/ ~hot /\ named = load[l].model /\ Ends(l, TRUE) /\ UNCHANGED faceVars
       \/ ~hot /\ named # load[l].model /\ embHung /\ Ends(l, FALSE) /\ Shows("error")
       \/ /\ ~hot /\ named # load[l].model /\ ~embHung /\ UNCHANGED faceVars
          /\ load' = [load EXCEPT ![l].at = "probing", ![l].gen = appGen]
  /\ UNCHANGED <<gateVars, fifoVars, chatVars, embVars, pickVars, tokenRef, hot, switch, turnVars,
                 query, histVars>>

\* the disk and the hard memory gate
LoadProbed(l) ==
  /\ At(l, "probing")
  /\ \/ (~StillCurrent(l) \/ hot) /\ Ends(l, FALSE) /\ UNCHANGED <<is2B, faceVars>>
     \/ /\ StillCurrent(l) /\ ~hot /\ is2B' = (load[l].model \in Small)
        /\ \/ Goes(l, "claiming") /\ UNCHANGED faceVars
           \/ Ends(l, FALSE) /\ Shows("error")
  /\ UNCHANGED <<gate, embedHeld, chatGen, fifoVars, chatVars, embVars, pickVars, tokenRef, hot,
                 switch, turnVars, query, histVars>>

Claims(l) ==
  /\ tryAcquireChat /\ tokenRef' = chatGen + 1
  /\ load' = [load EXCEPT ![l].at = "gating", ![l].token = chatGen + 1]

\* the gate's inputs are seeded and the chat's place is taken, in one step; nobody
\* asks again whether the load is still wanted
LoadClaims(l) ==
  /\ At(l, "claiming")
  /\ LET two == load[l].model \in Small IN
     /\ is2B' = two
     /\ \/ MayAcquireChat(two) /\ Claims(l) /\ UNCHANGED fifoVars
        \/ ChatHolds /\ Ends(l, FALSE) /\ UNCHANGED <<gate, embedHeld, chatGen, tokenRef, fifoVars>>
        \/ /\ ~MayAcquireChat(two) /\ ~ChatHolds /\ Submit("free", l) /\ Goes(l, "freeing")
           /\ UNCHANGED <<gate, embedHeld, chatGen, tokenRef>>
  /\ UNCHANGED <<chatVars, embVars, faceVars, pickVars, hot, switch, turnVars, query, histVars>>

\* the embedder was in the way: it is gone, or the wait ran out
LoadReclaims(l) ==
  /\ At(l, "freeing")
  /\ \/ /\ ~Pending("free", l) /\ StillCurrent(l) /\ MayAcquireChat(is2B)
        /\ Claims(l) /\ UNCHANGED <<is2B, faceVars, embVars>>
     \/ /\ ~Pending("free", l) /\ StillCurrent(l) /\ ~MayAcquireChat(is2B)
        /\ Ends(l, FALSE) /\ Shows("error") /\ UNCHANGED <<gateVars, tokenRef, embVars>>
     \/ /\ ~Pending("free", l) /\ ~StillCurrent(l)
        /\ Ends(l, FALSE) /\ UNCHANGED <<gateVars, tokenRef, faceVars, embVars>>
     \/ /\ Pending("free", l) /\ markEmbedderHung /\ releaseEmbed /\ Ends(l, FALSE)
        /\ IF StillCurrent(l) THEN Shows("error") ELSE UNCHANGED faceVars
        /\ UNCHANGED tokenRef
  /\ UNCHANGED <<fifoVars, chatVars, pickVars, hot, switch, turnVars, query, histVars>>

\* a refusal gives the place back before anything is shown
Refused(l) ==
  /\ GivesBack(l) /\ load' = [load EXCEPT ![l].at = "reporting", ![l].token = 0]
  /\ UNCHANGED <<fifoVars, faceVars, histVars>>

\* the load is on: it is shown, and without co-residency the embedder must go
Admitted(l) ==
  /\ Shows("loading") /\ Goes(l, "clearing") /\ is2B' = (load[l].model \in Small)
  /\ IF embHung \/ allowsCoResidency(load[l].model \in Small) THEN UNCHANGED fifoVars
     ELSE Submit("free", l)
  /\ UNCHANGED <<gate, embedHeld, chatGen, tokenRef, histVars>>

\* evaluateLoadGate: the death marker, the resident model, the fit
LoadGated(l) ==
  /\ At(l, "gating")
  /\ \/ Refused(l)
     \/ Named \cap {NoModel, load[l].model} # {} /\ Admitted(l)
     \/ /\ context \notin {NoModel, load[l].model} /\ Goes(l, "evicting")
        /\ UNCHANGED <<gateVars, fifoVars, faceVars, tokenRef, histVars>>
  /\ UNCHANGED <<chatVars, embVars, pickVars, hot, switch, turnVars, query>>

\* another model is resident: a bounded dispose, then the fit
LoadEvicts(l) ==
  /\ \/ /\ At(l, "evicting") /\ ~Busy /\ Submit("dispose", l) /\ Goes(l, "evicted")
        /\ UNCHANGED <<gateVars, faceVars, tokenRef, histVars>>
     \/ At(l, "evicting") /\ Busy /\ Refused(l)
     \/ At(l, "evicted") /\ ~Pending("dispose", l) /\ (Admitted(l) \/ Refused(l))
  /\ UNCHANGED <<chatVars, embVars, pickVars, hot, switch, turnVars, query>>

\* it is shown, then the fallback is taken -- once, and whether the load is still wanted
\* or not
reportLoadRefusal(l) ==
  /\ At(l, "reporting") /\ Shows("error") /\ Goes(l, "hopping")
  /\ UNCHANGED <<gateVars, fifoVars, chatVars, embVars, pickVars, tokenRef, hot, switch, turnVars,
                 query, histVars>>

runLoadFallback(l) ==
  /\ At(l, "hopping")
  /\ \/ Ends(l, FALSE) /\ UNCHANGED <<faceVars, pickVars>>
     \/ \E m \in Models \ {load[l].model, selected} :
          /\ hopped # load[l].model /\ (l = "hop" \/ At("hop", "off"))
          /\ hopped' = m /\ selected' = m /\ modelState' = "checking" /\ probe' = TRUE
          /\ load' = [[load EXCEPT ![l] = Ended(l, FALSE)] EXCEPT !["hop"] = Called(m)]
          /\ UNCHANGED appGen
  /\ UNCHANGED <<gateVars, fifoVars, chatVars, embVars, tokenRef, hot, switch, turnVars, query,
                 histVars>>

\* a load that gives up: a native operation is in the way for too long
GivesUp(l) ==
  /\ markEmbedderHung /\ embedHeld' = FALSE /\ UNCHANGED <<chatGen, is2B>>
  /\ gate' = (IF load[l].token = chatGen /\ ChatHolds THEN "idle" ELSE EmbedFreed)
  /\ tokenRef' = Unreferenced(load[l].token)
  /\ Shows("error") /\ Ends(l, FALSE) /\ UNCHANGED histVars

\* (slip: it just goes)
Vanishes(l) == Ends(l, FALSE) /\ UNCHANGED <<gateVars, tokenRef, embVars, faceVars>>
Abandons(l) == GivesBack(l) /\ Ends(l, FALSE) /\ UNCHANGED <<embVars, faceVars>>

LoadCleared(l) ==
  /\ At(l, "clearing")
  /\ \/ /\ ~Pending("free", l) /\ StillCurrent(l) /\ Goes(l, "submitting")
        /\ UNCHANGED <<gateVars, tokenRef, embVars, faceVars>>
     \/ ~Pending("free", l) /\ ~StillCurrent(l) /\ Abandons(l)
     \/ Pending("free", l) /\ GivesUp(l)
  /\ UNCHANGED <<histVars, fifoVars, chatVars, pickVars, hot, switch, turnVars, query>>

\* the last look before the native load: stale, the embedder given up, or too hot
LoadSubmits(l) ==
  /\ At(l, "submitting")
  /\ \/ /\ StillCurrent(l) /\ embHung
        /\ GivesBack(l) /\ Ends(l, FALSE) /\ Shows("error") /\ UNCHANGED embVars
     \/ (~StillCurrent(l) \/ (~embHung /\ hot)) /\ Abandons(l)
     \/ /\ ~embHung /\ StillCurrent(l) /\ ~hot /\ Goes(l, "queueing")
        /\ UNCHANGED <<gateVars, tokenRef, embVars, faceVars>>
  /\ UNCHANGED <<histVars, fifoVars, chatVars, pickVars, hot, switch, turnVars, query>>

\* runNativeOpBounded: only ever the first in the line
LoadQueues(l) ==
  /\ At(l, "queueing")
  /\ \/ /\ ~Busy /\ Submit("init", l) /\ Goes(l, "initing")
        /\ UNCHANGED <<gateVars, tokenRef, embVars, faceVars, histVars>>
     \/ Busy /\ GivesUp(l) /\ UNCHANGED fifoVars
  /\ UNCHANGED <<chatVars, pickVars, hot, switch, turnVars, query>>

LoadSettles(l) ==
  /\ At(l, "initing") /\ ~Pending("init", l)
  /\ \/ load[l].ok /\ ~StillCurrent(l) /\ Abandons(l) /\ Leaves(load[l].token)
     \/ /\ load[l].ok /\ StillCurrent(l)
        /\ markChatReady(load[l].token) /\ Shows("ready") /\ Ends(l, TRUE)
        /\ UNCHANGED <<tokenRef, embVars, histVars>>
     \/ /\ ~load[l].ok /\ GivesBack(l) /\ Ends(l, FALSE) /\ Leaves(load[l].token)
        /\ UNCHANGED embVars
        /\ IF StillCurrent(l) THEN Shows("error") ELSE UNCHANGED faceVars
  /\ UNCHANGED <<fifoVars, chatVars, pickVars, hot, switch, turnVars, query>>

-----------------------------------------------------------------------------
(* What starts a load without a turn: the probe's kick, and the chip.      *)

\* decideModelPress, for models that are all on disk
ChipReloads ==
  ~embHung /\ (modelState = "error" \/ (modelState = "ready" /\ Named # {selected}))

userReloadModel ==
  /\ Act /\ ChipReloads /\ At("tap", "off") /\ load' = [load EXCEPT !["tap"] = Called(selected)]
  /\ UNCHANGED <<gateVars, fifoVars, chatVars, embVars, faceVars, pickVars, tokenRef, hot, switch,
                 turnVars, query>>

Probe ==
  /\ probe /\ switch.at = "off"
  /\ probe' = FALSE /\ modelState' = "ready" /\ UNCHANGED hopped
  /\ \/ At("tap", "off") /\ load' = [load EXCEPT !["tap"] = Called(selected)]
     \/ UNCHANGED load           \* this model was already kicked, or a load is on its way
  /\ UNCHANGED <<gateVars, fifoVars, chatVars, embVars, pickVars, tokenRef, hot, switch, turnVars,
                 query, histVars>>

-----------------------------------------------------------------------------
(* The switch: selectModel.                                                *)

\* while a turn holds the send claim a switch is put off, and forgotten after 5 s
selectModel(m) ==
  /\ Act /\ ~claimed /\ ~hot /\ switch.at = "off" /\ modelState # "loading" /\ m # selected
  /\ switch' = [at |-> "waiting", token |-> tokenRef] /\ tokenRef' = 0
  /\ appGen' = appGen + 1 /\ selected' = m
  /\ modelState' = "checking" /\ probe' = FALSE /\ UNCHANGED hopped
  /\ UNCHANGED <<gateVars, fifoVars, chatVars, embVars, hot, load, turnVars, query>>

\* the finally: only the token taken at the tap is given back
SwitchEnds ==
  /\ markChatReleased(switch.token) /\ switch' = [at |-> "off", token |-> 0]
  /\ Leaves(switch.token)

SwitchDisposes ==
  /\ switch.at = "waiting"
  /\ \/ /\ ~Busy /\ Submit("dispose", Switch) /\ switch' = [switch EXCEPT !.at = "disposing"]
        /\ UNCHANGED <<gateVars, faceVars, histVars>>
     \/ /\ Busy /\ Shows("error") /\ SwitchEnds
        /\ UNCHANGED fifoVars
  /\ UNCHANGED <<chatVars, embVars, pickVars, tokenRef, hot, load, turnVars, query>>

SwitchSettles ==
  /\ switch.at = "disposing" /\ ~Pending("dispose", Switch) /\ SwitchEnds
  /\ probe' = TRUE /\ UNCHANGED <<modelState, hopped>>
  /\ UNCHANGED <<fifoVars, chatVars, embVars, pickVars, tokenRef, hot, load, turnVars, query>>

-----------------------------------------------------------------------------
(* A turn, the document tool inside it, the indexer.                       *)

TurnFrame == UNCHANGED <<gateVars, chatVars, embVars, faceVars, pickVars, tokenRef, hot, switch>>
TurnOver == turn' = "off" /\ claimed' = FALSE /\ stopped' = FALSE
TurnGoes(to) == turn' = to /\ UNCHANGED <<claimed, stopped>>

Send ==
  /\ Act /\ turn = "off" /\ ~claimed /\ switch.at = "off" /\ ~hot
  /\ turn' = "ensure" /\ claimed' = TRUE /\ load' = [load EXCEPT ![Turn] = Called(selected)]
  /\ TurnFrame /\ UNCHANGED <<stopped, fifoVars, query>>

\* the job captures the context; a refused load that another one explains is waited out
TurnStarts ==
  /\ turn \in {"ensure", "again"} /\ At(Turn, "told")
  /\ load' = [load EXCEPT ![Turn] = NoLoad]
  /\ \/ load[Turn].ok /\ context # NoModel /\ TurnGoes("decode")
     \/ load[Turn].ok /\ context = NoModel /\ TurnOver
     \/ /\ ~load[Turn].ok /\ turn = "ensure" /\ gate = "chat_loading"
        /\ TurnGoes("wait")
     \/ ~load[Turn].ok /\ ~(turn = "ensure" /\ gate = "chat_loading") /\ TurnOver
  /\ TurnFrame /\ UNCHANGED <<fifoVars, query, histVars>>

waitForInFlightChatLoad ==
  /\ turn = "wait"
  /\ \/ /\ ~stopped /\ gate # "chat_loading" /\ TurnGoes("again")
        /\ load' = [load EXCEPT ![Turn] = Called(selected)]
     \/ stopped /\ TurnOver /\ UNCHANGED load
  /\ TurnFrame /\ UNCHANGED <<fifoVars, query, histVars>>

\* document_chat embeds its question
ToolCalled ==
  /\ turn = "decode" /\ context # NoModel /\ ~embHung /\ query["tool"] = "off"
  /\ TurnGoes("tool") /\ Answer("tool", "asked") /\ Submit("embed", "tool")
  /\ TurnFrame /\ UNCHANGED <<load, histVars>>

\* the tool's answer, or its own time limit, which cuts the question -- an injected tool's
\* does not
ToolReturns ==
  /\ turn = "tool"
  /\ IF context = NoModel THEN TurnOver ELSE TurnGoes("decode")
  /\ UNCHANGED query \/ (query["tool"] # "off" /\ Answer("tool", "cut"))
  /\ TurnFrame /\ UNCHANGED <<fifoVars, load, histVars>>

TurnEnds ==
  /\ turn = "decode" /\ TurnOver
  /\ TurnFrame /\ UNCHANGED <<fifoVars, load, query, histVars>>

\* stop: the turn is aborted, and with it its tool's question (one that is left from
\* before may be this turn's or an earlier one's)
Stop ==
  /\ turn # "off" /\ ~stopped /\ stopped' = TRUE
  /\ \/ query["tool"] # "off" /\ Answer("tool", "cut")
     \/ (turn # "tool" \/ query["tool"] = "off") /\ UNCHANGED query
  /\ TurnFrame /\ UNCHANGED <<turn, claimed, fifoVars, load, histVars>>

\* three seconds later the claim of a turn that has not ended is free
StopUnlocks ==
  /\ stopped /\ claimed /\ claimed' = FALSE
  /\ TurnFrame /\ UNCHANGED <<turn, stopped, fifoVars, load, query, histVars>>

IndexerAsks ==
  /\ Act /\ query["indexer"] = "off" /\ ~embHung
  /\ Answer("indexer", "asked") /\ Submit("embed", "indexer")
  /\ TurnFrame /\ UNCHANGED <<turnVars, load>>

Heat ==
  /\ Act /\ hot' = TRUE /\ ~hot
  /\ UNCHANGED <<gateVars, fifoVars, chatVars, embVars, faceVars, pickVars, tokenRef, load, switch,
                 turnVars, query>>
Cool ==
  /\ hot /\ hot' = FALSE
  /\ UNCHANGED <<gateVars, fifoVars, chatVars, embVars, faceVars, pickVars, tokenRef, load, switch,
                 turnVars, query, histVars>>

-----------------------------------------------------------------------------
LoadStep(l) ==
  \/ LoadOpens(l) \/ LoadProbed(l) \/ LoadClaims(l) \/ LoadReclaims(l) \/ LoadGated(l)
  \/ LoadEvicts(l) \/ reportLoadRefusal(l) \/ runLoadFallback(l)
  \/ LoadCleared(l) \/ LoadSubmits(l) \/ LoadQueues(l) \/ LoadSettles(l)

EngineStep ==
  \/ disposeEngine \/ initEngine \/ ContextReleased \/ DisposeTimesOut
  \/ EngineLoaded \/ EngineOpened
EmbedStep(q) == ensureEmbedder(q) \/ EmbedderStarted(q) \/ EmbeddingDone(q)
SwitchStep == SwitchDisposes \/ SwitchSettles
TurnStep == TurnStarts \/ waitForInFlightChatLoad \/ ToolCalled \/ ToolReturns \/ TurnEnds

EngineNext ==
  \/ \E l \in Slots : LoadStep(l)
  \/ \E q \in Callers : EmbedStep(q)
  \/ releaseEmbedder \/ EngineStep \/ SwitchStep \/ TurnStep
  \/ Probe \/ userReloadModel \/ (\E m \in Models : selectModel(m))
  \/ Send \/ Stop \/ StopUnlocks \/ IndexerAsks \/ Heat \/ Cool

EngineSpec == EngineInit /\ [][EngineNext]_engineVars

-----------------------------------------------------------------------------
LoadSteps == {"off", "called", "probing", "claiming", "freeing", "gating", "evicting", "evicted",
              "reporting", "hopping", "clearing", "submitting",
              "queueing", "initing", "told"}

EngineTypeOK ==
  /\ gate \in {"idle", "chat_loading", "chat_ready", "embed_active"}
  /\ embedHeld \in BOOLEAN /\ chatGen \in Nat /\ is2B \in BOOLEAN
  /\ fifo \in Seq([kind : {"embed", "use", "free", "dispose", "init"},
                   by : Slots \cup Callers \cup {Switch}])
  /\ stage \in {"queued", "starting", "closing", "waiting", "draining", "loading", "opening",
               "undoing"}
  /\ context \in Models \cup {NoModel} /\ chatMem \in 0 .. 2 /\ contextHung \in BOOLEAN
  /\ emb \in BOOLEAN /\ embMem \in BOOLEAN /\ embHung \in BOOLEAN
  /\ appGen \in Nat /\ selected \in Models /\ tokenRef \in 0 .. chatGen
  /\ modelState \in {"checking", "loading", "ready", "error"}
  /\ hopped \in Models \cup {NoModel} /\ probe \in BOOLEAN /\ hot \in BOOLEAN
  /\ load \in [Slots -> [at : LoadSteps, model : Models \cup {NoModel}, gen : 0 .. appGen,
                         token : 0 .. chatGen, ok : BOOLEAN]]
  /\ switch \in [at : {"off", "waiting", "disposing"}, token : 0 .. chatGen]
  /\ turn \in {"off", "ensure", "again", "wait", "decode", "tool"}
  /\ claimed \in BOOLEAN /\ stopped \in BOOLEAN
  /\ query \in [Callers -> {"off", "asked", "using", "cut"}]
  /\ strayed \in BOOLEAN /\ acts \in 0 .. MaxActs

\* Two contexts share the memory only where the device and the model allow it -- except
\* after a native call was given up (a restart is asked for), and while the chat's memory is
\* there without its place, which comes about in four ways: a switch whose dispose found
\* the line busy, a load no longer wanted when its native call is back, a load whose
\* projector throws over the context it opened, and a load whose place the switch gave
\* back before its native call.  It ends with that memory, or with a load that takes the
\* place and keeps the context.
OneBudget ==
  chatMem > 0 /\ embMem =>
    \/ HighMem /\ context \in Small \cup {NoModel}
    \/ contextHung \/ embHung \/ strayed

\* The chat never holds two contexts: a load that replaces a model frees the old one
\* first, whoever else loads, switches or evicts meanwhile.
OneChat == chatMem <= 1

\* No context is released under a job that runs in it, the job that waits for its
\* document tool included: who releases waits for the jobs, or gives up.
ReleaseIsQuiet == turn \in {"decode", "tool"} => chatMem > 0

\* "Loading" is always some living load's: no way out of a load -- stale, too hot, refused,
\* failed, given up -- leaves the gate shut behind it, which nothing would open again.
LoadingIsSomeones ==
  gate = "chat_loading" => \E l \in Slots : load[l].token = chatGen

\* The place of a resident chat can be given back: its token is in the reference, in the
\* switch that took it, or in a load.  A lost token would refuse every later load.
GateIsOwned ==
  ChatHolds => \/ tokenRef = chatGen
               \/ switch.at # "off" /\ switch.token = chatGen
               \/ \E l \in Slots : load[l].token = chatGen

\* The embedder's memory is held at the gate, whatever the chat's load does beside it,
\* unless its native call was given up.
EmbedderIsHeld == embMem => embedHeld \/ embHung

\* Only the owner of the chat's place gives it back: the load with the newest token, or
\* the switch that captured it; a late load's release does not open a newer one's gate.
OwnerFrees ==
  [][ChatHolds /\ ~ChatHolds' =>
       \/ \E l \in Slots : load[l].token = chatGen /\ load'[l] # load[l]
       \/ switch.at # "off" /\ switch.token = chatGen /\ switch' # switch]_engineVars

\* "Loading" is shown only while something will take it down again: a load on its way, a
\* switch, or the probe that follows.  It puts the composer, the chip, the picker and the
\* downloads on hold, so nothing the user has would.
LoadingFaceIsTrue ==
  modelState = "loading" =>
    \/ \E l \in Slots : load[l].at \in {"clearing", "submitting", "queueing", "initing"}
    \/ switch.at # "off" \/ probe
===============================================================================
