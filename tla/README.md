# Kalsa: a verification project

Kalsa runs a language model on a home computer and lets the household's phones
use it. `src/desktop` is the computer's program: a Tauri shell
(`src-tauri`), a React chat (`chat`) and the Rust crates (`crates`) that do the
work. `src/phone` is the React Native app. The engine is `llama-server`, an
outside program.

This directory holds TLA+ models of the parts whose correctness depends on the
order of steps, the TLC runs that check them on small instances, and TLAPS
proofs. `PROJECT.json` lists, in machine form, the components, the runs, the map
from every definition to the lines it models, the hazards and the theorems.

## 1. Inventory

| Component | State it keeps | Operations | Who it talks to |
|---|---|---|---|
| **Seats and the revocation gate** (kalsa-door `slots.rs`, `proxy.rs`, `room/turn.rs`) | set of devices, device → slot, free slots, lease counts, slots held back for revoked devices, a bounded wait for a seat | `lease`, lease drop, `swap`, the `{holds; write}` gate, waiting | workers, the room's driver, the app (which swaps the set) |
| **Disk tier** (`paging.rs`, `paging/*`) | per slot: which chat it holds, a dirty mark; per chat: a file and a staging file | `activate`, `erase`, `handover`, `recall`, idle save, release, save on quit | the seats, the engine, the app's ticker |
| **Answers** (`jobs.rs`, `registry.rs`, `stream.rs`, `proxy.rs` resume) | per answer: a numbered log, a verdict, readers; the registry of kept answers | produce, append, close, supersede, grace, resume, follow, reap | the engine, the client that asked, clients that come back |
| **Worker line and shutdown** (`server.rs`, `queue.rs`, `lib.rs`) | a bounded line, a connection count, the stop flag | push, pop, expire, close, wake | the listener, workers, sweeper, reaper |
| **Pairing** (kalsa-pairing; `src-tauri` `pairing.rs`, `invites.rs`, `transport.rs`) | the device set on disk, ceremonies with a clock, retained deliveries, invites | offer, claim, complete, acknowledge, allow, forget, open and cancel an invite | phones over HTTP, the door (which mirrors the set) |
| **Room's store** (kalsa-room `append.rs`, `log.rs`, `recovery.rs`, `identity.rs`, `room.rs`) | an append-only transcript on disk, its epoch, the entries in memory, the read-only state | open and recover, post, retry of a post, failed append and asking the file, new epoch | the door's routes, the disk |
| **Room's routes** (kalsa-door `room/`, kalsa-room `events.rs`) | the streams, the queue of calls to the AI, the cap per device | post, history, info, events, submit, withdraw, stop | phones, the store, the seats (the AI is a guest with one) |
| **Phone: outgoing messages** (phone `room/roomQueue*.ts`, `roomApi.ts`) | the shelf on the phone's disk, one session and its flight, a retry timer, the epoch it has cached | compose, discard, retry, kick, flush, post, settle | the composer, the door |
| **Phone: reading** (phone `room/roomStream*.ts`, `roomFeed.ts`, `useRoom.ts`) | the resume floor, acked numbers, a resync under way, the rows on the screen | dial, read, fold, resync, pause, stop | the door, the queue's acks, the screen |
| **Supervisor** (kalsa-supervisor, `crash_restart.rs`) | the engine's process, its health, its release of the model | start, stop, drain, observe, restart once | the engine's pipes and signals, the app's poll |
| **Phone: its own engine** (phone `engine/llamaContextGate.ts`, `EmbeddingService.ts`, `LlamaService.ts`; `host/engineEnsure*.ts`, `engineLoad.ts`, `modelSwitch.ts`, `engineTurn.ts`) | the gate of the memory and its generations, a FIFO of native operations, two contexts (the chat's, the embedder's), the loads on their way, the switch, the turn | ensure a model, probe, evict, refuse and fall back, switch, turn with a document tool, embed, release, stop | the user, the indexer, the heat, llama.cpp inside the app |
| Downloads, remote road, runtime and model choice, tools (mail, browser, web, files, MCP), app shell, the rest of both user interfaces | see PROJECT.json | | |

How the modelled parts meet: a request is authenticated against the set, leases
its device's seat, hands over the slot's previous chat and recalls its own
(disk tier), is written to the engine inside the gate, and its answer becomes a
job (answers) that outlives its socket. The app's ticker works on the disk tier
at the same time, and the app swaps the set of devices under everything. In the room, a message goes from
the composer to the shelf, from there by a flight to the door's route, and through
the store into the transcript; every phone that follows the room reads it from a
history page or from the event stream, and the phone that wrote it from the ack. The
phone's own engine stands apart: it answers when there is no computer, and its parts
meet in one gate and one line of native operations.

What is hard here: the seat moves between devices while the disk tier saves
under a different lock; the ticker saves without any lock and checks afterwards;
a completion names no chat; the engine forgets its state on its own; the set
changes at any step; five different hands may end an answer while two
connections read it; a post may land without its sender being told, or after the
sender gave it up; the computer may go down in any part of an append, and the
numbers of the transcript may start over under the phones that read it; on the phone's
own engine, loads, a switch, a turn and the indexer overlap at every await, and any of
their bounded waits may run out while the native call goes on. The `hazards` of PROJECT.json give each such place, its
line, and the properties that would notice it going wrong.

What makes each component correct:

- seats: no slot serves two devices; no slot is lost; nothing is written for a
  device that left the set; a kept device keeps its slot;
- disk tier: a chat's file holds that chat's words and nothing else; "clean"
  means saved; no request drops a state that is not on disk;
- answers: whatever is lost and resumed, a client reads the events in order,
  once, and to the end; an answer that ended does not change; one nobody follows
  ends;
- worker line: every accepted connection is served, refused or dropped, and a
  closing door's threads all end;
- pairing: the file is always a whole set; one seat per phone; a retried
  completion gets its own delivery; a crash forgets nothing that was promised;
- room's store: under one epoch a number names one entry for ever, and a message
  lands once, whatever crashed, was retried or was damaged;
- outgoing messages: none is lost on the phone, they land in their order, and one
  that can be posted is;
- reading: the rows are the room's entries, the resume floor skips none, rows do not
  move under the reader, and a phone that follows catches up;
- the phone's engine: two contexts share the memory only where they fit, the chat never
  has two, none is freed under a job, and the gate is neither lost nor taken from its
  owner.

## 2. Modules

### DeviceSeats — seats, leases, the gate, the wait

One action per critical section of `DeviceSet` and per step of the threads that
use it. `current`, `assigned`, `free`, `leases`, `pendingFree` are the fields of
`Slots`; `last_used` counters are abstracted to the order they induce
(`before`). `seatWaiting` and `seatWaiters` are the wait's set and its separate
counter: `SeatWaitGuard::drop` is two steps (`Uncount`, `Unlist`), as in the code.
A thread's `pc` says where its request stands; a thread that found no seat is "crowded"
until it asks for a place in the wait, which is another lock (`FullHouse`, `StartWait`). The places inside the gate are
`gated` and `headgated`, and `Swap` needs both empty (the write half of the
gate's lock). The room's driver writes outside the gate, as `ask_the_engine` does,
so the gate's property is about the workers. The salt and the seal are not
modelled. A device may leave the set and come back under its id.

### ChatTier — the disk tier

`claim[s]` and `dirty[s]` are `Slot.resident` and `Slot.dirty_at`; `eng[s]` is what
the engine's slot really holds, which the code cannot see. A state is abstracted
to its author: a device, a chat, and the number of turns. `Activate`, `Erase`,
`Handover` and `Recall` hold the slot's lock from end to end and are one action
each, with every outcome of every engine call in it: obeyed, refused, or unanswered
and obeyed or not ("silent"). The ticker's save is five steps, because it holds
no lock across the engine: pick, engine, commit check, rename, settle. `Sleep` and
`PurgeIdle` are the engine's own. `SlotGate` of the window is in `Send`.

The choice of a slot is left open here, since DeviceSeats has it. The set of devices
is fixed, since DeviceSeats has its changes. The room's guest behaves as one more
device that opens no chats. Left out: `save_on_quit`, the sweep of stale files at
start, the backoff after a failed save, the validation of ids and paths.

`live`, and `same`/`moved` of the tick, are bookkeeping: `live` is a history of
whether the engine released its model since a claim was set, `same` is the
comparison of the mark with the instant the save left with, `moved` is used only to
express the bound `TickOvertaken`.

### AnswerJobs — answers, resume, registry

`job[j]` is the log and its verdict, `prod[j]` the thread in `produce_and_serve`
and `conn[c]` a thread in `resume`/`serve_resume`, each at the step it is about
to take; `current` and `got` are the client's side: the connection it reads and
the events it received. An event is its index. `append`, `close`, `take`,
`resume_decision`, `find_reading` and `abandon_detached` are single steps because
each holds its lock throughout; the loop's look at the readers and the close that
follows are two (`Loop`, `GiveUp`): the grace check (`stream.rs:105`) and the close are not one
step with `find_reading`, unlike the supersede, and a client may be on its way back between
them. A condition variable's wait is a step that is not
enabled. A take and the writes of what it took are one step: the log only grows, so what was
taken is written as it was; the look at the stop before it is not part of that step, so one
more take may follow a stop. A write that loses its client delivers a prefix. An end in the
middle of an answer may be told apart in the model, as it is of a chunked body; of a body its
close delimits the code takes every end for a good one (`stream.rs:144`), which is among
the model's choices. The registry's choice
between expired and oldest answers is left open. Left out: SSE framing, the
observer, the owner comparison (only owners are given an answer's name, and the
model's clients ask for their own). The client is external: neither the chat nor the
phone app of this repository resumes an answer yet, so it is the one the door's docs
and tests describe, which sends back the id of the last event it received.

### Transcript — what the room promises

The abstract specification of the room: an epoch, a `book` of the entries ever
served under each epoch, and what is served now. A message lands at the end of a
transcript served whole (`Land`); a room that came back from its file may serve a
part (`Show`); when entries are gone the numbering starts over (`StartOver`).
RoomLog and RoomQueue are shown to implement it, and RoomStream is built on it.

### RoomLog — the store

`lines`, `tail` and `stored` are the disk: the complete lines of the file, the bytes
after the last newline as at most one line, the epoch in the identity file. `messages`,
`epoch` and `writable` are `Room`'s memory; `book` is a history. `Post` is one step
because `Room::post` holds the write lock from the check of the key to the wake of the
readers; what may come between is `CrashInPost`, which leaves any part of the line on the
disk. `Opened` is `log::open`: the longest prefix whose lines are numbered and unrepeated,
a mended last line, or a file cut back; `Settles` is `after_failed_append`, which asks
the file what became of an append whose answer is unknown. A line that does not parse,
or that was damaged, is `Garbage`.

`LogSpec` is the store where it keeps its promise. Three failures are left out of it
and added by `ShakenSpec`: the file cannot be read after a failed append (`AskFails`), a
failed append finds older lines damaged (`AppendFindsDamage`; the new epoch may be on disk and
not in memory, when the roster cannot be published), and `Room::open`
goes down between cutting the file back and publishing the new epoch
(`OpenStopsShort`). The run `room_epoch_lost` shows what the last one does. Left out:
members and their join points (the phone joined an empty room), the AI's own posts,
references to media.

### RoomQueue — from the composer to the transcript

EXTENDS RoomLog: the phone's outgoing queue, the door's guards before the store, and
the store itself. A flight's `pc` names the await it stands at: the pairing's record
(`probe`), the shelf (`look`), the request (`wire`), the answer (`told`). The shelf, the
pairing and the subscription may change at each of them, and a flight outlives the
session that started it, so two may run. `shelf` holds what `mutateRoomQueue` wrote;
"sending" is "queued" here, since the shelf is read back that way. `Ends` is the
`finally` of `runAttempt` with its rerun; `SettlesAs` is the outcome table. A refused epoch is
forgotten when the answer arrives (`HearsEpoch`), a step before the shelf hears of it.
`DoorUnusable` is a post that never leaves the phone: a damaged pairing store, or a record
without a road or a token. It ends the flight on "hold", without a timer. `late` holds
requests the phone gave up that may still arrive. `composed`, `acked`, `letGo` and
`shelfFailed` are histories; the last is what `EventuallyPosted` excepts, a failing
store of the phone or an unusable record: the code then waits for the next trigger. `Upset` bounds failures, not the code's own moves.
Between reading the head and marking it the code awaits; the model's `Look` does both,
and a discard in between is one after `Look`: the message goes out either way.

### RoomStream — reading

A phone before any room that keeps Transcript's promise. `stream` is the session of
`roomStream.ts` with its `phase`, `conn` the door's side of the wire (what it was
opened after, and where a room that went down cut it), `feed` the state folded by
`roomFeed.ts`, `read` the first read of `useRoom.ts`. A request and the door's answer are
one step, but a history page is folded later than it was read, and a frame may
be dispatched after everything else moved. `past` is a history: from which entry
on the floor is claimed whole, and whether one of two known mix-ups happened.
`crossed`: a resync's info and its page fell into two epochs. `strayed`: an ack of an
epoch that is over was taken for the number of an entry of this one, and the entry
was skipped. `NoHole`, `RowsAreReal` and `CatchesUp` exclude these states by name; they
are disagreements of the code with itself, described under "Seen while modelling" and met by
TLC when the exception is deleted from the property. Pages of the model hold
the whole transcript; names, partial answers, older pages and the caps are left out.

### EngineGate — the phone's own engine

JavaScript runs one step at a time between awaits, so a step of the model is the code
between two waits for something outside: a native call, a timer, the disk, another
caller's promise. Continuations that follow each other without such a wait are one
step. `gate`, `embedHeld`, `chatGen` and `is2B` are the module state of
`llamaContextGate.ts`; `fifo` is its chain of native operations, of which the first runs,
and `stage` is where that one stands. A load's init publishes its context as soon as the native
call is back ("opening"), and awaits the saved session and the projector after that: others
see the context meanwhile, and its name a little later (`Named`). It then works, fails with the
context left where it is, or gives the context back like an old one ("undoing"): see
`EngineOpened`. An init of the resident model is answered at once, or replaces it when its
parameters differ (`initEngine`). `context` is `LlamaService`'s handle, `chatMem` the
number of contexts that really hold memory, `contextHung` its poisoned mark;
`emb`, `embMem`, `embHung` the same of `EmbeddingService`. `load[l]` is one call of
`ensureEngineForModel` at the await it stands at, with the generation and the token it
captured; three may be on their way (the turn's, a tap's or a kick's, a
fallback's). `switch` is `selectModel` with the token it took out of `chatGateGenRef`
(`tokenRef`); `turn` and `claimed` are the turn and the send claim, `query` the two users
of the embedder. `modelState`, `hopped` and `probe` are the face the user sees. `Stop`
aborts the turn (`stopped`) and cuts its tool's question; `StopUnlocks` is the watchdog three
seconds later, which frees the claim while the turn may go on. `strayed` is a history: the
memory the chat has now is there without its place at the gate. It ends with that memory, or
with a load that takes the place and keeps the context. One `acts` counts what the user, the indexer and the heat do.

Time is left out: any bounded wait may run out before its native call is back, and every
native call comes back in the end. Left out: the iOS memory guard, the
releases on idle and on suspension, `markEngineLost`, a poisoned context's return
(`engineEnsure.ts:90-92`), downloads, the remote backend, the unmount of the screen, and a second send while a
stopped turn is still wedged.

### MC modules and proof modules

`MCDeviceSeats`, `MCChatTier`, `MCAnswerJobs`, `MCRoomLog`, `MCRoomQueue`, `MCRoomStream`
and `MCEngineGate` name the model values, the sets a cfg cannot write, the symmetry and, in
`MCRoomQueue` and `MCEngineGate`, the view. `MCEngineGate` also starts from a warm engine
(`Warm`), states the cold start reaches, so that its acts go further. `DeviceSeatsProofs`,
`ChatTierProofs`, `ChatTierReleaseProofs`, `AnswerJobsProofs`, `RoomLogProofs`,
`RoomQueueProofs`, `RoomStreamProofs` and `EngineGateProofs` hold theorems. Definitions
marked "slip" in the specifications are the mutated forms of their neighbours: each is
a plausible bug, and the property it is paired with in PROJECT.json notices it.

## 3. Runs

| Run | What it asks | Bounds |
|---|---|---|
| `seats` | do slots ever alias, leak or move; does the gate hold; is the wait counted | 2 slots, 2 phones and the guest (more devices than slots), 2 workers and the driver, 1 waiter |
| `seats_live` | is a revoked device's exchange cut although its answer never ends | 1 slot, no symmetry |
| `tier` | does every file hold its own chat; does clean mean saved; is a state ever dropped | 1 slot shared by the window and a phone, 2 chats, 2 turns, every engine fault |
| `tier_refused_handover` | lifts one assumption of `tier`: TLC finds the code's disagreement with its own comment | as `tier`, handover saves may be refused |
| `jobs` | order, wholeness, the frozen log, supersede, and that answers end | 1 answer of up to 3 events against a roof of 2, a second completion, 1 resuming connection besides the original |
| `jobs_fully_seen` | is a failed answer already fully seen refused, as its comment and test say | as `jobs` |
| `room_post` | is a message ever lost on the phone; do messages land in their order | 2 messages, 2 flights at once, 1 upset of any kind, intact disk, 1 epoch; symmetry, and a view that forgets epoch stamps |
| `room_post_live` | does the whole chain keep the room's promise; does what was acked stay; is a queued message posted in the end | 2 messages, 1 flight, 1 upset, 1 damaged line or unwritable repair, 2 epochs; no symmetry |
| `room_stream` | are the rows real, the floor whole, do rows stay, does the phone catch up | 2 messages, 1 of them the phone's own, 2 epochs, a cap of resyncs, upsets |
| `room_gap` | is an entry announced while the page loads ever missing, as the screen says it cannot be | as `room_stream` |
| `room_epoch_lost` | the store with every failure: does a number keep its entry | 2 messages, 2 epochs, 1 fault |
| `engine` | do two contexts ever share the phone's memory, is one freed in use, is the gate lost or taken from its owner | a small and a big model, a device below the co-residency threshold, 1 act after a cold start, 2 after a warm one, stops free; 2.3 million states; a view that forgets how old an old generation is |

Why the bounds are enough: aliasing and eviction need one device more than slots,
which `seats` has; a stale wait needs two switches; the disk tier's mistakes need
two chats of one device or two devices in one slot, and a file holding one turn
less than the slot (2 turns); a hole or a repeat needs a resume in the middle of a
log (2 stored events), the roof one event more than it holds. In `jobs` the engine
refuses the second completion (`Answered`): what it does to the first answer, the
supersede, is before that. In the room, order and loss need two messages and two flights over one shelf;
one upset is every single lost request, lost answer, kill, refusal, crash or failure of the
phone's store, at every step; the store's mistakes need a crash inside an append after
a served entry, a damaged line and a second epoch. `room_post` keeps the disk intact
and one epoch, where a stamped and a bare request are answered alike, so that states
that differ in stamps only are one (`Stampless`); damage and epochs are in
`room_post_live`. In `engine`, a stale release needs a load on its way and a switch or a
fallback beside it, and a release under a job needs a turn with its tool and a switch:
one act from the warm engine for each, and loads, refusals, fallbacks, probes, stops and
every timeout cost none. Generations only grow and are compared with the newest only,
which is what the view keeps of them. Two more configurations are kept beside it:
`MCEngineGateRoomy.cfg`, a device above the threshold, where TLC finds the stale
co-residency described under "Seen while modelling", and `MCEngineGateFace.cfg`, for the
face that stays on "loading". Symmetry is used in runs with safety properties only. Deadlock is off
in `jobs`, where the finite answers end and nothing else happens, and where a room's
bounded messages, upsets and epochs, or the acts of `engine`, are used up.

**Fairness.** Only what the code's threads give. `room_post_live`: a flight under
way takes its steps, kicks, flushes and the retry timer come, the door answers, and a
room that is down is opened again; nobody owes a subscription, a retry by the user or
a stream. `room_stream`: the session and the first read take their steps; the room, the user
and failures owe nothing. `seats_live`: each thread takes
its own steps (`Continue`) and the relay looks at the set again; nothing says the
engine's answer ends or that the app does anything. `jobs`: the producer and every
resuming connection take their steps, the grace's clock runs, and a socket whose
client left is found out (strong fairness of `Notice`: the engine can neither talk
for ever without the door writing to that socket, nor be silent without the door
looking at it). The engine may send keep-alives for ever, and no deadline of an
answer is assumed to fire; a resuming connection's own lifetime does end it.

**What `tier` assumes, and what lifting it shows.** `tier` passes with one
request at a time per device, no turn of another chat running across a switch, no
slot that leaves and regains a chat under one tick, handover saves not refused and
one slot. Each is an assumption the code relies on and does not enforce; lifting it
breaks `OwnWordsOnly`, and a comment of the code says it should not. The first of the five
is a run; the other four have their configuration here and TLC finds the same
property violated under each:

1. `tier_refused_handover`: a refused handover leaves the seat with the new device,
   whose next request makes no handover (`proxy.rs:417`).
2. `MCChatTierParallel.cfg`: a second request of the device that took a seat does not
   wait for the first one's handover (`slots.rs:197`).
3. `MCChatTierOvertaken.cfg`: the commit check cannot tell "still holds" from "holds
   again" (`cadence.rs:208`).
4. `MCChatTierSibling.cfg`: a turn of the chat the window left writes into the slot of
   the chat it opened (`proxy.rs:601`).
5. `MCChatTierTwoSlots.cfg`: a claim a handover left behind in one slot is recalled after
   the window opened another chat in another slot (`paging.rs:542`).

And `jobs_fully_seen`: event ids count from zero and `resume_decision` compares them
with a length, so the answer it means to refuse is served (`jobs.rs:279`).
`room_gap`: a fresh stream starts from now, and the first page was read at another
moment, so an entry in between is in neither (`roomStreamWire.ts:116`). `room_epoch_lost`: a
damaged transcript is cut back before the new epoch is on disk, and a stop between the
two lets served numbers name new entries under the old epoch (`room.rs:117`).

## 4. Proofs

`DeviceSeatsProofs` proves, for every finite set of devices and workers, every number
of slots and every bound on the waiters, that the specification implies each of the
invariants `seats` checks (`TypeOK`, `SlotPartition`, `LeasesCounted`,
`OneDevicePerSlot`, `NeverWritesRevoked`, `WaitsBounded`) and the action property
`SwapKeepsSeats`. The assumptions are `SeatsAssumption`: at least one slot, finite
sets, distinct names for "none".

The inductive invariant is `Inv == TypeOK /\ Placed /\ SeatInv /\ NeverWritesRevoked
/\ WaitsBounded`. None of the checked invariants is inductive alone:

- `SlotPartition` needs the counts (a slot held back must have a lease, or nobody
  would ever free it), and the counts need to know which threads hold a lease
  (`Placed`: a thread holds a slot exactly when its place says so);
- `OneDevicePerSlot` needs `SeatKept`: a thread's slot is its device's seat, or is
  held back for a revoked device. An eviction takes only slots with a zero
  count, which by `LeasesCounted` no thread holds;
- `NeverWritesRevoked` holds because a swap waits for the gate, which is `Placed`
  plus the guard of `Swap`;
- `WaitsBounded` says that the counter equals the number of switches between
  "waiting" and the first half of the drop, and that the set has one entry per
  switch up to the second half: cardinality lemmas carry it.

The proof goes by kind of step: lemmas say what a lease (`SeatsLeased`), a drop
(`SeatsLeft`) and a swap (`SeatsSwapped`) do to `SeatInv`, and what leaves it alone
(`SeatsUntouched`); the same for the wait. Each action is then one step of
`ContinueKeeps` or `NextKeeps`.

`ChatTierProofs` proves `TypeOK` of every instance, with no assumption on slots, requests or
faults: a request under way knows its device and slot, and a tick's save its chat (`Placed`).
The bound on a chat's turns needs a guard of its own in `Complete`, which the bound on their
sum implies: that a term is no more than its sum is an induction, out of reach here.

It proves `OwnWordsOnly`, `CleanMeansSaved` and `NoRequestLosesAChat` for every
set of devices, threads and chats, any number of turns and every fault of a switch, a
recall or a tick, under `OneByOne`: one slot and the four assumptions of the run `tier`, each of
which has a configuration above that breaks `OwnWordsOnly` without it. `TierInv` has four
layers. `Seated`: a device has one request, a slot one device, so the thread that stands in
a slot is alone there. `ClaimOK`: a resident claim is of the device whose seat the slot is, or
of the one a handover is taking it from, names the chat its window shows, and the engine
holds that chat's words or none; so a turn that reaches the engine speaks in the chat the
claim names, and a switch or a deletion never meets a foreign claim. `TickOK`: the
ticker's save knows whether its chat left the slot since it was picked, which is all the
commit check can see. `LateOK`: what it has staged is what the slot holds, unless the slot
is marked again or the save lost its mark. A switch has ten ways out; `SwitchOutcomes` sorts
them into four, and `Reclaimed` is the one lemma for every step that sets a claim.

`ChatTierReleaseProofs` proves `ClaimOutlivesRelease` of every instance, with no assumption
on requests or faults: while the engine sleeps no claim is good (`live`), and a claim that is
set moves the count, so the sample the ticker acts on is no longer fresh for that slot.

`AnswerJobsProofs` proves the invariants and action properties of `jobs` for every
number of jobs, connections, devices and events, and `RunningIsKept` (a running
answer is never evicted from the registry), which needs two started answers and is too
much for the run. The inductive `JobInv` ties three sequences that belong to three actors:
the job's log, the position of whoever writes from it, and what the client holds. What a
connection is about to write begins right after what its client got (or the client
has moved to another connection and this one's writes reach nobody), which gives
`InOrder`; a connection that saw the verdict stood at the log's end when it did,
and a log with a verdict does not grow (`Frozen`), which gives `WholeMeansWhole`.

`RoomLogProofs` proves `OneEntryPerNumber` and that the store implements Transcript
(`KeepsPromise`), for every set of messages and number of epochs and faults. `LogInv`
says that everything ever served under the epoch is on the disk in order, unless a line
of it is damaged (`HoldsBook`), that a room which serves less has a damaged line to show for it,
and that a writable room's memory, file and book are the same. Without the clause about
the disk, a crash and a reopening would break the invariant; without the one about
damage, cutting the file back would lose what was served under the same epoch. The lemmas
about `Opened` (what reading any file returns) and `Wrote` (what any interrupted append
leaves) carry the proof.

`RoomQueueProofs` proves that phone, network and door move the store only as RoomLog
allows, so that RoomLog's theorems hold for the whole chain; and, with `QueueInv == PhoneOK
/\ ToldRight /\ NothingLost`, that no message is lost on the phone and that what was acked
stays in the room while its epoch lasts. `ToldRight` says that a flight carrying "sent" carries
a message the room holds under the epoch it names: it is what makes it safe to take
the message off the shelf.

The last part of the module proves `InTurn`, whose invariant `TurnInv` speaks of orders
rather than of steps. A message goes out only when the phone is done with all that were
composed before it, and it stays so in a flight, in a request that was given up and
in the room (`InLine`): hence, when it lands behind everything else, whatever should have come
after it and is there already found it let go, or acked under an epoch that is over, and
these are `InTurn`'s exceptions (`LandsInOrder`). The order is kept of the file's lines and
tail as well as of what is served, because a crash and a reopening serve from the
file (`OnFile`), and a shelf is only ever thinned or lengthened at its end (`ShelfThins`). Nobody
composes into the past (`Continues`), so what was in order stays in order.

`RoomStreamProofs` proves `StreamTypeOK`, `RowsAreReal`, `NoHole` and `RowsStay` for any number of
messages, epochs, resyncs and upsets. `StreamInv` rests on one fact about the room: under each epoch
the book only grows (`BookGrows`), so a row, a page, an ack or a wire that was true of its epoch
when it was made is true of it when the phone uses it, however late, and whatever
epochs passed meanwhile (`ReadOK`, `AcksOK`, `WireOK`, `ScreenOK`). For the floor, three parts need
each other: within the epoch the floor is counted in, the door's next frame is at most its
successor (`FloorOK`), a number the stream will skip because an ack named it is on the
screen (`AckedOK`), so a floor that moves, by a frame or past skipped numbers, moves over shown
rows only (`HoleOK`). The two exceptions, an ack matched by its number alone and a page
read across two epochs, are the model's `strayed` and `crossed`.

`EngineGateProofs` proves, for every catalog, device and number of acts, that the gate is
not leaked (`GateIsOwned`, `LoadingIsSomeones`) nor freed by anyone but its owner (`OwnerFrees`),
that the chat has one context (`OneChat`), which nobody frees under a job (`ReleaseIsQuiet`), and
that the embedder's memory is held (`EmbedderIsHeld`). The assumption is
`EngineAssumption`. `EngineInv` has six parts: a load's token is its own and no newer than
the last one, and a load whose generation is current and whose token is the newest is the
one `tokenRef` names (`Owned`: without it, a load that is kept would drop the only record of its
token); the turn's load is there only while the turn waits for it (`TurnLoads`); the first
operation is of the kind that is at work, and a native load belongs to a load that waits for
it (`Lined`); what the memory holds is the context's, or the one going or coming
(`Counted`); a handle is dropped with its memory only by a native call given up (`Embedded`).
A load's steps are of four kinds, each with one lemma: it moves on, it ends without the
gate, it gives the gate back, it takes it.

`EngineTypes` adds the types: no load, reference or lock names a token that `chatGen` has
not handed out, nor a generation that is still to come.

The rest of the module builds `OneBudget` on that, for devices below the co-residency threshold
(`~HighMem`). There a gate held for a chat, or open, does not hold the embedder (`Apart`), and
the chat's memory is there only behind the gate, unless it strayed or its native call was given
up (`Kept`). `Kept` also says that a load which holds the newest token while the chat has
memory is at its native call: so no way out of a load before that call leaves memory behind an open
gate, and the ways out after it are those that say so (`Leaves`). The failed projector is one of
them: the load fails, its context stays, and the gate is opened over it. The case that
needs the work is a load about to make its native call: its generation is current, so its
token is in the reference, so it is not the one a switch took away; if the gate was let go
since it was taken, `initEngine` says that the memory strays. Above the threshold `OneBudget` does not hold of the code (see
"Seen while modelling").

Every safety property of the passing runs, invariant or action property, is a theorem
now; `room_post_live`'s refinement is one too (`PhoneKeepsPromise`). Only model-checked are
the liveness properties (`RevokedIsCut`, `UnfollowedStops`, `StoppedEnds`,
`EventuallyPosted`, `CatchesUp`): liveness under fairness and ENABLED are out of the prover's
reach, as is induction over data. And four theorems are narrower than
the code: ChatTier's three about files and claims hold under `OneByOne`, `OneBudget` below the
threshold. Section 3 and "Seen while modelling" say what happens beyond.

## 5. Not modelled, and why

- **Pairing store, desk, transport.** Files published whole, one at a time, behind one
  lock. The hazards (a retried completion, a crash between two files) are listed.
- **Worker line and shutdown; save on quit.** One lock and short steps; the save on quit
  is the handover's save under one time budget.
- **The door's queue of calls to the AI, media, history views.** In-process and
  sequential under one lock; the seat its driver takes is in DeviceSeats.
- **Supervisor, downloads, remote road, choice of model, tools.** Process control and I/O
  against outside programs. The supervisor's one effect on these models, the
  release of the model, is `Sleep` in ChatTier.
- **Parsing, framing, heads, CORS.** Sequential and unit-tested.
- **The rest of the phone's engine.** Decoding, sessions on disk, the remote backend, and the
  releases by the memory guard, on idle and on suspension. The gate and its users are in EngineGate.
- **User interfaces.** Presentation over the state the other parts keep.

Seen while modelling, and not the subject of a run:

- `roomApi.ts`: a refused read or post forgets the epoch that both callers share, and an
  open stream goes on under an epoch nobody caches. `CatchesUp` is claimed while
  `cached = epoch`; when a refused read has emptied it, the screen may keep the old
  epoch's rows until the next resync.
- `roomStreamDispatch.ts:94`: an ack is matched by its number alone (`strayed`).
- `roomStreamRefetch.ts`: the info and the page of a resync are two reads (`crossed`).
- `roomQueue.ts`: two flights over one shelf may bring back an id that the other had
  marked as refused, and a message discarded between the load and the mark goes out
  anyway. The header (lines 16-17) says that a pairing that no longer exists leaves its
  messages on the shelf as terminal failures; the code deletes the shelf (lines 383-396),
  as `Probe` does here.
- The phone's engine, a switch after a stop: the stop's watchdog frees the send claim while the
  turn's `document_chat` still waits for its embedding. A switch then puts its dispose at the
  head of the line; the dispose waits up to 60 s for the job, the job for its tool, and the
  tool for the line. The context is given up as hung (`LlamaService.ts:3416-3459`) although no
  native call is. (`DisposeTimesOut`)
- The chat's memory without its place at the gate (`strayed`, which `OneBudget` excepts), so that
  the embedder may load beside it, comes about in four ways. A switch that finds the line busy
  opens the gate with the old context resident. A load that is no longer wanted when its native
  call is back opens it over the context it made. A load past its last look may
  make its native call after a switch gave its place back. And a projector that throws fails
  the load after the context is set (`LlamaService.ts:3220-3232`): `engineEnsure.ts:279-284`
  opens the gate over it, and every later load of that model finds its name active
  (`engineEnsure.ts:93`) and is answered "ready" without asking for the gate.
- `engineEnsureLoad.ts:241-242`: a native load whose wait for the line ran out marks the embedder
  hung, whatever operation holds the line.
- `engineEnsure.ts:157-161`: the size class the gate compares is written before the
  gate is asked, by a load that may never get it, such as the fallback of a refused load. The class
  of a model that is not resident then admits the embedder beside a resident big one, contrary
  to `llamaContextGate.ts:20-22`. TLC finds it under `MCEngineGateRoomy.cfg`.
- `engineEnsureLoad.ts:107` and `:209`: when the heat turns critical between the face that says
  "loading" and the last look, the load ends and the face stays: composer, chip, picker and
  downloads are held, although `phone/archived/docs/C3-HARD-GATE-IMPL-REPORT.md:18` says the chip
  "remains the lazy reload action after cooldown". TLC finds it under `MCEngineGateFace.cfg`.
- `engineLoad.ts:184-233`: the fallback of a refused load does not ask whether the load is still
  wanted, and may override the model the user picked meanwhile.
