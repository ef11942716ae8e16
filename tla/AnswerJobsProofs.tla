-------------------------- MODULE AnswerJobsProofs --------------------------
(***************************************************************************)
(* Proofs about AnswerJobs: for every number of answers, connections,      *)
(* devices and events, what a client has received is the beginning of the  *)
(* log, whole when it was told so, and an ended answer does not change.    *)
(*                                                                         *)
(* The invariant ties the three places that count events: the log, what    *)
(* the client of a job received, and the cursor of the one thread that may *)
(* still write to that client.                                             *)
(***************************************************************************)
EXTENDS AnswerJobs, FiniteSetTheorems, SequenceTheorems, TLAPS

-----------------------------------------------------------------------------
(* The invariant.                                                          *)

\* where the producer stands says whether the answer has begun or ended
PlacedAt(j) ==
  /\ prod[j].at \in {"new", "asked"} =>
       /\ job[j].status = "none" /\ job[j].len = 0 /\ job[j].sent = 0
       /\ prod[j].cursor = 0
  /\ prod[j].at \notin {"new", "asked", "ended"} => job[j].status # "none"
  /\ prod[j].at \in {"drain", "ended"} => job[j].status # "running"

\* a running answer's log holds what the engine sent but for the event in hand, and
\* one that is done holds all of it
Pending(j) == IF prod[j].at = "append" THEN 1 ELSE 0
NumberedAt(j) ==
  /\ job[j].status = "running" => job[j].sent = job[j].len + Pending(j)
  /\ job[j].status = "done" => prod[j].at \in {"drain", "ended"} /\ job[j].sent = job[j].len

\* the thread that may write to the client of a job stands where the client does
Seen(c) == IF conn[c].at \in {"asked", "found"} THEN conn[c].cursor + 1 ELSE conn[c].cursor
ReadAt(j) ==
  /\ Len(got[j]) <= job[j].len
  /\ current[j] \in {None, j} \union Conns
  /\ current[j] = j => /\ prod[j].cursor = Len(got[j])
                       /\ prod[j].at = "asked" \/ job[j].attached
  /\ \A c \in Conns : current[j] = c =>
       conn[c].at # "idle" /\ conn[c].job = j /\ Seen(c) = Len(got[j])

\* no connection is ahead of the log it reads
BehindAt(c) == conn[c].at # "idle" => conn[c].job \in Jobs /\ Seen(c) <= job[conn[c].job].len

WholeAt(j) == j \in whole => job[j].status = "done" /\ Len(got[j]) = job[j].len

JobInv ==
  /\ TypeOK /\ InOrder
  /\ RunningIsKept /\ IsFiniteSet(kept)
  /\ \A j \in Jobs : PlacedAt(j) /\ NumberedAt(j) /\ ReadAt(j) /\ WholeAt(j)
  /\ \A c \in Conns : BehindAt(c)

-----------------------------------------------------------------------------
(* Steps of the logs.                                                      *)

Readable == Jobs \union Conns \union {None}

\* the part of TypeOK that is not about what the registry keeps
Typed ==
  /\ job \in [Jobs -> Job] /\ prod \in [Jobs -> Producing] /\ conn \in [Conns -> Resuming]
  /\ stopped \subseteq Devices /\ whole \subseteq Jobs
  /\ current \in [Jobs -> Readable] /\ got \in [Jobs -> Seq(0 .. Roof - 1)]

Registered == kept \subseteq Jobs /\ IsFiniteSet(kept) /\ Cardinality(kept) <= MaxJobs

Frozen ==
  \A j \in Jobs : Finished(j) => job'[j].status = job[j].status /\ job'[j].len = job[j].len

\* what a step may do to a job whose client receives nothing in it
MovesOn(i) ==
  /\ PlacedAt(i)' /\ NumberedAt(i)'
  /\ Running(i)' => i \in kept'
  /\ job[i].len <= job'[i].len
  /\ Finished(i) => job'[i].status = job[i].status /\ job'[i].len = job[i].len
  /\ \/ current'[i] = None
     \/ /\ current'[i] = current[i]
        /\ current[i] = i => /\ prod'[i].cursor = prod[i].cursor
                             /\ prod'[i].at = "asked" \/ job'[i].attached
     \/ current'[i] = i /\ prod'[i].cursor = 0 /\ prod'[i].at = "asked" /\ job[i].len = 0

LEMMA InvParts ==
  /\ JobInv => Typed /\ Registered
  /\ JobInv <=> /\ Typed /\ Registered /\ InOrder /\ RunningIsKept
                /\ \A j \in Jobs : PlacedAt(j) /\ NumberedAt(j) /\ ReadAt(j) /\ WholeAt(j)
                /\ \A c \in Conns : BehindAt(c)
  BY DEF JobInv, TypeOK, Typed, Registered, Readable

(* A step in which every job moves on, and nobody receives anything. *)
LEMMA LogsMove ==
  ASSUME JobInv, job' \in [Jobs -> Job], prod' \in [Jobs -> Producing],
         stopped' \subseteq Devices, current' \in [Jobs -> Readable], Registered',
         UNCHANGED <<conn, got, whole>>, \A i \in Jobs : MovesOn(i)
  PROVE  JobInv' /\ Frozen
  <1> USE JobsAssumption
  <1>1. /\ Typed /\ InOrder
        /\ \A j \in Jobs : PlacedAt(j) /\ NumberedAt(j) /\ ReadAt(j) /\ WholeAt(j)
        /\ \A c \in Conns : BehindAt(c)
    BY InvParts
  <1>2. Typed' /\ InOrder'
    BY <1>1 DEF Typed, InOrder
  <1>3. RunningIsKept' /\ Frozen
    BY DEF RunningIsKept, MovesOn, Frozen
  <1>4. ASSUME NEW i \in Jobs
        PROVE  ReadAt(i)'
    <2>1. ReadAt(i) /\ MovesOn(i) /\ got'[i] = got[i] /\ conn' = conn
      BY <1>1, <1>4
    <2>2. job[i].len \in Nat /\ job'[i].len \in Nat /\ got[i] \in Seq(0 .. Roof - 1)
          /\ Len(got[i]) \in Nat
      BY <1>1, <1>4 DEF Typed, Job
    <2>3. i # None /\ i \notin Conns
      BY <1>4
    <2>4. CASE current'[i] = None
      BY <2>1, <2>2, <2>3, <2>4 DEF ReadAt, MovesOn
    <2>5. CASE current'[i] = current[i]
      BY <2>1, <2>2, <2>3, <2>5 DEF ReadAt, MovesOn, Seen
    <2>6. CASE current'[i] = i /\ prod'[i].cursor = 0 /\ prod'[i].at = "asked" /\ job[i].len = 0
      BY <2>1, <2>2, <2>3, <2>6 DEF ReadAt, MovesOn
    <2> QED  BY <2>1, <2>4, <2>5, <2>6 DEF MovesOn
  <1>5. ASSUME NEW i \in Jobs
        PROVE  PlacedAt(i)' /\ NumberedAt(i)' /\ WholeAt(i)'
    BY <1>1, <1>5 DEF MovesOn, WholeAt, Finished
  <1>6. ASSUME NEW x \in Conns
        PROVE  BehindAt(x)'
    <2>1. conn[x].at # "idle" => /\ conn[x].job \in Jobs /\ Seen(x) \in Nat
                                 /\ Seen(x) <= job[conn[x].job].len
      <3>1. conn[x] \in Resuming
        BY <1>1, <1>6 DEF Typed
      <3>2. conn[x].cursor \in Nat
        BY <3>1 DEF Resuming
      <3>3. Seen(x) \in Nat
        BY <3>2 DEF Seen
      <3> QED  BY <1>1, <1>6, <3>3 DEF BehindAt
    <2>2. \A i \in Jobs : /\ job[i].len \in Nat /\ job'[i].len \in Nat
                          /\ job[i].len <= job'[i].len
      BY <1>1 DEF MovesOn, Typed, Job
    <2>3. conn' = conn /\ Seen(x)' = Seen(x)
      BY DEF Seen
    <2> QED  BY <2>1, <2>2, <2>3 DEF BehindAt
  <1> QED  BY <1>2, <1>3, <1>4, <1>5, <1>6 DEF JobInv, TypeOK, Typed, Registered, Readable

(* A step of one job, the others as they were. *)
LEMMA OneMoves ==
  ASSUME JobInv, NEW j \in Jobs, job' \in [Jobs -> Job], prod' \in [Jobs -> Producing],
         current' \in [Jobs -> Readable], UNCHANGED <<conn, kept, stopped, got, whole>>,
         \A i \in Jobs \ {j} : /\ job'[i] = job[i] /\ prod'[i] = prod[i]
                               /\ current'[i] = current[i],
         MovesOn(j)
  PROVE  JobInv' /\ Frozen
  <1>1. /\ Typed /\ Registered /\ RunningIsKept
        /\ \A i \in Jobs : PlacedAt(i) /\ NumberedAt(i) /\ ReadAt(i)
    BY InvParts
  <1>2. Registered' /\ stopped' \subseteq Devices
    BY <1>1 DEF Registered, Typed
  <1>3. ASSUME NEW i \in Jobs \ {j}
        PROVE  MovesOn(i)
    <2>1. job'[i] = job[i] /\ prod'[i] = prod[i] /\ current'[i] = current[i] /\ kept' = kept
      BY <1>3
    <2>2. PlacedAt(i)' /\ NumberedAt(i)' /\ Running(i)' = Running(i)
      BY <1>1, <2>1 DEF PlacedAt, NumberedAt, Pending, Running
    <2>3. job[i].len \in Nat
      BY <1>1, JobsAssumption DEF Typed, Job
    <2>4. Running(i) => i \in kept
      BY <1>1 DEF RunningIsKept
    <2>5. current[i] = i => prod[i].at = "asked" \/ job[i].attached
      BY <1>1 DEF ReadAt
    <2> QED  BY <2>1, <2>2, <2>3, <2>4, <2>5 DEF MovesOn
  <1>4. \A i \in Jobs : MovesOn(i)
    BY <1>3
  <1> QED  BY <1>2, <1>4, LogsMove

-----------------------------------------------------------------------------
(* What the operators of the producer do.                                  *)

Places == {"new", "asked", "head", "loop", "giveup", "read", "append", "serve",
           "finish", "drain", "ended"}

\* only this job's log, only this job's producer
OneLog(j) == job' \in [Jobs -> Job] /\ \A i \in Jobs \ {j} : job'[i] = job[i]
OneProducer(j) == prod' \in [Jobs -> Producing] /\ \A i \in Jobs \ {j} : prod'[i] = prod[i]

LEMMA ToFacts ==
  ASSUME Typed, NEW j \in Jobs, NEW place \in Places, To(j, place)
  PROVE  OneProducer(j) /\ prod'[j].at = place /\ prod'[j].cursor = prod[j].cursor
  <1>1. prod \in [Jobs -> Producing]
    BY DEF Typed
  <1> QED  BY <1>1 DEF To, OneProducer, Producing, Places

LEMMA DrainsFacts ==
  ASSUME Typed, NEW j \in Jobs, Drains(j)
  PROVE  OneProducer(j) /\ prod'[j].at = "drain" /\ prod'[j].cursor = prod[j].cursor
  <1>1. prod \in [Jobs -> Producing]
    BY DEF Typed
  <1> QED  BY <1>1 DEF Drains, OneProducer, Producing

LEMMA EndFacts ==
  ASSUME Typed, NEW j \in Jobs, End(j)
  PROVE  OneProducer(j) /\ prod'[j].at = "ended" /\ prod'[j].cursor = 0
  <1>1. prod \in [Jobs -> Producing]
    BY DEF Typed
  <1>2. ProducerAt("ended") \in Producing
    BY JobsAssumption DEF ProducerAt, Producing
  <1> QED  BY <1>1, <1>2 DEF End, OneProducer, ProducerAt

(* The first verdict stands. *)
LEMMA CloseFacts ==
  ASSUME Typed, NEW j \in Jobs, NEW s \in Failures \union {"done"}, Close(j, s)
  PROVE  /\ OneLog(j)
         /\ job'[j].status = IF Running(j) THEN s ELSE job[j].status
         /\ job'[j].len = job[j].len /\ job'[j].sent = job[j].sent
         /\ job'[j].attached = job[j].attached
  <1>1. job \in [Jobs -> Job]
    BY DEF Typed
  <1> QED  BY <1>1 DEF Close, Verdict, OneLog, Job, Failures

LEMMA SameLogs ==
  ASSUME Typed, NEW j \in Jobs, UNCHANGED job
  PROVE  OneLog(j)
  BY DEF Typed, OneLog

(* The facts about one job that every step below starts from. *)
LEMMA JobFacts ==
  ASSUME JobInv, NEW j \in Jobs
  PROVE  /\ Typed /\ PlacedAt(j) /\ NumberedAt(j) /\ ReadAt(j)
         /\ Running(j) => j \in kept
         /\ job[j] \in Job /\ prod[j] \in Producing
         /\ job[j].len \in Nat /\ job[j].sent \in Nat /\ job[j].attached \in BOOLEAN
         /\ prod[j].at \in Places /\ prod[j].cursor \in Nat
         /\ j # None /\ j \notin Conns
  <1>1. /\ Typed /\ RunningIsKept
        /\ \A i \in Jobs : PlacedAt(i) /\ NumberedAt(i) /\ ReadAt(i)
    BY InvParts
  <1>2. job[j] \in Job /\ prod[j] \in Producing
    BY <1>1 DEF Typed
  <1>3. /\ job[j].len \in Nat /\ job[j].sent \in Nat /\ job[j].attached \in BOOLEAN
        /\ prod[j].at \in Places /\ prod[j].cursor \in Nat
    BY <1>2, JobsAssumption DEF Job, Producing, Places
  <1> QED  BY <1>1, <1>2, <1>3, JobsAssumption DEF RunningIsKept

(* A step of a producer that writes nothing and leaves the client's connection *)
(* alone.                                                                  *)
LEMMA ProducerMoves ==
  ASSUME JobInv, NEW j \in Jobs, OneLog(j), OneProducer(j),
         UNCHANGED <<conn, kept, stopped, current, got, whole>>,
         PlacedAt(j)', NumberedAt(j)', Running(j)' => Running(j), job[j].len <= job'[j].len,
         Finished(j) => job'[j].status = job[j].status /\ job'[j].len = job[j].len,
         prod'[j].cursor = prod[j].cursor,
         current[j] = j /\ job[j].attached => job'[j].attached,
         prod[j].at = "asked" => prod'[j].at = "asked"
  PROVE  JobInv' /\ Frozen
  <1>1. Typed /\ ReadAt(j) /\ (Running(j) => j \in kept)
    BY JobFacts
  <1>2. current' \in [Jobs -> Readable]
    BY <1>1 DEF Typed
  <1>3. MovesOn(j)
    BY <1>1 DEF MovesOn, ReadAt
  <1> QED  BY <1>2, <1>3, OneMoves DEF OneLog, OneProducer

-----------------------------------------------------------------------------
(* The producer.                                                           *)

LEMMA FinishKeeps ==
  ASSUME JobInv, NEW j \in Jobs, Finish(j)
  PROVE  JobInv' /\ Frozen
  <1>1. Typed /\ PlacedAt(j) /\ NumberedAt(j) /\ job[j].len \in Nat /\ prod[j].at = "finish"
    BY JobFacts DEF Finish
  <1>2. /\ OneProducer(j) /\ prod'[j].at = "drain" /\ prod'[j].cursor = prod[j].cursor
        /\ OneLog(j) /\ job'[j].status = (IF Running(j) THEN "done" ELSE job[j].status)
        /\ job'[j].len = job[j].len /\ job'[j].sent = job[j].sent
        /\ job'[j].attached = job[j].attached
    BY <1>1, DrainsFacts, CloseFacts DEF Finish
  <1>3. PlacedAt(j)' /\ NumberedAt(j)'
    BY <1>1, <1>2 DEF PlacedAt, NumberedAt, Pending, Running
  <1> QED  BY <1>1, <1>2, <1>3, ProducerMoves DEF Finish, Running, Finished, Failed, Failures

LEMMA GiveUpKeeps ==
  ASSUME JobInv, NEW j \in Jobs, GiveUp(j)
  PROVE  JobInv' /\ Frozen
  <1>1. Typed /\ PlacedAt(j) /\ NumberedAt(j) /\ job[j].len \in Nat /\ prod[j].at = "giveup"
    BY JobFacts DEF GiveUp
  <1>2. /\ OneProducer(j) /\ prod'[j].at = "drain" /\ prod'[j].cursor = prod[j].cursor
        /\ OneLog(j) /\ job'[j].status = (IF Running(j) THEN "abandoned" ELSE job[j].status)
        /\ job'[j].len = job[j].len /\ job'[j].sent = job[j].sent
        /\ job'[j].attached = job[j].attached
    BY <1>1, DrainsFacts, CloseFacts DEF GiveUp, Failures
  <1>3. PlacedAt(j)' /\ NumberedAt(j)'
    BY <1>1, <1>2 DEF PlacedAt, NumberedAt, Pending, Running
  <1> QED  BY <1>1, <1>2, <1>3, ProducerMoves DEF GiveUp, Running, Finished, Failed, Failures

LEMMA ElapseKeeps ==
  ASSUME JobInv, NEW j \in Jobs, Elapse(j)
  PROVE  JobInv' /\ Frozen
  <1>1. Typed /\ PlacedAt(j) /\ NumberedAt(j) /\ job[j].len \in Nat
    BY JobFacts
  <1>2. /\ prod \in [Jobs -> Producing] /\ UNCHANGED job
        /\ prod' = [prod EXCEPT ![j].grace = "over"]
    BY <1>1 DEF Typed, Elapse
  <1>3. OneProducer(j) /\ prod'[j].at = prod[j].at /\ prod'[j].cursor = prod[j].cursor
    BY <1>2 DEF OneProducer, Producing
  <1>4. OneLog(j)
    BY <1>1, <1>2, SameLogs
  <1>5. PlacedAt(j)' /\ NumberedAt(j)'
    BY <1>1, <1>2, <1>3 DEF PlacedAt, NumberedAt, Pending
  <1> QED  BY <1>1, <1>2, <1>3, <1>4, <1>5, ProducerMoves DEF Elapse, Running

LEMMA LoopKeeps ==
  ASSUME JobInv, NEW j \in Jobs, Loop(j)
  PROVE  JobInv' /\ Frozen
  <1>1. Typed /\ PlacedAt(j) /\ NumberedAt(j) /\ job[j].len \in Nat /\ prod[j].at = "loop"
    BY JobFacts DEF Loop
  <1>2. /\ prod \in [Jobs -> Producing] /\ prod[j] \in Producing
        /\ UNCHANGED <<conn, kept, stopped, current, got, whole>>
    BY <1>1 DEF Typed, Loop
  <1>3. CASE Drains(j) /\ Finished(j) /\ UNCHANGED job
    <2>1. /\ OneProducer(j) /\ prod'[j].at = "drain" /\ prod'[j].cursor = prod[j].cursor
          /\ OneLog(j)
      BY <1>1, <1>3, DrainsFacts, SameLogs
    <2>2. PlacedAt(j)' /\ NumberedAt(j)'
      BY <1>1, <1>3, <2>1 DEF PlacedAt, NumberedAt, Pending, Finished, Failed, Failures
    <2> QED  BY <1>1, <1>2, <1>3, <2>1, <2>2, ProducerMoves DEF Running
  <1>4. ASSUME Running(j), Drains(j), NEW s \in Failures, Close(j, s)
        PROVE  JobInv' /\ Frozen
    <2>1. /\ OneProducer(j) /\ prod'[j].at = "drain" /\ prod'[j].cursor = prod[j].cursor
          /\ OneLog(j) /\ job'[j].status = s
          /\ job'[j].len = job[j].len /\ job'[j].sent = job[j].sent
          /\ job'[j].attached = job[j].attached
      BY <1>1, <1>4, DrainsFacts, CloseFacts
    <2>2. PlacedAt(j)' /\ NumberedAt(j)'
      BY <1>1, <1>4, <2>1 DEF PlacedAt, NumberedAt, Pending, Failures
    <2> QED  BY <1>1, <1>2, <1>4, <2>1, <2>2, ProducerMoves
             DEF Running, Finished, Failed, Failures
  <1>5. ASSUME UNCHANGED job, Running(j), NEW place \in {"read", "giveup"},
               NEW g \in {"none", "running", "over"},
               prod' = [prod EXCEPT ![j].at = place, ![j].grace = g]
        PROVE  JobInv' /\ Frozen
    <2>1. OneProducer(j) /\ prod'[j].at = place /\ prod'[j].cursor = prod[j].cursor
      BY <1>2, <1>5 DEF OneProducer, Producing
    <2>2. OneLog(j)
      BY <1>1, <1>5, SameLogs
    <2>3. PlacedAt(j)' /\ NumberedAt(j)'
      BY <1>1, <1>5, <2>1 DEF PlacedAt, NumberedAt, Pending, Running
    <2> QED  BY <1>1, <1>2, <1>5, <2>1, <2>2, <2>3, ProducerMoves DEF Running
  <1>6. \/ Drains(j) /\ Finished(j) /\ UNCHANGED job
        \/ Running(j) /\ Drains(j) /\ \E s \in Failures : Close(j, s)
        \/ /\ UNCHANGED job /\ Running(j)
           /\ \E place \in {"read", "giveup"}, g \in {"none", "running", "over"} :
                prod' = [prod EXCEPT ![j].at = place, ![j].grace = g]
    BY DEF Loop, Grace, Failures
  <1> QED  BY <1>3, <1>4, <1>5, <1>6

LEMMA ReadKeeps ==
  ASSUME JobInv, NEW j \in Jobs, Read(j)
  PROVE  JobInv' /\ Frozen
  <1>1. /\ Typed /\ PlacedAt(j) /\ NumberedAt(j) /\ job[j].len \in Nat /\ job[j].sent \in Nat
        /\ prod[j].at = "read"
    BY JobFacts DEF Read
  <1>2. /\ prod \in [Jobs -> Producing] /\ prod[j] \in Producing /\ job \in [Jobs -> Job]
        /\ UNCHANGED <<conn, kept, stopped, current, got, whole>>
    BY <1>1 DEF Typed, Read
  <1>3. ASSUME NEW last \in BOOLEAN, job' = [job EXCEPT ![j].sent = @ + 1],
               prod' = [prod EXCEPT ![j].at = "append", ![j].last = last]
        PROVE  JobInv' /\ Frozen
    <2>1. OneProducer(j) /\ prod'[j].at = "append" /\ prod'[j].cursor = prod[j].cursor
      BY <1>2, <1>3 DEF OneProducer, Producing
    <2>2. /\ OneLog(j) /\ job'[j].sent = job[j].sent + 1 /\ job'[j].len = job[j].len
          /\ job'[j].status = job[j].status /\ job'[j].attached = job[j].attached
      BY <1>2, <1>3 DEF OneLog, Job
    <2>3. PlacedAt(j)' /\ NumberedAt(j)'
      BY <1>1, <2>1, <2>2 DEF PlacedAt, NumberedAt, Pending
    <2> QED  BY <1>1, <1>2, <2>1, <2>2, <2>3, ProducerMoves DEF Running
  <1>4. ASSUME UNCHANGED job, OneProducer(j), prod'[j].at \in {"serve", "loop"},
               prod'[j].cursor = prod[j].cursor
        PROVE  JobInv' /\ Frozen
    <2>1. OneLog(j)
      BY <1>1, <1>4, SameLogs
    <2>2. PlacedAt(j)' /\ NumberedAt(j)'
      BY <1>1, <1>4 DEF PlacedAt, NumberedAt, Pending
    <2> QED  BY <1>1, <1>2, <1>4, <2>1, <2>2, ProducerMoves DEF Running
  <1>5. ASSUME NEW last \in BOOLEAN, UNCHANGED job,
               prod' = [prod EXCEPT ![j].at = "serve", ![j].last = last]
        PROVE  JobInv' /\ Frozen
    <2>1. OneProducer(j) /\ prod'[j].at = "serve" /\ prod'[j].cursor = prod[j].cursor
      BY <1>2, <1>5 DEF OneProducer, Producing
    <2> QED  BY <1>4, <1>5, <2>1
  <1>6. CASE To(j, "loop") /\ UNCHANGED job
    BY <1>1, <1>4, <1>6, ToFacts DEF Places
  <1>7. CASE Close(j, "upstream") /\ Drains(j)
    <2>1. /\ OneProducer(j) /\ prod'[j].at = "drain" /\ prod'[j].cursor = prod[j].cursor
          /\ OneLog(j) /\ job'[j].status = (IF Running(j) THEN "upstream" ELSE job[j].status)
          /\ job'[j].len = job[j].len /\ job'[j].sent = job[j].sent
          /\ job'[j].attached = job[j].attached
      BY <1>1, <1>7, DrainsFacts, CloseFacts DEF Failures
    <2>2. PlacedAt(j)' /\ NumberedAt(j)'
      BY <1>1, <2>1 DEF PlacedAt, NumberedAt, Pending, Running
    <2> QED  BY <1>1, <1>2, <2>1, <2>2, ProducerMoves DEF Running, Finished, Failed, Failures
  <1> QED  BY <1>3, <1>5, <1>6, <1>7 DEF Read

LEMMA AppendKeeps ==
  ASSUME JobInv, NEW j \in Jobs, AppendEvent(j)
  PROVE  JobInv' /\ Frozen
  <1>1. /\ Typed /\ PlacedAt(j) /\ NumberedAt(j) /\ job[j].len \in Nat /\ job[j].sent \in Nat
        /\ prod[j].at = "append" /\ job[j] \in Job
    BY JobFacts DEF AppendEvent
  <1>2. /\ job \in [Jobs -> Job]
        /\ UNCHANGED <<conn, kept, stopped, current, got, whole>>
    BY <1>1 DEF Typed, AppendEvent
  <1>3. OneProducer(j) /\ prod'[j].at = "serve" /\ prod'[j].cursor = prod[j].cursor
    BY <1>1, ToFacts DEF AppendEvent, Places
  <1>4. CASE Running(j) /\ job[j].len < Roof
    <2>1. job' = [job EXCEPT ![j].len = @ + 1]
      BY <1>4 DEF AppendEvent, Accepts, HasRoom
    <2>2. job[j].len + 1 \in 0 .. Roof
      BY <1>1, <1>4, JobsAssumption DEF Job
    <2>3. /\ OneLog(j) /\ job'[j].len = job[j].len + 1 /\ job'[j].sent = job[j].sent
          /\ job'[j].status = job[j].status /\ job'[j].attached = job[j].attached
      BY <1>2, <2>1, <2>2 DEF OneLog, Job
    <2>4. PlacedAt(j)' /\ NumberedAt(j)'
      BY <1>1, <1>3, <1>4, <2>3 DEF PlacedAt, NumberedAt, Pending, Running
    <2> QED  BY <1>1, <1>2, <1>3, <1>4, <2>3, <2>4, ProducerMoves
             DEF Running, Finished, Failed, Failures
  <1>5. CASE ~(Running(j) /\ job[j].len < Roof)
    <2>1. job' = [job EXCEPT ![j].status = IF Running(j) THEN "overflow" ELSE @]
      BY <1>5 DEF AppendEvent, Accepts, HasRoom
    <2>2. /\ OneLog(j) /\ job'[j].len = job[j].len /\ job'[j].sent = job[j].sent
          /\ job'[j].status = (IF Running(j) THEN "overflow" ELSE job[j].status)
          /\ job'[j].attached = job[j].attached
      BY <1>2, <2>1 DEF OneLog, Job, Failures
    <2>3. PlacedAt(j)' /\ NumberedAt(j)'
      BY <1>1, <1>3, <2>2 DEF PlacedAt, NumberedAt, Pending, Running
    <2> QED  BY <1>1, <1>2, <1>3, <2>2, <2>3, ProducerMoves
             DEF Running, Finished, Failed, Failures
  <1> QED  BY <1>4, <1>5

LEMMA NoticeKeeps ==
  ASSUME JobInv, NEW j \in Jobs, Notice(j)
  PROVE  JobInv' /\ Frozen
  <1>1. /\ Typed /\ PlacedAt(j) /\ NumberedAt(j) /\ job[j].len \in Nat
        /\ prod[j].at \in {"read", "serve"} /\ current[j] # j
    BY JobFacts DEF Notice
  <1>2. /\ job \in [Jobs -> Job] /\ job' = [job EXCEPT ![j].attached = FALSE]
        /\ UNCHANGED <<conn, kept, stopped, current, got, whole>>
    BY <1>1 DEF Typed, Notice
  <1>3. /\ OneLog(j) /\ job'[j].len = job[j].len /\ job'[j].sent = job[j].sent
        /\ job'[j].status = job[j].status
    BY <1>2 DEF OneLog, Job
  <1>4. /\ OneProducer(j) /\ prod'[j].at \in {"loop", "finish"}
        /\ prod'[j].cursor = prod[j].cursor
    <2>1. PICK place \in {"loop", "finish"} : To(j, place)
      BY DEF Notice, AfterServe
    <2> QED  BY <1>1, <2>1, ToFacts DEF Places
  <1>5. PlacedAt(j)' /\ NumberedAt(j)'
    BY <1>1, <1>3, <1>4 DEF PlacedAt, NumberedAt, Pending
  <1> QED  BY <1>1, <1>2, <1>3, <1>4, <1>5, ProducerMoves DEF Running

LEMMA WriteHeadKeeps ==
  ASSUME JobInv, NEW j \in Jobs, WriteHead(j)
  PROVE  JobInv' /\ Frozen
  <1>1. /\ Typed /\ PlacedAt(j) /\ NumberedAt(j) /\ ReadAt(j) /\ job[j].len \in Nat
        /\ prod[j].at = "head" /\ (Running(j) => j \in kept) /\ j # None
    BY JobFacts DEF WriteHead
  <1>2. /\ job \in [Jobs -> Job] /\ current \in [Jobs -> Readable]
        /\ UNCHANGED <<conn, kept, stopped, got, whole>>
    BY <1>1 DEF Typed, WriteHead
  <1>3. CASE /\ Close(j, "shutdown") /\ End(j)
             /\ current' = [current EXCEPT ![j] = IF @ = j THEN None ELSE @]
    <2>1. /\ OneProducer(j) /\ prod'[j].at = "ended" /\ prod'[j].cursor = 0
          /\ OneLog(j) /\ job'[j].status = (IF Running(j) THEN "shutdown" ELSE job[j].status)
          /\ job'[j].len = job[j].len /\ job'[j].sent = job[j].sent
          /\ job'[j].attached = job[j].attached
      BY <1>1, <1>3, EndFacts, CloseFacts DEF Failures
    <2>2. PlacedAt(j)' /\ NumberedAt(j)'
      BY <1>1, <2>1 DEF PlacedAt, NumberedAt, Pending, Running
    <2>3. /\ current' \in [Jobs -> Readable] /\ current'[j] # j
          /\ current'[j] \in {None, current[j]}
          /\ \A i \in Jobs \ {j} : current'[i] = current[i]
      BY <1>1, <1>2, <1>3 DEF Readable
    <2>4. MovesOn(j)
      BY <1>1, <1>2, <2>1, <2>2, <2>3 DEF MovesOn, Running, Finished, Failed, Failures
    <2> QED  BY <1>2, <2>1, <2>3, <2>4, OneMoves DEF OneLog, OneProducer
  <1>4. ASSUME NEW ok \in BOOLEAN, job' = [job EXCEPT ![j].attached = ok], To(j, "loop"),
               current' = IF ok THEN current
                          ELSE [current EXCEPT ![j] = IF @ = j THEN None ELSE @]
        PROVE  JobInv' /\ Frozen
    <2>1. /\ OneLog(j) /\ job'[j].len = job[j].len /\ job'[j].sent = job[j].sent
          /\ job'[j].status = job[j].status /\ job'[j].attached = ok
      BY <1>2, <1>4 DEF OneLog, Job
    <2>2. OneProducer(j) /\ prod'[j].at = "loop" /\ prod'[j].cursor = prod[j].cursor
      BY <1>1, <1>4, ToFacts DEF Places
    <2>3. PlacedAt(j)' /\ NumberedAt(j)'
      BY <1>1, <2>1, <2>2 DEF PlacedAt, NumberedAt, Pending
    <2>4. /\ current' \in [Jobs -> Readable] /\ (ok \/ current'[j] # j)
          /\ current'[j] \in {None, current[j]}
          /\ \A i \in Jobs \ {j} : current'[i] = current[i]
      BY <1>1, <1>2, <1>4 DEF Readable
    <2>5. MovesOn(j)
      BY <1>1, <1>2, <2>1, <2>2, <2>3, <2>4 DEF MovesOn, Running
    <2> QED  BY <1>2, <2>1, <2>2, <2>4, <2>5, OneMoves DEF OneLog, OneProducer
  <1> QED  BY <1>3, <1>4 DEF WriteHead

LEMMA RefuseKeeps ==
  ASSUME JobInv, NEW j \in Jobs, Refuse(j)
  PROVE  JobInv' /\ Frozen
  <1>1. /\ Typed /\ PlacedAt(j) /\ NumberedAt(j) /\ ReadAt(j) /\ job[j].len \in Nat
        /\ prod[j].at = "asked" /\ (Running(j) => j \in kept)
    BY JobFacts DEF Refuse
  <1>2. /\ current \in [Jobs -> Readable] /\ End(j) /\ UNCHANGED job
        /\ current' = [current EXCEPT ![j] = None]
        /\ UNCHANGED <<conn, kept, stopped, got, whole>>
    BY <1>1 DEF Typed, Refuse
  <1>3. OneProducer(j) /\ prod'[j].at = "ended" /\ OneLog(j)
    BY <1>1, <1>2, EndFacts, SameLogs
  <1>4. PlacedAt(j)' /\ NumberedAt(j)'
    BY <1>1, <1>2, <1>3 DEF PlacedAt, NumberedAt, Pending
  <1>5. /\ current' \in [Jobs -> Readable] /\ current'[j] = None
        /\ \A i \in Jobs \ {j} : current'[i] = current[i]
    BY <1>2 DEF Readable
  <1>6. MovesOn(j)
    BY <1>1, <1>2, <1>4, <1>5 DEF MovesOn, Running
  <1> QED  BY <1>2, <1>3, <1>5, <1>6, OneMoves DEF OneLog, OneProducer

LEMMA DropKeeps ==
  ASSUME JobInv, NEW j \in Jobs, Drop(j)
  PROVE  JobInv' /\ Frozen
  <1>1. /\ Typed /\ PlacedAt(j) /\ NumberedAt(j) /\ ReadAt(j) /\ job[j].len \in Nat
        /\ (Running(j) => j \in kept)
    BY JobFacts
  <1>2. /\ current \in [Jobs -> Readable] /\ current' = [current EXCEPT ![j] = None]
        /\ job \in [Jobs -> Job] /\ prod \in [Jobs -> Producing]
        /\ UNCHANGED <<job, prod, conn, kept, stopped, got, whole>>
    BY <1>1 DEF Typed, Drop
  <1>3. PlacedAt(j)' /\ NumberedAt(j)'
    BY <1>1, <1>2 DEF PlacedAt, NumberedAt, Pending
  <1>4. /\ current' \in [Jobs -> Readable] /\ current'[j] = None
        /\ \A i \in Jobs \ {j} : current'[i] = current[i]
    BY <1>2 DEF Readable
  <1>5. MovesOn(j)
    BY <1>1, <1>2, <1>3, <1>4 DEF MovesOn, Running
  <1> QED  BY <1>2, <1>4, <1>5, OneMoves

(* A step that only forgets an answer or stops a device. *)
LEMMA ForgetKeeps ==
  ASSUME JobInv, UNCHANGED <<job, prod, conn, current, got, whole>>, Registered',
         stopped' \subseteq Devices, \A i \in Jobs : Running(i) => i \in kept'
  PROVE  JobInv' /\ Frozen
  <1>1. job' \in [Jobs -> Job] /\ prod' \in [Jobs -> Producing] /\ current' \in [Jobs -> Readable]
    BY InvParts DEF Typed
  <1>2. ASSUME NEW i \in Jobs
        PROVE  MovesOn(i)
    <2>1. /\ PlacedAt(i) /\ NumberedAt(i) /\ ReadAt(i) /\ job[i].len \in Nat
          /\ UNCHANGED <<job, prod, current>>
      BY <1>2, JobFacts
    <2>2. PlacedAt(i)' /\ NumberedAt(i)'
      BY <2>1 DEF PlacedAt, NumberedAt, Pending
    <2> QED  BY <1>2, <2>1, <2>2 DEF MovesOn, ReadAt, Running
  <1> QED  BY <1>1, <1>2, LogsMove

LEMMA ReapKeeps ==
  ASSUME JobInv, NEW j \in Jobs, Reap(j)
  PROVE  JobInv' /\ Frozen
  <1>1. Registered /\ Typed /\ RunningIsKept
    BY InvParts
  <1>2. /\ Finished(j) /\ kept' = kept \ {j} /\ UNCHANGED stopped
        /\ UNCHANGED <<job, prod, conn, current, got, whole>>
    BY DEF Reap
  <1>3. Registered'
    <2>1. IsFiniteSet(kept') /\ Cardinality(kept') <= Cardinality(kept)
      BY <1>1, <1>2, FS_Subset DEF Registered
    <2>2. Cardinality(kept) \in Nat /\ Cardinality(kept') \in Nat
      BY <1>1, <2>1, FS_CardinalityType DEF Registered
    <2> QED  BY <1>1, <1>2, <2>1, <2>2, JobsAssumption DEF Registered
  <1>4. \A i \in Jobs : Running(i) => i \in kept'
    BY <1>1, <1>2 DEF RunningIsKept, Running, Finished, Failed, Failures
  <1> QED  BY <1>1, <1>2, <1>3, <1>4, ForgetKeeps DEF Typed

LEMMA StopKeeps ==
  ASSUME JobInv, NEW d \in Devices, Stop(d)
  PROVE  JobInv' /\ Frozen
  <1>1. Registered /\ Typed /\ RunningIsKept
    BY InvParts
  <1>2. /\ UNCHANGED <<job, prod, conn, current, got, whole>> /\ UNCHANGED kept
        /\ stopped' = stopped \union {d}
    BY DEF Stop
  <1> QED  BY <1>1, <1>2, ForgetKeeps DEF Registered, Typed, RunningIsKept

-----------------------------------------------------------------------------
(* A completion is asked for.                                              *)

(* What supersedes an answer finds nobody who listens to it. *)
LEMMA SupersededUnfollowed ==
  ASSUME JobInv, NEW d \in Devices, NEW i \in Superseded(d)
  PROVE  current[i] = None \/ (current[i] \in Conns /\ conn[current[i]].at = "asked")
  <1>1. i \in Jobs /\ Running(i) /\ Readers(i) = {} /\ ~job[i].attached
    BY DEF Superseded
  <1>2. Typed /\ PlacedAt(i) /\ ReadAt(i)
    BY <1>1, JobFacts
  <1>3. current[i] # i
    BY <1>1, <1>2 DEF PlacedAt, ReadAt, Running
  <1>4. ASSUME NEW c \in Conns, current[i] = c
        PROVE  conn[c].at = "asked"
    <2>1. conn[c].at # "idle" /\ conn[c].job = i
      BY <1>2, <1>4 DEF ReadAt
    <2>2. conn[c] \in Resuming
      BY <1>2, <1>4 DEF Typed
    <2>3. conn[c].at \notin Counted
      BY <1>1, <1>4, <2>1 DEF Readers
    <2> QED  BY <2>1, <2>2, <2>3 DEF Counted, Resuming
  <1> QED  BY <1>2, <1>3, <1>4 DEF ReadAt

LEMMA AskKeeps ==
  ASSUME JobInv, NEW j \in Jobs, NEW d \in Devices, Ask(j, d)
  PROVE  JobInv' /\ Frozen
  <1> USE JobsAssumption
  <1>1. /\ Typed /\ PlacedAt(j) /\ job[j].len \in Nat /\ prod[j].at = "new"
        /\ Registered /\ RunningIsKept
    BY JobFacts, InvParts DEF Ask
  <1>2. /\ job \in [Jobs -> Job] /\ current \in [Jobs -> Readable]
        /\ current' = [current EXCEPT ![j] = j]
        /\ UNCHANGED <<conn, kept, stopped, got, whole>>
    BY <1>1 DEF Typed, Ask
  <1>3. OneProducer(j) /\ prod'[j].at = "asked" /\ prod'[j].cursor = prod[j].cursor
    BY <1>1, ToFacts DEF Ask, Places
  <1>4. /\ JobOf(d) \in Job /\ JobOf(d).status = "none" /\ JobOf(d).len = 0
        /\ JobOf(d).sent = 0
    BY DEF JobOf, Job
  <1>5. ASSUME NEW i \in Jobs
        PROVE  /\ i = j => job'[i] = JobOf(d)
               /\ i # j /\ i \in Superseded(d) =>
                    job'[i] = [job[i] EXCEPT !.status = "abandoned"]
               /\ i # j /\ i \notin Superseded(d) => job'[i] = job[i]
    BY DEF Ask
  <1>6. ASSUME NEW i \in Jobs
        PROVE  [job[i] EXCEPT !.status = "abandoned"] \in Job
    BY <1>2 DEF Job, Failures
  <1>7. job' \in [Jobs -> Job]
    <2>1. \A i \in Jobs : job'[i] \in Job
      BY <1>2, <1>4, <1>5, <1>6
    <2>2. job' = [i \in Jobs |-> job'[i]]
      BY DEF Ask
    <2> QED  BY <2>1, <2>2
  <1>8. /\ current' \in [Jobs -> Readable] /\ current'[j] = j
        /\ \A i \in Jobs \ {j} : current'[i] = current[i]
    BY <1>2 DEF Readable
  <1>9. MovesOn(j)
    <2>1. job'[j] = JobOf(d)
      BY <1>5
    <2>2. job[j].status = "none" /\ job[j].len = 0 /\ job[j].sent = 0 /\ prod[j].cursor = 0
      BY <1>1 DEF PlacedAt
    <2>3. PlacedAt(j)' /\ NumberedAt(j)'
      BY <1>3, <1>4, <2>1, <2>2 DEF PlacedAt, NumberedAt
    <2> QED  BY <1>1, <1>3, <1>4, <1>8, <2>1, <2>2, <2>3
             DEF MovesOn, Running, Finished, Failed, Failures
  <1>10. ASSUME NEW i \in Jobs, i # j
         PROVE  MovesOn(i)
    <2>1. /\ PlacedAt(i) /\ NumberedAt(i) /\ ReadAt(i) /\ job[i].len \in Nat
          /\ (Running(i) => i \in kept) /\ job[i] \in Job
      BY <1>10, JobFacts
    <2>2. prod'[i] = prod[i] /\ current'[i] = current[i] /\ kept' = kept
      BY <1>2, <1>3, <1>8, <1>10 DEF OneProducer
    <2>3. CASE i \in Superseded(d)
      <3>1. job'[i] = [job[i] EXCEPT !.status = "abandoned"] /\ Running(i)
        BY <1>5, <1>10, <2>3 DEF Superseded
      <3>2. /\ job'[i].status = "abandoned" /\ job'[i].len = job[i].len
            /\ job'[i].attached = job[i].attached
        BY <2>1, <3>1 DEF Job
      <3>3. PlacedAt(i)' /\ NumberedAt(i)'
        BY <2>1, <2>2, <3>1, <3>2 DEF PlacedAt, NumberedAt, Running
      <3> QED  BY <2>1, <2>2, <3>1, <3>2, <3>3
               DEF MovesOn, ReadAt, Running, Finished, Failed, Failures
    <2>4. CASE i \notin Superseded(d)
      <3>1. job'[i] = job[i]
        BY <1>5, <1>10, <2>4
      <3>2. PlacedAt(i)' /\ NumberedAt(i)'
        BY <2>1, <2>2, <3>1 DEF PlacedAt, NumberedAt, Pending
      <3> QED  BY <2>1, <2>2, <3>1, <3>2 DEF MovesOn, ReadAt, Running
    <2> QED  BY <2>3, <2>4
  <1>11. \A i \in Jobs : MovesOn(i)
    BY <1>9, <1>10
  <1>12. prod' \in [Jobs -> Producing] /\ Registered' /\ stopped' \subseteq Devices
    BY <1>1, <1>2, <1>3 DEF OneProducer, Registered, Typed
  <1> QED  BY <1>2, <1>7, <1>8, <1>11, <1>12, LogsMove

LEMMA StartKeeps ==
  ASSUME JobInv, NEW j \in Jobs, Start(j)
  PROVE  JobInv' /\ Frozen
  <1> USE JobsAssumption
  <1>1. /\ Typed /\ PlacedAt(j) /\ job[j].len \in Nat /\ prod[j].at = "asked"
        /\ Registered /\ RunningIsKept /\ ReadAt(j)
    BY JobFacts, InvParts DEF Start
  <1>2. /\ job \in [Jobs -> Job] /\ current' \in [Jobs -> Readable]
        /\ UNCHANGED <<conn, stopped, current, got, whole>>
    BY <1>1 DEF Typed, Start
  <1>3. PICK out \in SUBSET {k \in kept : Finished(k)} :
          /\ out # {} <=> Cardinality(kept) >= MaxJobs
          /\ kept' = (kept \ out) \union {j}
    BY DEF Start
  <1>4. Registered'
    <2>1. /\ IsFiniteSet(kept \ out) /\ Cardinality(kept \ out) <= Cardinality(kept)
          /\ (Cardinality(kept \ out) = Cardinality(kept) <=> kept \ out = kept)
      BY <1>1, FS_Subset DEF Registered
    <2>2. Cardinality(kept) \in Nat /\ Cardinality(kept \ out) \in Nat
      BY <1>1, <2>1, FS_CardinalityType DEF Registered
    <2>3. Cardinality(kept \ out) <= MaxJobs - 1
      <3>1. CASE out = {}
        BY <1>1, <1>3, <2>1, <2>2, <3>1 DEF Registered
      <3>2. CASE out # {}
        <4>1. kept \ out # kept
          BY <1>3, <3>2
        <4> QED  BY <1>1, <2>1, <2>2, <4>1 DEF Registered
      <3> QED  BY <3>1, <3>2
    <2>4. /\ IsFiniteSet((kept \ out) \union {j})
          /\ Cardinality((kept \ out) \union {j}) = Cardinality(kept \ out)
             \/ Cardinality((kept \ out) \union {j}) = Cardinality(kept \ out) + 1
      BY <2>1, FS_AddElement
    <2> QED  BY <1>1, <1>3, <2>2, <2>3, <2>4 DEF Registered
  <1>5. OneProducer(j) /\ prod'[j].at = "head" /\ prod'[j].cursor = prod[j].cursor
    BY <1>1, ToFacts DEF Start, Places
  <1>6. /\ OneLog(j) /\ job'[j].status = "running" /\ job'[j].attached
        /\ job'[j].len = job[j].len /\ job'[j].sent = job[j].sent
    <2>1. job' = [job EXCEPT ![j].status = "running", ![j].attached = TRUE]
      BY DEF Start
    <2>2. job'[j] = [job[j] EXCEPT !.status = "running", !.attached = TRUE]
      BY <1>2, <2>1
    <2>3. job[j] \in Job
      BY <1>2
    <2>4. /\ job'[j] \in Job /\ job'[j].status = "running" /\ job'[j].attached
          /\ job'[j].len = job[j].len /\ job'[j].sent = job[j].sent
      BY <2>2, <2>3 DEF Job
    <2> QED  BY <1>2, <2>1, <2>4 DEF OneLog
  <1>7. MovesOn(j)
    <2>1. PlacedAt(j)' /\ NumberedAt(j)'
      BY <1>1, <1>5, <1>6 DEF PlacedAt, NumberedAt, Pending
    <2> QED  BY <1>1, <1>2, <1>3, <1>5, <1>6, <2>1
             DEF MovesOn, PlacedAt, Running, Finished, Failed, Failures
  <1>8. ASSUME NEW i \in Jobs, i # j
        PROVE  MovesOn(i)
    <2>1. /\ PlacedAt(i) /\ NumberedAt(i) /\ ReadAt(i) /\ job[i].len \in Nat
          /\ (Running(i) => i \in kept)
      BY <1>8, JobFacts
    <2>2. prod'[i] = prod[i] /\ current' = current /\ job'[i] = job[i]
      BY <1>2, <1>5, <1>6, <1>8 DEF OneProducer, OneLog
    <2>3. PlacedAt(i)' /\ NumberedAt(i)'
      BY <2>1, <2>2 DEF PlacedAt, NumberedAt, Pending
    <2>4. Running(i) => i \in kept'
      BY <1>3, <2>1 DEF Running, Finished, Failed, Failures
    <2> QED  BY <2>1, <2>2, <2>3, <2>4 DEF MovesOn, ReadAt, Running
  <1>9. \A i \in Jobs : MovesOn(i)
    BY <1>7, <1>8
  <1> QED  BY <1>1, <1>2, <1>4, <1>5, <1>6, <1>9, LogsMove DEF OneLog, OneProducer, Typed

-----------------------------------------------------------------------------
(* Steps that write to a client.                                           *)

\* what a client received, from the first event on
Numbered(s) == \A i \in 1 .. Len(s) : s[i] = i - 1

(* Events that follow the last one received leave no hole. *)
LEMMA Extends ==
  ASSUME NEW s \in Seq(0 .. Roof - 1), Numbered(s), NEW k \in Len(s) .. Roof
  PROVE  LET t == s \o [i \in 1 .. k - Len(s) |-> Len(s) + i - 1]
         IN  t \in Seq(0 .. Roof - 1) /\ Len(t) = k /\ Numbered(t)
  <1> USE JobsAssumption
  <1> DEFINE n == Len(s)
             more == [i \in 1 .. k - n |-> n + i - 1]
             t == s \o more
  <1>1. n \in Nat /\ k \in Nat /\ n <= k /\ k <= Roof
    BY LenProperties
  <1>2. more \in Seq(0 .. Roof - 1) /\ Len(more) = k - n /\ \A i \in 1 .. k - n : more[i] = n + i - 1
    <2> HIDE DEF n
    <2>1. k - n \in Nat /\ \A i \in 1 .. k - n : n + i - 1 \in 0 .. Roof - 1
      BY <1>1
    <2> QED  BY <1>1, <2>1
  <1> HIDE DEF more
  <1>3. /\ t \in Seq(0 .. Roof - 1) /\ Len(t) = n + (k - n)
        /\ \A i \in 1 .. n + (k - n) : t[i] = IF i <= n THEN s[i] ELSE more[i - n]
    BY <1>1, <1>2, ConcatProperties
  <1> HIDE DEF t
  <1>4. \A i \in 1 .. k : t[i] = i - 1
    <2>1. TAKE i \in 1 .. k
    <2>2. CASE i <= n
      <3>1. t[i] = s[i] /\ i \in 1 .. Len(s)
        BY <1>1, <1>3, <2>2
      <3> QED  BY <3>1 DEF Numbered
    <2>3. CASE i > n
      <3>1. i - n \in 1 .. k - n
        BY <1>1, <2>3
      <3>2. t[i] = more[i - n]
        BY <1>1, <1>3, <2>3
      <3>3. more[i - n] = n + (i - n) - 1
        BY <1>2, <3>1
      <3> HIDE DEF n
      <3> QED  BY <1>1, <3>2, <3>3
    <2> QED  BY <1>1, <2>2, <2>3
  <1>5. Len(t) = k /\ Numbered(t)
    BY <1>1, <1>3, <1>4 DEF Numbered
  <1> QED  BY <1>3, <1>5 DEF t, more

OneCurrent(j) ==
  current' \in [Jobs -> Readable] /\ \A i \in Jobs \ {j} : current'[i] = current[i]
OneReceives(j) ==
  got' \in [Jobs -> Seq(0 .. Roof - 1)] /\ \A i \in Jobs \ {j} : got'[i] = got[i]

(* A step of one job that writes to its client and leaves the log alone. *)
LEMMA OneDelivers ==
  ASSUME JobInv, NEW j \in Jobs, OneLog(j), OneProducer(j), OneCurrent(j), OneReceives(j),
         UNCHANGED <<conn, kept, stopped>>, whole' \in {whole, whole \union {j}},
         job'[j].len = job[j].len, job'[j].status = job[j].status,
         PlacedAt(j)', NumberedAt(j)', ReadAt(j)', WholeAt(j)', Numbered(got'[j])
  PROVE  JobInv' /\ Frozen
  <1>1. /\ Typed /\ Registered /\ InOrder /\ RunningIsKept
        /\ \A i \in Jobs : PlacedAt(i) /\ NumberedAt(i) /\ ReadAt(i) /\ WholeAt(i)
        /\ \A c \in Conns : BehindAt(c)
    BY InvParts
  <1>2. Typed' /\ Registered'
    BY <1>1 DEF Typed, Registered, OneLog, OneProducer, OneCurrent, OneReceives
  <1>3. InOrder'
    BY <1>1 DEF InOrder, Numbered, OneReceives
  <1>4. \A i \in Jobs : job'[i].len = job[i].len /\ job'[i].status = job[i].status
    BY DEF OneLog
  <1>5. RunningIsKept' /\ Frozen
    BY <1>1, <1>4 DEF RunningIsKept, Running, Frozen
  <1>6. ASSUME NEW i \in Jobs
        PROVE  PlacedAt(i)' /\ NumberedAt(i)' /\ ReadAt(i)' /\ WholeAt(i)'
    <2>1. CASE i # j
      <3>1. /\ job'[i] = job[i] /\ prod'[i] = prod[i] /\ current'[i] = current[i]
            /\ got'[i] = got[i] /\ conn' = conn /\ (i \in whole' <=> i \in whole)
        BY <1>6, <2>1 DEF OneLog, OneProducer, OneCurrent, OneReceives
      <3>2. PlacedAt(i) /\ NumberedAt(i) /\ ReadAt(i) /\ WholeAt(i)
        BY <1>1, <1>6
      <3>3. PlacedAt(i)' /\ NumberedAt(i)'
        BY <3>1, <3>2 DEF PlacedAt, NumberedAt, Pending
      <3> QED  BY <3>1, <3>2, <3>3 DEF ReadAt, Seen, WholeAt
    <2> QED  BY <2>1
  <1>7. \A c \in Conns : BehindAt(c)'
    BY <1>1, <1>4 DEF BehindAt, Seen
  <1> QED  BY <1>2, <1>3, <1>5, <1>6, <1>7
           DEF JobInv, TypeOK, Typed, Registered, Readable

(* A write that leaves its client where it says it does. *)
LEMMA WriteFacts ==
  ASSUME JobInv, NEW j \in Jobs, NEW x \in Jobs \union Conns, NEW ok \in BOOLEAN,
         Write(j, x, Len(got[j]), ok)
  PROVE  /\ OneCurrent(j) /\ OneReceives(j) /\ Numbered(got'[j])
         /\ current'[j] = IF ok THEN current[j] ELSE None
         /\ Len(got'[j]) <= job[j].len
         /\ current[j] = x /\ ok => Len(got'[j]) = job[j].len
         /\ current[j] = x \/ got'[j] = got[j]
         /\ j \in whole => got'[j] = got[j]
  <1>1. /\ Typed /\ InOrder /\ ReadAt(j) /\ WholeAt(j) /\ job[j] \in Job
    BY JobFacts, InvParts
  <1>2. /\ current \in [Jobs -> Readable] /\ got \in [Jobs -> Seq(0 .. Roof - 1)]
        /\ Numbered(got[j]) /\ job[j].len \in 0 .. Roof /\ Len(got[j]) \in Nat
    BY <1>1 DEF Typed, InOrder, Numbered, Job
  <1>3. CASE current[j] # x
    BY <1>1, <1>2, <1>3 DEF Write, OneCurrent, OneReceives, ReadAt
  <1>4. CASE current[j] = x
    <2>1. PICK k \in Len(got[j]) .. job[j].len :
            /\ got' = [got EXCEPT ![j] = @ \o [i \in 1 .. k - Len(got[j]) |-> Len(got[j]) + i - 1]]
            /\ ok = (k = job[j].len)
            /\ current' = IF ok THEN current ELSE [current EXCEPT ![j] = None]
      BY <1>4 DEF Write
    <2>2. k \in Len(got[j]) .. Roof
      BY <1>2, <2>1, JobsAssumption
    <2> DEFINE t == got[j] \o [i \in 1 .. k - Len(got[j]) |-> Len(got[j]) + i - 1]
    <2>3. t \in Seq(0 .. Roof - 1) /\ Len(t) = k /\ Numbered(t)
      BY <1>2, <2>2, Extends
    <2>4. got' = [got EXCEPT ![j] = t]
      BY <2>1
    <2> HIDE DEF t
    <2>5. OneReceives(j) /\ got'[j] = t
      BY <1>2, <2>3, <2>4 DEF OneReceives
    <2>6. OneCurrent(j) /\ current'[j] = IF ok THEN current[j] ELSE None
      BY <1>2, <2>1 DEF OneCurrent, Readable
    <2>7. j \in whole => got'[j] = got[j]
      <3>1. ASSUME j \in whole
            PROVE  k = Len(got[j])
        BY <1>1, <1>2, <2>1, <3>1 DEF WholeAt
      <3>2. ASSUME k = Len(got[j])
            PROVE  t = got[j]
        <4>1. /\ Len(t) = Len(got[j]) /\ got[j] \in Seq(0 .. Roof - 1)
              /\ \A i \in 1 .. Len(got[j]) : t[i] = got[j][i]
          BY <1>2, <2>3, <3>2 DEF Numbered
        <4> QED  BY <2>3, <4>1, SeqEqual
      <3> QED  BY <2>5, <3>1, <3>2
    <2>8. ok <=> k = job[j].len
      BY <2>1
    <2>9. Len(got'[j]) = k /\ Numbered(got'[j])
      BY <2>3, <2>5
    <2>10. k <= job[j].len
      BY <1>2, <2>1
    <2> QED  BY <1>4, <2>5, <2>6, <2>7, <2>8, <2>9, <2>10
  <1> QED  BY <1>3, <1>4

LEMMA ServeKeeps ==
  ASSUME JobInv, NEW j \in Jobs, Serve(j)
  PROVE  JobInv' /\ Frozen
  <1>1. /\ Typed /\ PlacedAt(j) /\ NumberedAt(j) /\ ReadAt(j) /\ WholeAt(j)
        /\ job[j] \in Job /\ job[j].attached \in BOOLEAN /\ job[j].len \in Nat
        /\ prod[j] \in Producing /\ prod[j].at = "serve" /\ j # None /\ j \notin Conns
        /\ InOrder
    BY JobFacts, InvParts DEF Serve
  <1>2. /\ job \in [Jobs -> Job] /\ prod \in [Jobs -> Producing]
        /\ current \in [Jobs -> Readable] /\ got \in [Jobs -> Seq(0 .. Roof - 1)]
        /\ job[j].len \in 0 .. Roof
        /\ UNCHANGED <<conn, kept, stopped, whole>>
    BY <1>1 DEF Typed, Serve, Job
  <1>3. PICK ok \in BOOLEAN :
          /\ IF job[j].attached THEN Write(j, j, prod[j].cursor, ok)
                                ELSE ok /\ UNCHANGED <<got, current>>
          /\ job' = [job EXCEPT ![j].attached = @ /\ ok]
          /\ prod' = [prod EXCEPT ![j].at = AfterServe(j),
                                  ![j].cursor = IF job[j].attached THEN job[j].len ELSE @]
    BY DEF Serve
  <1>4. /\ OneLog(j) /\ job'[j].len = job[j].len /\ job'[j].status = job[j].status
        /\ job'[j].sent = job[j].sent /\ (job'[j].attached <=> job[j].attached /\ ok)
    BY <1>1, <1>2, <1>3 DEF OneLog, Job
  <1>5. /\ OneProducer(j) /\ prod'[j].at \in {"loop", "finish"}
        /\ prod'[j].cursor = IF job[j].attached THEN job[j].len ELSE prod[j].cursor
    <2>1. AfterServe(j) \in {"loop", "finish"}
      BY DEF AfterServe
    <2>2. (IF job[j].attached THEN job[j].len ELSE prod[j].cursor) \in 0 .. Roof
      BY <1>1, <1>2 DEF Producing
    <2>3. prod'[j] = [prod[j] EXCEPT !.at = AfterServe(j),
                                     !.cursor = IF job[j].attached THEN job[j].len ELSE @]
      BY <1>2, <1>3
    <2>4. /\ prod'[j] \in Producing /\ prod'[j].at = AfterServe(j)
          /\ prod'[j].cursor = IF job[j].attached THEN job[j].len ELSE prod[j].cursor
      BY <1>1, <2>1, <2>2, <2>3 DEF Producing
    <2> QED  BY <1>2, <1>3, <2>1, <2>4 DEF OneProducer
  <1>6. PlacedAt(j)' /\ NumberedAt(j)'
    BY <1>1, <1>4, <1>5 DEF PlacedAt, NumberedAt, Pending
  <1>7. CASE ~job[j].attached
    <2>1. UNCHANGED <<got, current>> /\ current[j] # j
      BY <1>1, <1>3, <1>7 DEF ReadAt
    <2>2. OneCurrent(j) /\ OneReceives(j) /\ Numbered(got'[j])
      BY <1>1, <1>2, <2>1 DEF OneCurrent, OneReceives, InOrder, Numbered
    <2>3. ReadAt(j)' /\ WholeAt(j)'
      BY <1>1, <1>2, <1>4, <2>1 DEF ReadAt, Seen, WholeAt
    <2> QED  BY <1>2, <1>4, <1>5, <1>6, <2>2, <2>3, OneDelivers
  <1>8. CASE job[j].attached
    <2>1. Write(j, j, Len(got[j]), ok)
      <3>1. CASE current[j] = j
        BY <1>1, <1>3, <1>8, <3>1 DEF ReadAt
      <3>2. CASE current[j] # j
        BY <1>3, <1>8, <3>2 DEF Write
      <3> QED  BY <3>1, <3>2
    <2>2. /\ OneCurrent(j) /\ OneReceives(j) /\ Numbered(got'[j])
          /\ current'[j] = (IF ok THEN current[j] ELSE None)
          /\ Len(got'[j]) <= job[j].len
          /\ (current[j] = j /\ ok => Len(got'[j]) = job[j].len)
          /\ (current[j] = j \/ got'[j] = got[j])
          /\ (j \in whole => got'[j] = got[j])
      BY <2>1, WriteFacts
    <2>3. WholeAt(j)'
      BY <1>1, <1>2, <1>4, <2>2 DEF WholeAt
    <2>4. ReadAt(j)'
      BY <1>1, <1>2, <1>4, <1>5, <1>8, <2>2, JobsAssumption DEF ReadAt, Seen
    <2> QED  BY <1>2, <1>4, <1>5, <1>6, <2>2, <2>3, <2>4, OneDelivers
  <1> QED  BY <1>7, <1>8

LEMMA DrainKeeps ==
  ASSUME JobInv, NEW j \in Jobs, Drain(j)
  PROVE  JobInv' /\ Frozen
  <1>1. /\ Typed /\ PlacedAt(j) /\ NumberedAt(j) /\ ReadAt(j) /\ WholeAt(j)
        /\ job[j] \in Job /\ job[j].len \in Nat /\ j # None /\ j \notin Conns
        /\ prod[j].at = "drain" /\ InOrder
    BY JobFacts, InvParts DEF Drain
  <1>2. /\ current \in [Jobs -> Readable] /\ got \in [Jobs -> Seq(0 .. Roof - 1)]
        /\ job[j].len \in 0 .. Roof /\ Len(got[j]) \in Nat /\ Numbered(got[j])
        /\ UNCHANGED <<job, conn, kept, stopped>>
        /\ current' = [current EXCEPT ![j] = IF @ = j THEN None ELSE @]
    BY <1>1 DEF Typed, Drain, Job, InOrder, Numbered
  <1>3. OneProducer(j) /\ prod'[j].at = "ended" /\ prod'[j].cursor = 0 /\ OneLog(j)
    BY <1>1, <1>2, EndFacts, SameLogs DEF Drain
  <1>4. PlacedAt(j)' /\ NumberedAt(j)'
    BY <1>1, <1>2, <1>3 DEF PlacedAt, NumberedAt, Pending
  <1>5. OneCurrent(j) /\ current'[j] # j /\ current'[j] \in {None, current[j]}
    BY <1>1, <1>2 DEF OneCurrent, Readable
  <1> DEFINE mine == job[j].attached /\ current[j] = j
  <1>6. PICK k \in prod[j].cursor .. job[j].len :
          /\ ~mine => k = job[j].len
          /\ got' = IF mine THEN [got EXCEPT ![j] = @ \o [i \in 1 .. k - prod[j].cursor |->
                                                             prod[j].cursor + i - 1]]
                    ELSE got
          /\ whole' = IF mine /\ k = job[j].len /\ job[j].status = "done"
                        THEN whole \union {j} ELSE whole
    BY DEF Drain
  <1>7. CASE ~mine
    <2>1. UNCHANGED <<got, whole>>
      BY <1>6, <1>7
    <2>2. OneReceives(j) /\ Numbered(got'[j])
      BY <1>2, <2>1 DEF OneReceives
    <2>3. ReadAt(j)' /\ WholeAt(j)'
      BY <1>1, <1>2, <1>5, <2>1, JobsAssumption DEF ReadAt, Seen, WholeAt
    <2> QED  BY <1>2, <1>3, <1>4, <1>5, <2>1, <2>2, <2>3, OneDelivers
  <1>8. CASE mine
    <2>1. prod[j].cursor = Len(got[j])
      BY <1>1, <1>8 DEF ReadAt
    <2> DEFINE t == got[j] \o [i \in 1 .. k - Len(got[j]) |-> Len(got[j]) + i - 1]
    <2>2. k \in Len(got[j]) .. Roof /\ k <= job[j].len
      BY <1>2, <1>6, <2>1, JobsAssumption
    <2>3. t \in Seq(0 .. Roof - 1) /\ Len(t) = k /\ Numbered(t)
      BY <1>2, <2>2, Extends
    <2>4. got' = [got EXCEPT ![j] = t]
      BY <1>6, <1>8, <2>1
    <2> HIDE DEF t
    <2>5. OneReceives(j) /\ got'[j] = t
      BY <1>2, <2>3, <2>4 DEF OneReceives
    <2>6. WholeAt(j)'
      <3>1. CASE j \in whole
        <4>1. job[j].status = "done" /\ Len(got[j]) = job[j].len
          BY <1>1, <3>1 DEF WholeAt
        <4>2. Len(got'[j]) = job[j].len
          BY <1>1, <1>2, <2>2, <2>3, <2>5, <4>1
        <4> QED  BY <1>2, <4>1, <4>2 DEF WholeAt
      <3>2. CASE j \notin whole
        BY <1>2, <1>6, <2>3, <2>5, <3>2 DEF WholeAt
      <3> QED  BY <3>1, <3>2
    <2>7. ReadAt(j)'
      BY <1>1, <1>2, <1>5, <1>8, <2>2, <2>3, <2>5, JobsAssumption DEF ReadAt, Seen
    <2>8. whole' \in {whole, whole \union {j}} /\ Numbered(got'[j])
      BY <1>6, <2>3, <2>5
    <2> QED  BY <1>2, <1>3, <1>4, <1>5, <2>5, <2>6, <2>7, <2>8, OneDelivers
  <1> QED  BY <1>7, <1>8

-----------------------------------------------------------------------------
(* The client that comes back.                                             *)

OneConn(c) == conn' \in [Conns -> Resuming] /\ \A x \in Conns \ {c} : conn'[x] = conn[x]

(* A step of one connection. *)
LEMMA ConnMoves ==
  ASSUME JobInv, NEW c \in Conns, OneConn(c), UNCHANGED <<job, prod, kept, stopped>>,
         current' \in [Jobs -> Readable], got' \in [Jobs -> Seq(0 .. Roof - 1)],
         whole' \subseteq Jobs, BehindAt(c)',
         \A i \in Jobs : ReadAt(i)' /\ WholeAt(i)' /\ Numbered(got'[i])
  PROVE  JobInv' /\ Frozen
  <1>1. /\ Typed /\ Registered /\ RunningIsKept
        /\ \A i \in Jobs : PlacedAt(i) /\ NumberedAt(i)
        /\ \A x \in Conns : BehindAt(x)
    BY InvParts
  <1>2. Typed' /\ Registered' /\ InOrder'
    BY <1>1 DEF Typed, Registered, OneConn, InOrder, Numbered
  <1>3. RunningIsKept' /\ Frozen
    BY <1>1 DEF RunningIsKept, Running, Frozen
  <1>4. \A i \in Jobs : PlacedAt(i)' /\ NumberedAt(i)'
    BY <1>1 DEF PlacedAt, NumberedAt, Pending
  <1>5. ASSUME NEW x \in Conns
        PROVE  BehindAt(x)'
    <2>1. CASE x # c
      BY <1>1, <1>5, <2>1 DEF BehindAt, Seen, OneConn
    <2> QED  BY <2>1
  <1> QED  BY <1>2, <1>3, <1>4, <1>5 DEF JobInv, TypeOK, Typed, Registered, Readable

(* A connection that goes on where it stands, or ends with its client told so. *)
LEMMA ConnRests ==
  ASSUME JobInv, NEW c \in Conns, OneConn(c), UNCHANGED <<job, prod, kept, stopped, got>>,
         current' \in [Jobs -> Readable], \A i \in Jobs : current'[i] \in {None, current[i]},
         \/ conn'[c] = NoConn /\ \A i \in Jobs : current'[i] # c
         \/ /\ conn[c].at # "idle" /\ conn'[c].at # "idle" /\ conn'[c].job = conn[c].job
            /\ Seen(c)' = Seen(c),
         whole' \subseteq Jobs, \A i \in Jobs : WholeAt(i)'
  PROVE  JobInv' /\ Frozen
  <1>1. /\ Typed /\ InOrder
        /\ \A i \in Jobs : ReadAt(i)
        /\ \A x \in Conns : BehindAt(x)
    BY InvParts
  <1>2. got' \in [Jobs -> Seq(0 .. Roof - 1)] /\ \A i \in Jobs : Numbered(got'[i])
    BY <1>1 DEF Typed, InOrder, Numbered
  <1>3. BehindAt(c)'
    BY <1>1 DEF BehindAt, NoConn
  <1>4. ASSUME NEW i \in Jobs
        PROVE  ReadAt(i)'
    <2>1. ReadAt(i) /\ current'[i] \in {None, current[i]} /\ None \notin Conns /\ i # None
      BY <1>1, <1>4, JobsAssumption
    <2>2. ASSUME NEW x \in Conns, current'[i] = x
          PROVE  conn'[x].at # "idle" /\ conn'[x].job = i /\ Seen(x)' = Len(got'[i])
      <3>1. current[i] = x
        BY <2>1, <2>2
      <3>2. conn[x].at # "idle" /\ conn[x].job = i /\ Seen(x) = Len(got[i])
        BY <2>1, <3>1 DEF ReadAt
      <3>3. CASE x = c
        BY <1>4, <2>2, <3>2, <3>3
      <3>4. CASE x # c
        BY <3>2, <3>4 DEF OneConn, Seen
      <3> QED  BY <3>3, <3>4
    <2> QED  BY <2>1, <2>2 DEF ReadAt
  <1> QED  BY <1>2, <1>3, <1>4, ConnMoves

LEMMA ConnFacts ==
  ASSUME JobInv, NEW c \in Conns, conn[c].at # "idle"
  PROVE  /\ Typed /\ BehindAt(c) /\ conn[c] \in Resuming
         /\ conn[c].job \in Jobs /\ conn[c].cursor \in Nat
         /\ job[conn[c].job] \in Job /\ job[conn[c].job].len \in 0 .. Roof
         /\ Seen(c) \in 0 .. Roof /\ Seen(c) <= job[conn[c].job].len
         /\ \A i \in Jobs : current[i] = c => i = conn[c].job /\ Seen(c) = Len(got[i])
  <1>1. /\ Typed
        /\ \A i \in Jobs : ReadAt(i)
        /\ \A x \in Conns : BehindAt(x)
    BY InvParts
  <1>2. conn[c] \in Resuming /\ conn[c].job \in Jobs /\ Seen(c) <= job[conn[c].job].len
    BY <1>1 DEF Typed, BehindAt
  <1>3. conn[c].cursor \in Nat
    BY <1>2, JobsAssumption DEF Resuming
  <1>4. job[conn[c].job] \in Job
    BY <1>1, <1>2 DEF Typed
  <1>5. job[conn[c].job].len \in 0 .. Roof
    BY <1>4 DEF Job
  <1>6. Seen(c) \in Nat
    BY <1>3 DEF Seen
  <1>7. \A i \in Jobs : current[i] = c => i = conn[c].job /\ Seen(c) = Len(got[i])
    BY <1>1 DEF ReadAt
  <1> QED  BY <1>1, <1>2, <1>3, <1>4, <1>5, <1>6, <1>7, JobsAssumption

LEMMA EndsFacts ==
  ASSUME Typed, NEW c \in Conns, Ends(c)
  PROVE  OneConn(c) /\ conn'[c] = NoConn
  <1>1. NoConn \in Resuming
    BY JobsAssumption DEF NoConn, Resuming
  <1> QED  BY <1>1 DEF Typed, Ends, OneConn

LEMMA HangsFacts ==
  ASSUME Typed, NEW c \in Conns, Hangs(c)
  PROVE  /\ current' \in [Jobs -> Readable]
         /\ \A i \in Jobs : current'[i] \in {None, current[i]} /\ current'[i] # c
  BY JobsAssumption DEF Typed, Hangs, Readable

(* An end that the client is told, whatever whole becomes. *)
LEMMA EndKeeps ==
  ASSUME JobInv, NEW c \in Conns, Ends(c), Hangs(c), UNCHANGED <<job, prod, kept, stopped, got>>,
         whole' \subseteq Jobs, \A i \in Jobs : WholeAt(i)'
  PROVE  JobInv' /\ Frozen
  <1>1. Typed
    BY InvParts
  <1> QED  BY <1>1, EndsFacts, HangsFacts, ConnRests

LEMMA WholeStays ==
  ASSUME JobInv, UNCHANGED <<job, got, whole>>
  PROVE  whole' \subseteq Jobs /\ \A i \in Jobs : WholeAt(i)'
  BY InvParts DEF Typed, WholeAt

LEMMA ResumeKeeps ==
  ASSUME JobInv, NEW c \in Conns, NEW j \in Jobs, Resume(c, j)
  PROVE  JobInv' /\ Frozen
  <1> USE JobsAssumption
  <1>1. /\ Typed /\ InOrder /\ job[j] \in Job
        /\ \A i \in Jobs : ReadAt(i)
    BY JobFacts, InvParts
  <1>2. /\ conn \in [Conns -> Resuming] /\ current \in [Jobs -> Readable]
        /\ got \in [Jobs -> Seq(0 .. Roof - 1)] /\ job[j].len \in 0 .. Roof
        /\ got[j] \in Seq(0 .. Roof - 1) /\ Len(got[j]) \in Nat /\ Len(got[j]) <= job[j].len
        /\ \A i \in Jobs : Numbered(got[i])
    BY <1>1 DEF Typed, Job, InOrder, Numbered, ReadAt
  <1>3. /\ conn[c].at = "idle" /\ got[j] # <<>>
        /\ current' = [current EXCEPT ![j] = c]
        /\ conn' = [conn EXCEPT ![c] = [at |-> "asked", job |-> j, cursor |-> Last(got[j])]]
        /\ UNCHANGED <<job, prod, kept, stopped, got, whole>>
    BY DEF Resume
  <1>4. Last(got[j]) = Len(got[j]) - 1 /\ Len(got[j]) > 0
    <2>1. Len(got[j]) # 0
      BY <1>2, <1>3, EmptySeq
    <2> QED  BY <1>2, <2>1 DEF Last, Numbered
  <1>5. /\ OneConn(c) /\ conn'[c].at = "asked" /\ conn'[c].job = j
        /\ conn'[c].cursor = Len(got[j]) - 1
    <2>1. [at |-> "asked", job |-> j, cursor |-> Last(got[j])] \in Resuming
      BY <1>2, <1>4 DEF Resuming
    <2> QED  BY <1>2, <1>3, <1>4, <2>1 DEF OneConn
  <1>6. Seen(c)' = Len(got[j])
    BY <1>2, <1>5 DEF Seen
  <1>7. BehindAt(c)'
    BY <1>2, <1>3, <1>5, <1>6 DEF BehindAt
  <1>8. /\ current' \in [Jobs -> Readable] /\ current'[j] = c
        /\ \A i \in Jobs \ {j} : current'[i] = current[i]
    BY <1>2, <1>3 DEF Readable
  <1>9. ASSUME NEW i \in Jobs
        PROVE  ReadAt(i)'
    <2>1. CASE i = j
      <3>1. current'[i] = c /\ c # i /\ \A x \in Conns : current'[i] = x => x = c
        BY <1>8, <2>1
      <3> QED  BY <1>2, <1>3, <1>5, <1>6, <2>1, <3>1 DEF ReadAt
    <2>2. CASE i # j
      <3>1. ReadAt(i) /\ current'[i] = current[i] /\ UNCHANGED <<job, prod, got>>
        BY <1>1, <1>3, <1>8, <1>9, <2>2
      <3>2. ASSUME NEW x \in Conns, current'[i] = x
            PROVE  conn'[x].at # "idle" /\ conn'[x].job = i /\ Seen(x)' = Len(got'[i])
        <4>1. conn[x].at # "idle" /\ conn[x].job = i /\ Seen(x) = Len(got[i])
          BY <3>1, <3>2 DEF ReadAt
        <4>2. x # c
          BY <1>3, <4>1
        <4> QED  BY <1>5, <3>1, <4>1, <4>2 DEF OneConn, Seen
      <3> QED  BY <3>1, <3>2 DEF ReadAt
    <2> QED  BY <2>1, <2>2
  <1>10. whole' \subseteq Jobs /\ \A i \in Jobs : WholeAt(i)'
    BY <1>3, WholeStays
  <1> QED  BY <1>2, <1>3, <1>5, <1>7, <1>8, <1>9, <1>10, ConnMoves

LEMMA FindKeeps ==
  ASSUME JobInv, NEW c \in Conns, Find(c)
  PROVE  JobInv' /\ Frozen
  <1>1. /\ conn[c].at = "asked" /\ UNCHANGED <<job, prod, kept, stopped, got, whole>>
        /\ whole' \subseteq Jobs
        /\ \A i \in Jobs : WholeAt(i)'
    BY WholeStays DEF Find
  <1>2. Typed /\ conn[c] \in Resuming
    BY <1>1, ConnFacts
  <1>3. CASE conn' = [conn EXCEPT ![c].at = "found"] /\ UNCHANGED current
    <2>1. /\ OneConn(c) /\ conn'[c].at = "found" /\ conn'[c].job = conn[c].job
          /\ conn'[c].cursor = conn[c].cursor
      BY <1>2, <1>3 DEF OneConn, Typed, Resuming
    <2>2. Seen(c)' = Seen(c)
      BY <1>1, <2>1 DEF Seen
    <2>3. current' \in [Jobs -> Readable] /\ \A i \in Jobs : current'[i] = current[i]
      BY <1>2, <1>3 DEF Typed
    <2> QED  BY <1>1, <2>1, <2>2, <2>3, ConnRests
  <1>4. CASE Ends(c) /\ Hangs(c)
    BY <1>1, <1>4, EndKeeps
  <1> QED  BY <1>3, <1>4 DEF Find

LEMMA DecideKeeps ==
  ASSUME JobInv, NEW c \in Conns, Decide(c)
  PROVE  JobInv' /\ Frozen
  <1>1. /\ conn[c].at = "found" /\ UNCHANGED <<job, prod, kept, stopped, got, whole>>
        /\ whole' \subseteq Jobs
        /\ \A i \in Jobs : WholeAt(i)'
    BY WholeStays DEF Decide
  <1>2. Typed /\ conn[c] \in Resuming /\ Seen(c) \in 0 .. Roof /\ conn[c].cursor \in Nat
    BY <1>1, ConnFacts
  <1>3. CASE conn' = [conn EXCEPT ![c].at = "head", ![c].cursor = From(@)] /\ UNCHANGED current
    <2>1. From(conn[c].cursor) = Seen(c) /\ From(conn[c].cursor) \in 0 .. Roof
      BY <1>1, <1>2 DEF From, Seen
    <2>2. conn'[c] = [conn[c] EXCEPT !.at = "head", !.cursor = From(@)]
      BY <1>2, <1>3 DEF Typed
    <2>3. /\ conn'[c] \in Resuming /\ conn'[c].at = "head" /\ conn'[c].job = conn[c].job
          /\ conn'[c].cursor = Seen(c)
      BY <1>2, <2>1, <2>2 DEF Resuming
    <2>4. OneConn(c)
      BY <1>2, <1>3, <2>3 DEF OneConn, Typed
    <2>5. Seen(c)' = Seen(c)
      BY <2>3 DEF Seen
    <2>6. current' \in [Jobs -> Readable] /\ \A i \in Jobs : current'[i] = current[i]
      BY <1>2, <1>3 DEF Typed
    <2> QED  BY <1>1, <2>3, <2>4, <2>5, <2>6, ConnRests
  <1>4. CASE Ends(c) /\ Hangs(c)
    BY <1>1, <1>4, EndKeeps
  <1> QED  BY <1>3, <1>4 DEF Decide

LEMMA ResumeHeadKeeps ==
  ASSUME JobInv, NEW c \in Conns, ResumeHead(c)
  PROVE  JobInv' /\ Frozen
  <1>1. /\ conn[c].at = "head" /\ UNCHANGED <<job, prod, kept, stopped, got, whole>>
        /\ whole' \subseteq Jobs
        /\ \A i \in Jobs : WholeAt(i)'
    BY WholeStays DEF ResumeHead
  <1>2. Typed /\ conn[c] \in Resuming
    BY <1>1, ConnFacts
  <1>3. CASE conn' = [conn EXCEPT ![c].at = "tail"] /\ UNCHANGED current
    <2>1. /\ OneConn(c) /\ conn'[c].at = "tail" /\ conn'[c].job = conn[c].job
          /\ conn'[c].cursor = conn[c].cursor
      BY <1>2, <1>3 DEF OneConn, Typed, Resuming
    <2>2. Seen(c)' = Seen(c)
      BY <1>1, <2>1 DEF Seen
    <2>3. current' \in [Jobs -> Readable] /\ \A i \in Jobs : current'[i] = current[i]
      BY <1>2, <1>3 DEF Typed
    <2> QED  BY <1>1, <2>1, <2>2, <2>3, ConnRests
  <1>4. CASE Ends(c) /\ Hangs(c)
    BY <1>1, <1>4, EndKeeps
  <1> QED  BY <1>3, <1>4 DEF ResumeHead

LEMMA FollowKeeps ==
  ASSUME JobInv, NEW c \in Conns, Follow(c)
  PROVE  JobInv' /\ Frozen
  <1> DEFINE j == conn[c].job
             takes == Take(j, conn[c].cursor)
  <1>1. conn[c].at = "tail" /\ UNCHANGED <<job, prod, kept, stopped>>
    BY DEF Follow
  <1>2. /\ Typed /\ conn[c] \in Resuming /\ j \in Jobs /\ Seen(c) = conn[c].cursor
        /\ conn[c].cursor \in Nat /\ job[j] \in Job /\ job[j].len \in 0 .. Roof
        /\ conn[c].cursor <= job[j].len
        /\ \A i \in Jobs : current[i] = c => i = j /\ conn[c].cursor = Len(got[i])
    BY <1>1, ConnFacts DEF Seen
  <1> HIDE DEF j
  <1>3. CASE Ends(c) /\ Hangs(c) /\ UNCHANGED <<got, whole>>
    BY <1>1, <1>3, EndKeeps, WholeStays
  <1>4. CASE /\ takes \in {"drained", "failed"} /\ Ends(c) /\ Hangs(c) /\ UNCHANGED got
             /\ whole' = IF takes = "drained" /\ current[j] = c THEN whole \union {j} ELSE whole
    <2>1. \A i \in Jobs : WholeAt(i)
      BY InvParts
    <2>2. ASSUME takes = "drained", current[j] = c
          PROVE  job[j].status = "done" /\ Len(got[j]) = job[j].len
      <3>1. job[j].status = "done" /\ ~(conn[c].cursor < job[j].len)
        BY <2>2 DEF Take
      <3> QED  BY <1>2, <2>2, <3>1
    <2>3. whole' \subseteq Jobs /\ \A i \in Jobs : WholeAt(i)'
      BY <1>1, <1>2, <1>4, <2>1, <2>2 DEF Typed, WholeAt
    <2> QED  BY <1>1, <1>4, <2>3, EndKeeps
  <1>5. CASE current[j] # c /\ Ends(c) /\ UNCHANGED <<current, got, whole>>
    <2>1. OneConn(c) /\ conn'[c] = NoConn
      BY <1>2, <1>5, EndsFacts
    <2>2. /\ current' \in [Jobs -> Readable]
          /\ \A i \in Jobs : current'[i] = current[i] /\ current'[i] # c
      BY <1>2, <1>5 DEF Typed
    <2> QED  BY <1>1, <1>5, <2>1, <2>2, WholeStays, ConnRests
  <1>6. ASSUME UNCHANGED whole, NEW ok \in BOOLEAN, Write(j, c, conn[c].cursor, ok),
               IF ok THEN conn' = [conn EXCEPT ![c].cursor = job[j].len] ELSE Ends(c)
        PROVE  JobInv' /\ Frozen
    <2>1. Write(j, c, Len(got[j]), ok)
      <3>1. CASE current[j] = c
        BY <1>2, <1>6, <3>1
      <3>2. CASE current[j] # c
        BY <1>6, <3>2 DEF Write
      <3> QED  BY <3>1, <3>2
    <2>2. /\ OneCurrent(j) /\ OneReceives(j) /\ Numbered(got'[j])
          /\ current'[j] = (IF ok THEN current[j] ELSE None)
          /\ Len(got'[j]) <= job[j].len
          /\ (current[j] = c /\ ok => Len(got'[j]) = job[j].len)
          /\ (current[j] = c \/ got'[j] = got[j])
          /\ (j \in whole => got'[j] = got[j])
      BY <1>2, <2>1, WriteFacts
    <2>3. /\ OneConn(c)
          /\ ok => /\ conn'[c].at = "tail" /\ conn'[c].job = j
                   /\ conn'[c].cursor = job[j].len
          /\ ~ok => conn'[c] = NoConn
      <3>1. CASE ok
        <4>1. conn' = [conn EXCEPT ![c].cursor = job[j].len]
          BY <1>6, <3>1
        <4> QED  BY <1>1, <1>2, <3>1, <4>1 DEF OneConn, Typed, Resuming, j
      <3>2. CASE ~ok
        BY <1>2, <1>6, <3>2, EndsFacts
      <3> QED  BY <3>1, <3>2
    <2>4. ok => Seen(c)' = job[j].len
      BY <2>3 DEF Seen
    <2>5. BehindAt(c)'
      BY <1>1, <1>2, <2>3, <2>4 DEF BehindAt, NoConn
    <2>6. ASSUME NEW i \in Jobs
          PROVE  Numbered(got'[i]) /\ WholeAt(i)'
      <3>1. InOrder /\ WholeAt(i)
        BY <2>6, InvParts
      <3> QED  BY <1>1, <1>6, <2>2, <2>6, <3>1 DEF InOrder, Numbered, OneReceives, WholeAt
    <2>7. ASSUME NEW i \in Jobs
          PROVE  ReadAt(i)'
      <3>1. ReadAt(i) /\ None \notin Conns /\ i # None /\ i \notin Conns
        BY <2>7, InvParts, JobsAssumption
      <3>2. /\ current'[i] \in {None, current[i]} /\ Len(got'[i]) <= job[i].len
            /\ (current[i] = c \/ got'[i] = got[i])
            /\ (current'[i] = c => ok /\ Len(got'[i]) = job[i].len /\ i = j)
        <4>1. CASE i = j
          BY <1>2, <2>2, <3>1, <4>1 DEF ReadAt
        <4>2. CASE i # j
          BY <1>2, <2>2, <2>7, <3>1, <4>2 DEF ReadAt, OneCurrent, OneReceives
        <4> QED  BY <4>1, <4>2
      <3>3. current'[i] = i => current[i] = i /\ got'[i] = got[i]
        BY <3>1, <3>2
      <3>4. ASSUME NEW x \in Conns, current'[i] = x
            PROVE  conn'[x].at # "idle" /\ conn'[x].job = i /\ Seen(x)' = Len(got'[i])
        <4>1. CASE x = c
          BY <2>3, <2>4, <3>2, <3>4, <4>1
        <4>2. CASE x # c
          <5>1. current[i] = x /\ got'[i] = got[i]
            BY <3>1, <3>2, <3>4, <4>2
          <5>2. conn[x].at # "idle" /\ conn[x].job = i /\ Seen(x) = Len(got[i])
            BY <3>1, <5>1 DEF ReadAt
          <5> QED  BY <2>3, <4>2, <5>1, <5>2 DEF OneConn, Seen
        <4> QED  BY <4>1, <4>2
      <3> QED  BY <1>1, <3>1, <3>2, <3>3, <3>4 DEF ReadAt
    <2>8. /\ current' \in [Jobs -> Readable] /\ got' \in [Jobs -> Seq(0 .. Roof - 1)]
          /\ whole' \subseteq Jobs
      BY <1>2, <1>6, <2>2 DEF OneCurrent, OneReceives, Typed
    <2> QED  BY <1>1, <2>3, <2>5, <2>6, <2>7, <2>8, ConnMoves
  <1> QED  BY <1>3, <1>4, <1>5, <1>6 DEF Follow, j

-----------------------------------------------------------------------------
(* The invariant holds.                                                    *)

LEMMA InitKeeps == Init => JobInv
  <1> SUFFICES ASSUME Init  PROVE JobInv
    OBVIOUS
  <1> USE JobsAssumption
  <1>1. JobOf(None) \in Job /\ ProducerAt("new") \in Producing /\ NoConn \in Resuming
    BY DEF JobOf, Job, ProducerAt, Producing, NoConn, Resuming
  <1>2. <<>> \in Seq(0 .. Roof - 1) /\ Len(<<>>) = 0
    BY EmptySeq
  <1>3. Typed
    BY <1>1, <1>2 DEF Init, Typed, Readable
  <1>4. Registered
    BY FS_EmptySet DEF Init, Registered
  <1>5. /\ \A j \in Jobs : /\ job[j].status = "none" /\ job[j].len = 0 /\ job[j].sent = 0
                           /\ prod[j].at = "new" /\ prod[j].cursor = 0
                           /\ got[j] = <<>> /\ current[j] = None
        /\ \A c \in Conns : conn[c].at = "idle"
        /\ whole = {}
    BY DEF Init, JobOf, ProducerAt, NoConn
  <1>6. InOrder /\ RunningIsKept
    BY <1>2, <1>5 DEF InOrder, RunningIsKept, Running
  <1>7. \A j \in Jobs : PlacedAt(j) /\ NumberedAt(j) /\ ReadAt(j) /\ WholeAt(j)
    BY <1>2, <1>5 DEF PlacedAt, NumberedAt, Pending, ReadAt, WholeAt
  <1>8. \A c \in Conns : BehindAt(c)
    BY <1>5 DEF BehindAt
  <1> QED  BY <1>3, <1>4, <1>6, <1>7, <1>8, InvParts

LEMMA StepKeeps ==
  ASSUME JobInv, [Next]_vars
  PROVE  JobInv' /\ Frozen
  <1>1. CASE UNCHANGED vars
    <2>1. UNCHANGED <<job, prod, conn, current, got, whole>> /\ UNCHANGED <<kept, stopped>>
      BY <1>1 DEF vars
    <2>2. Registered /\ Typed /\ RunningIsKept
      BY InvParts
    <2> QED  BY <2>1, <2>2, ForgetKeeps DEF Registered, Typed, RunningIsKept
  <1>2. ASSUME NEW j \in Jobs,
               \/ \E d \in Devices : Ask(j, d)
               \/ Producer(j) \/ Elapse(j) \/ Drop(j) \/ Reap(j)
               \/ \E c \in Conns : Resume(c, j)
        PROVE  JobInv' /\ Frozen
    BY <1>2, AskKeeps, StartKeeps, RefuseKeeps, WriteHeadKeeps, LoopKeeps, GiveUpKeeps,
       ReadKeeps, AppendKeeps, ServeKeeps, NoticeKeeps, FinishKeeps, DrainKeeps,
       ElapseKeeps, DropKeeps, ReapKeeps, ResumeKeeps DEF Producer
  <1>3. ASSUME NEW c \in Conns, Resumed(c)
        PROVE  JobInv' /\ Frozen
    BY <1>3, FindKeeps, DecideKeeps, ResumeHeadKeeps, FollowKeeps DEF Resumed
  <1>4. ASSUME NEW d \in Devices, Stop(d)
        PROVE  JobInv' /\ Frozen
    BY <1>4, StopKeeps
  <1> QED  BY <1>1, <1>2, <1>3, <1>4 DEF Next

THEOREM InvariantHolds == Spec => []JobInv
  <1>1. JobInv /\ [Next]_vars => JobInv'
    BY StepKeeps
  <1> QED  BY InitKeeps, <1>1, PTL DEF Spec

-----------------------------------------------------------------------------
(* The theorems.                                                           *)

(* The variables keep their types, and the registry never keeps more than *)
(* MaxJobs answers, however many are asked for (registry.rs `start`).      *)
THEOREM TypesHold == Spec => []TypeOK
  <1>1. JobInv => TypeOK
    BY DEF JobInv
  <1> QED  BY InvariantHolds, <1>1, PTL

(* However many connections a client loses, and whoever still writes to the old *)
(* ones, it receives the events in order, without a hole and none twice    *)
(* (jobs.rs `take`, proxy.rs `resume`).                                    *)
THEOREM ReceivedInOrder == Spec => []InOrder
  <1>1. JobInv => InOrder
    BY DEF JobInv
  <1> QED  BY InvariantHolds, <1>1, PTL

(* A client told that the answer is complete has all that the engine produced, *)
(* and nothing is added behind it (jobs.rs `append`, `take`).              *)
THEOREM FollowedIsWhole == Spec => []WholeMeansWhole
  <1>1. JobInv => WholeMeansWhole
    <2>1. SUFFICES ASSUME JobInv, NEW j \in whole
                   PROVE  Len(got[j]) = job[j].len /\ job[j].len = job[j].sent
      BY DEF WholeMeansWhole
    <2>2. j \in Jobs /\ WholeAt(j) /\ NumberedAt(j)
      BY <2>1, InvParts DEF Typed
    <2> QED  BY <2>1, <2>2 DEF WholeAt, NumberedAt
  <1> QED  BY InvariantHolds, <1>1, PTL

(* A full registry makes room of ended answers only: a running one is always *)
(* found by the client that comes back for it (registry.rs `make_room`).   *)
THEOREM RunningIsFound == Spec => []RunningIsKept
  <1>1. JobInv => RunningIsKept
    BY DEF JobInv
  <1> QED  BY InvariantHolds, <1>1, PTL

(* An answer that has ended keeps its events and its first verdict (jobs.rs *)
(* `append`, `close`).                                                     *)
THEOREM EndedIsFrozen == Spec => FrozenOnceEnded
  <1>1. JobInv /\ [Next]_vars =>
          [\A j \in Jobs : Finished(j) =>
             job'[j].status = job[j].status /\ job'[j].len = job[j].len]_vars
    BY StepKeeps DEF Frozen
  <1> QED  BY InvariantHolds, <1>1, PTL DEF Spec, FrozenOnceEnded

(* Asking is the only step that takes a producer out of its first place. *)
LEMMA OnlyAskAsks ==
  ASSUME Typed, Next, NEW k \in Jobs, prod[k].at = "new", prod'[k].at = "asked"
  PROVE  \E d \in Devices : Ask(k, d)
  <1>1. prod \in [Jobs -> Producing]
    BY DEF Typed
  <1>2. ASSUME NEW j \in Jobs, NEW place \in Places, prod[j].at # "new", To(j, place)
        PROVE  FALSE
    BY <1>1, <1>2 DEF To
  <1>3. ASSUME NEW j \in Jobs, prod[j].at # "new",
               \A i \in Jobs \ {j} : prod'[i] = prod[i]
        PROVE  FALSE
    BY <1>3
  <1>4. ASSUME NEW j \in Jobs, Producer(j)
        PROVE  FALSE
    <2>1. prod[j].at # "new"
      BY <1>4 DEF Producer, Start, Refuse, WriteHead, Loop, GiveUp, Read, AppendEvent,
                  Serve, Notice, Finish, Drain
    <2>2. \A i \in Jobs \ {j} : prod'[i] = prod[i]
      <3>1. CASE Start(j) \/ Refuse(j) \/ WriteHead(j)
        BY <1>1, <3>1 DEF Start, Refuse, WriteHead, To, End
      <3>2. CASE Loop(j) \/ GiveUp(j) \/ Finish(j)
        BY <1>1, <3>2 DEF Loop, GiveUp, Finish, Drains
      <3>3. CASE Read(j)
        BY <1>1, <3>3 DEF Read, Drains, To
      <3>4. CASE AppendEvent(j) \/ Serve(j) \/ Notice(j) \/ Drain(j)
        BY <1>1, <3>4 DEF AppendEvent, Serve, Notice, Drain, To, End
      <3> QED  BY <1>4, <3>1, <3>2, <3>3, <3>4 DEF Producer
    <2> QED  BY <1>3, <2>1, <2>2
  <1>5. ASSUME NEW j \in Jobs, Elapse(j)
        PROVE  FALSE
    <2>1. prod'[j].at = prod[j].at /\ \A i \in Jobs \ {j} : prod'[i] = prod[i]
      BY <1>1, <1>5 DEF Elapse, Producing
    <2> QED  BY <2>1
  <1>6. ASSUME UNCHANGED prod
        PROVE  FALSE
    BY <1>6
  <1>7. ASSUME NEW j \in Jobs, NEW d \in Devices, Ask(j, d)
        PROVE  j = k
    BY <1>1, <1>7 DEF Ask, To
  <1>8. \/ \E j \in Jobs : (\E d \in Devices : Ask(j, d)) \/ Producer(j) \/ Elapse(j)
        \/ UNCHANGED prod
    BY DEF Next, Drop, Reap, Resume, Resumed, Find, Decide, ResumeHead, Follow, Stop
  <1> QED  BY <1>4, <1>5, <1>6, <1>7, <1>8

(* The owner's next completion stops no answer its client still follows: not *)
(* on the socket that asked, nor on a connection the door found it for     *)
(* (registry.rs `abandon_detached`, `find_reading`).                       *)
THEOREM SupersedingIsSafe == Spec => SupersedeSparesFollowed
  <1> DEFINE Spares(j, k) ==
        (prod[k].at = "new" /\ prod'[k].at = "asked" /\ Running(j) /\ job'[j].status # "running")
          => current[j] = None \/ (current[j] \in Conns /\ conn[current[j]].at = "asked")
  <1>1. ASSUME JobInv, Next, NEW j \in Jobs, NEW k \in Jobs
        PROVE  Spares(j, k)
    <2>1. SUFFICES ASSUME prod[k].at = "new", prod'[k].at = "asked", Running(j),
                          job'[j].status # "running"
                   PROVE  current[j] = None
                          \/ (current[j] \in Conns /\ conn[current[j]].at = "asked")
      OBVIOUS
    <2>2. PICK d \in Devices : Ask(k, d)
      BY <1>1, <2>1, InvParts, OnlyAskAsks
    <2>3. j # k
      BY <1>1, <2>1, JobFacts DEF PlacedAt, Running
    <2>4. j \in Superseded(d)
      <3>1. j \notin Superseded(d) => job'[j] = job[j]
        BY <1>1, <2>2, <2>3 DEF Ask
      <3> QED  BY <2>1, <3>1 DEF Running
    <2> QED  BY <1>1, <2>4, SupersededUnfollowed
  <1>2. JobInv /\ [Next]_vars => [\A j, k \in Jobs : Spares(j, k)]_vars
    BY <1>1
  <1> QED  BY InvariantHolds, <1>2, PTL DEF Spec, SupersedeSparesFollowed
=============================================================================
