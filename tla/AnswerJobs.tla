----------------------------- MODULE AnswerJobs -----------------------------
(***************************************************************************)
(* An answer belongs to a job, not to a socket: jobs.rs, registry.rs,      *)
(* stream.rs and the resume route of proxy.rs in                           *)
(* desktop/crates/kalsa-door/src.                                          *)
(*                                                                         *)
(* The thread of the request that asked (the producer) reads the engine    *)
(* and numbers the events from zero into the job's log, and serves its own *)
(* client between two reads. When that client is lost the job goes on; a   *)
(* later connection names the last event it saw and follows from the next. *)
(* Closers race: the end of the engine's answer, the log's roof, a stopped *)
(* door, a grace nobody came back in, the owner's next completion.         *)
(*                                                                         *)
(* A client is the reader of one job: the connection it reads now, and     *)
(* what it received. What a write loses is decided at the write: the       *)
(* client gets a prefix of it and the connection is gone. Only the owner   *)
(* asks for a job again, with an id it received: a job's name is 128       *)
(* random bits only the owner is given.                                    *)
(***************************************************************************)
EXTENDS Integers, FiniteSets, Sequences, SequencesExt

CONSTANTS
  Devices,     \* who asks
  Hosts,       \* the devices whose answers end when their client is lost
  Jobs,        \* the answers; j names also the connection that asked for j
  Conns,       \* the connections that resume one
  None,
  MaxJobs,     \* how many jobs the registry keeps (MAX_JOBS)
  Roof,        \* how many events a log holds (MAX_JOB_BYTES)
  MaxEvents,   \* bound: how many events the engine's answer has
  Answered     \* bound: the jobs the engine answers; it refuses the others

ASSUME JobsAssumption ==
  /\ Hosts \subseteq Devices
  /\ None \notin Devices \union Jobs \union Conns
  /\ Jobs \intersect Conns = {}
  /\ MaxJobs \in Nat \ {0} /\ Roof \in Nat /\ MaxEvents \in Nat
  /\ Answered \subseteq Jobs

VARIABLES
  job,       \* job -> the log: owner, length, status, the original's attachment
  prod,      \* job -> its producer
  conn,      \* connection -> the resume it serves
  kept,      \* the jobs the registry holds
  stopped,   \* the devices out of the set (all of them: the door is closing)
  current,   \* job -> the connection its client reads, or None
  got,       \* job -> the events its client received, in order
  whole      \* the jobs whose client followed the answer to a clean end

vars == <<job, prod, conn, kept, stopped, current, got, whole>>

Failures == {"overflow", "upstream", "shutdown", "abandoned"}
JobOf(d) == [owner |-> d, len |-> 0, status |-> "none", attached |-> FALSE, sent |-> 0]
ProducerAt(place) == [at |-> place, cursor |-> 0, last |-> FALSE, grace |-> "none"]
NoConn == [at |-> "idle", job |-> None, cursor |-> 0]

Init ==
  /\ job = [j \in Jobs |-> JobOf(None)]
  /\ prod = [j \in Jobs |-> ProducerAt("new")]
  /\ conn = [c \in Conns |-> NoConn]
  /\ kept = {} /\ stopped = {}
  /\ current = [j \in Jobs |-> None]
  /\ got = [j \in Jobs |-> <<>>]
  /\ whole = {}

Running(j) == job[j].status = "running"
Failed(j) == job[j].status \in Failures
Finished(j) == job[j].status = "done" \/ Failed(j)

\* a connection is counted as a reader from `find_reading` on. (Slip: only from
\* the verdict on.)
CountedLate == {"head", "tail"}
Counted == {"found", "head", "tail"}
Readers(j) == {c \in Conns : conn[c].job = j /\ conn[c].at \in Counted}

\* `close`: whichever comes first
Verdict(j, s) == IF Running(j) THEN s ELSE job[j].status

Close(j, s) == job' = [job EXCEPT ![j].status = Verdict(j, s)]
To(j, place) == prod' = [prod EXCEPT ![j].at = place]
Drains(j) == prod' = [prod EXCEPT ![j] = [@ EXCEPT !.at = "drain", !.last = FALSE, !.grace = "none"]]
End(j) == prod' = [prod EXCEPT ![j] = ProducerAt("ended")]

\* events from .. len - 1 are written to connection x: its client gets them all,
\* or only the first and the connection is lost
Write(j, x, from, ok) ==
  IF current[j] = x
    THEN \E k \in from .. job[j].len :
           /\ got' = [got EXCEPT ![j] = @ \o [i \in 1 .. k - from |-> from + i - 1]]
           /\ ok = (k = job[j].len)
           /\ current' = IF ok THEN current ELSE [current EXCEPT ![j] = None]
    ELSE ok /\ UNCHANGED <<got, current>>

-----------------------------------------------------------------------------
(* A completion is asked for *)

Superseded(d) == {j \in Jobs : /\ job[j].owner = d /\ Running(j)
                               /\ Readers(j) = {} /\ ~job[j].attached}

\* The device's detached answers are closed first (`abandon_detached`, under
\* the registry's lock); the job comes with the engine's head.
Ask(j, d) ==
  /\ prod[j].at = "new" /\ d \notin stopped
  /\ job' = [k \in Jobs |-> IF k = j THEN JobOf(d)
                            ELSE IF k \in Superseded(d) THEN [job[k] EXCEPT !.status = "abandoned"]
                            ELSE job[k]]
  /\ current' = [current EXCEPT ![j] = j]
  /\ To(j, "asked")
  /\ UNCHANGED <<conn, kept, stopped, got, whole>>

\* `Registry::start`; a full registry makes room of the expired answers or of the
\* oldest finished one (`make_room`)
Start(j) ==
  /\ prod[j].at = "asked" /\ j \in Answered
  /\ \E out \in SUBSET {k \in kept : Finished(k)} :
       /\ out # {} <=> Cardinality(kept) >= MaxJobs
       /\ kept' = (kept \ out) \union {j}
  /\ job' = [job EXCEPT ![j].status = "running", ![j].attached = TRUE]
  /\ To(j, "head")
  /\ UNCHANGED <<conn, stopped, current, got, whole>>

\* the engine refused, or every kept job is running (busy)
Refuse(j) ==
  /\ prod[j].at = "asked"
  /\ End(j)
  /\ current' = [current EXCEPT ![j] = None]
  /\ UNCHANGED <<job, conn, kept, stopped, got, whole>>

-----------------------------------------------------------------------------
(* The producer *)

Stopped(j) == job[j].owner \in stopped

\* the head, one step with the check of the set
WriteHead(j) ==
  /\ prod[j].at = "head"
  /\ \/ /\ Stopped(j)
        /\ Close(j, "shutdown") /\ End(j)
        /\ current' = [current EXCEPT ![j] = IF @ = j THEN None ELSE @]
     \/ /\ ~Stopped(j)
        /\ \E ok \in BOOLEAN :
             /\ job' = [job EXCEPT ![j].attached = ok]
             /\ current' = IF ok THEN current ELSE [current EXCEPT ![j] = IF @ = j THEN None ELSE @]
        /\ To(j, "loop")
  /\ UNCHANGED <<conn, kept, stopped, got, whole>>

\* the loop asks whether to stop before it asks who listens. (Slip: only
\* once nobody does.)
CutsDetached(j) == Stopped(j) /\ ~job[j].attached
Cuts(j) == Stopped(j)

\* `detached_since` after a pass of a detached loop: started once, started again
\* while somebody reads. (Slip: started again at every pass.)
GraceAgain(j) == "running"
Grace(j) == IF Readers(j) = {} /\ prod[j].grace = "over" THEN "over" ELSE "running"

Loop(j) ==
  /\ prod[j].at = "loop"
  /\ \/ Finished(j) /\ Drains(j) /\ UNCHANGED job
     \/ Running(j) /\ Cuts(j) /\ Close(j, "shutdown") /\ Drains(j)
     \/ /\ Running(j) /\ ~Cuts(j) /\ job[j].attached
        /\ prod' = [prod EXCEPT ![j].at = "read", ![j].grace = "none"]
        /\ UNCHANGED job
     \/ /\ Running(j) /\ ~Cuts(j) /\ ~job[j].attached
        /\ LET lost == job[j].owner \in Hosts \/ Grace(j) = "over" IN
             prod' = [prod EXCEPT ![j].at = IF lost THEN "giveup" ELSE "read", ![j].grace = Grace(j)]
        /\ UNCHANGED job
     \/ Running(j) /\ ~Cuts(j) /\ Close(j, "upstream") /\ Drains(j)   \* its lifetime is over
  /\ UNCHANGED <<conn, kept, stopped, current, got, whole>>

\* the grace runs out
Elapse(j) ==
  /\ prod[j].grace = "running"
  /\ prod' = [prod EXCEPT ![j].grace = "over"]
  /\ UNCHANGED <<job, conn, kept, stopped, current, got, whole>>

GiveUp(j) ==
  /\ prod[j].at = "giveup"
  /\ Close(j, "abandoned") /\ Drains(j)
  /\ UNCHANGED <<conn, kept, stopped, current, got, whole>>

\* One read of the engine: an event, with or without the end of the answer behind
\* it; no event (a keep-alive, a piece of one, the bare end); silence; or an end
\* that is not the end of the answer (never so for a body that its close
\* delimits: that one always ends well). A read that brings several events is
\* several reads here.
Read(j) ==
  /\ prod[j].at = "read"
  /\ \/ \E last \in BOOLEAN :
          /\ job[j].sent < MaxEvents
          /\ job' = [job EXCEPT ![j].sent = @ + 1]
          /\ prod' = [prod EXCEPT ![j].at = "append", ![j].last = last]
     \/ \E last \in BOOLEAN :
          /\ prod' = [prod EXCEPT ![j].at = "serve", ![j].last = last]
          /\ UNCHANGED job
     \/ To(j, "loop") /\ UNCHANGED job
     \/ Close(j, "upstream") /\ Drains(j)
  /\ UNCHANGED <<conn, kept, stopped, current, got, whole>>

\* the log takes no event once the answer has ended. (Slip: it asks only for
\* room.)
AcceptsAlways(j) == TRUE
Accepts(j) == Running(j)

\* what the roof leaves room for. (Slip: one event more.)
HasRoomLate(j) == job[j].len <= Roof
HasRoom(j) == job[j].len < Roof

\* `append`, under the log's lock
AppendEvent(j) ==
  /\ prod[j].at = "append"
  /\ IF Accepts(j) /\ HasRoom(j)
       THEN job' = [job EXCEPT ![j].len = @ + 1]
       ELSE job' = [job EXCEPT ![j].status = IF Running(j) THEN "overflow" ELSE @]
  /\ To(j, "serve")
  /\ UNCHANGED <<conn, kept, stopped, current, got, whole>>

AfterServe(j) == IF prod[j].last THEN "finish" ELSE "loop"

\* what the log holds past the producer's cursor goes to its own client
Serve(j) ==
  /\ prod[j].at = "serve"
  /\ \E ok \in BOOLEAN :
       /\ IF job[j].attached THEN Write(j, j, prod[j].cursor, ok)
                             ELSE ok /\ UNCHANGED <<got, current>>
       /\ job' = [job EXCEPT ![j].attached = @ /\ ok]
       /\ prod' = [prod EXCEPT ![j].at = AfterServe(j),
                               ![j].cursor = IF job[j].attached THEN job[j].len ELSE @]
  /\ UNCHANGED <<conn, kept, stopped, whole>>

\* The client has left and the producer finds out: a write (a keep-alive's too)
\* fails, or the engine is silent and the socket is looked at.
Notice(j) ==
  /\ prod[j].at \in {"read", "serve"}
  /\ job[j].attached /\ current[j] # j
  /\ job' = [job EXCEPT ![j].attached = FALSE]
  /\ To(j, IF prod[j].at = "read" THEN "loop" ELSE AfterServe(j))
  /\ UNCHANGED <<conn, kept, stopped, current, got, whole>>

\* the engine's answer was complete
Finish(j) ==
  /\ prod[j].at = "finish"
  /\ Close(j, "done") /\ Drains(j)
  /\ UNCHANGED <<conn, kept, stopped, current, got, whole>>

\* the rest of the log, and then the socket's close
Drain(j) ==
  /\ prod[j].at = "drain"
  /\ \E k \in prod[j].cursor .. job[j].len :
       LET mine == job[j].attached /\ current[j] = j IN
         /\ ~mine => k = job[j].len
         /\ got' = IF mine THEN [got EXCEPT ![j] = @ \o [i \in 1 .. k - prod[j].cursor |->
                                                            prod[j].cursor + i - 1]]
                   ELSE got
         /\ whole' = IF mine /\ k = job[j].len /\ job[j].status = "done"
                       THEN whole \union {j} ELSE whole
  /\ current' = [current EXCEPT ![j] = IF @ = j THEN None ELSE @]
  /\ End(j)
  /\ UNCHANGED <<job, conn, kept, stopped>>

-----------------------------------------------------------------------------
(* A client comes back *)

\* the client's connection is lost, or it leaves
Drop(j) ==
  /\ current[j] # None
  /\ current' = [current EXCEPT ![j] = None]
  /\ UNCHANGED <<job, prod, conn, kept, stopped, got, whole>>

\* the client asks again, naming the last event it received
Resume(c, j) ==
  /\ conn[c].at = "idle"
  /\ current[j] = None /\ got[j] # <<>> /\ ~Stopped(j)
  /\ current' = [current EXCEPT ![j] = c]
  /\ conn' = [conn EXCEPT ![c] = [at |-> "asked", job |-> j, cursor |-> Last(got[j])]]
  /\ UNCHANGED <<job, prod, kept, stopped, got, whole>>

Hangs(c) == current' = [j \in Jobs |-> IF current[j] = c THEN None ELSE current[j]]
Ends(c) == conn' = [conn EXCEPT ![c] = NoConn]

\* `find_reading`: found and counted in one step; or forgotten, and told so
Find(c) ==
  /\ conn[c].at = "asked"
  /\ \/ /\ conn[c].job \in kept
        /\ conn' = [conn EXCEPT ![c].at = "found"]
        /\ UNCHANGED current
     \/ /\ conn[c].job \notin kept
        /\ Ends(c) /\ Hangs(c)
  /\ UNCHANGED <<job, prod, kept, stopped, got, whole>>

\* `resume_decision`
Served(j, seen) == seen < job[j].len \/ (seen = job[j].len /\ ~Failed(j))
\* (Slip: from the event the client already has)
FromSeen(seen) == seen
From(seen) == seen + 1

Decide(c) ==
  /\ conn[c].at = "found"
  /\ IF Served(conn[c].job, conn[c].cursor)
       THEN /\ conn' = [conn EXCEPT ![c].at = "head", ![c].cursor = From(@)]
            /\ UNCHANGED current
       ELSE Ends(c) /\ Hangs(c)
  /\ UNCHANGED <<job, prod, kept, stopped, got, whole>>

ResumeHead(c) ==
  /\ conn[c].at = "head"
  /\ \/ ~Stopped(conn[c].job) /\ conn' = [conn EXCEPT ![c].at = "tail"] /\ UNCHANGED current
     \/ (Stopped(conn[c].job) \/ current[conn[c].job] # c) /\ Ends(c) /\ Hangs(c)
  /\ UNCHANGED <<job, prod, kept, stopped, got, whole>>

\* `take`: events first, the verdict only once they are out. (Slip: the verdict
\* first.)
TakeVerdictFirst(j, cursor) ==
  IF job[j].status = "done" THEN "drained" ELSE IF Failed(j) THEN "failed"
  ELSE IF cursor < job[j].len THEN "events" ELSE "wait"
Take(j, cursor) ==
  IF cursor < job[j].len THEN "events"
  ELSE IF job[j].status = "done" THEN "drained" ELSE IF Failed(j) THEN "failed" ELSE "wait"

\* `serve_resume`: replay, then the tail, until the answer or the connection ends.
\* The look at the stop is before the take, so one more take may follow a stop;
\* what was taken is a part of a log that only grows, and is written as it was.
Follow(c) ==
  /\ conn[c].at = "tail"
  /\ LET j == conn[c].job
         takes == Take(j, conn[c].cursor) IN
     \/ /\ Stopped(j)
        /\ Ends(c) /\ Hangs(c) /\ UNCHANGED <<got, whole>>
     \/ /\ takes = "events"
        /\ \E ok \in BOOLEAN :
             /\ Write(j, c, conn[c].cursor, ok)
             /\ IF ok THEN conn' = [conn EXCEPT ![c].cursor = job[j].len] ELSE Ends(c)
        /\ UNCHANGED whole
     \/ /\ takes = "events" /\ current[j] # c                    \* the write fails
        /\ Ends(c) /\ UNCHANGED <<current, got, whole>>
     \/ /\ takes \in {"drained", "failed"}
        /\ Ends(c) /\ Hangs(c)
        /\ whole' = IF takes = "drained" /\ current[j] = c THEN whole \union {j} ELSE whole
        /\ UNCHANGED got
     \/ /\ takes = "wait"                                        \* its lifetime is over
        /\ Ends(c) /\ Hangs(c) /\ UNCHANGED <<got, whole>>
  /\ UNCHANGED <<job, prod, kept, stopped>>

-----------------------------------------------------------------------------
\* `reap`
Reap(j) ==
  /\ j \in kept /\ Finished(j)
  /\ kept' = kept \ {j}
  /\ UNCHANGED <<job, prod, conn, stopped, current, got, whole>>

\* A device leaves the set, or the door closes on all of them, one by one: none
\* sees the other's. One that never asked and leaves is one that never asks.
Stop(d) ==
  /\ d \notin stopped
  /\ \E j \in Jobs : job[j].owner = d
  /\ stopped' = stopped \union {d}
  /\ UNCHANGED <<job, prod, conn, kept, current, got, whole>>

Producer(j) ==
  \/ Start(j) \/ Refuse(j) \/ WriteHead(j) \/ Loop(j) \/ GiveUp(j)
  \/ Read(j) \/ AppendEvent(j) \/ Serve(j) \/ Notice(j) \/ Finish(j) \/ Drain(j)

Resumed(c) == Find(c) \/ Decide(c) \/ ResumeHead(c) \/ Follow(c)

Next ==
  \/ \E j \in Jobs :
       \/ \E d \in Devices : Ask(j, d)
       \/ Producer(j) \/ Elapse(j) \/ Drop(j) \/ Reap(j)
       \/ \E c \in Conns : Resume(c, j)
  \/ \E c \in Conns : Resumed(c)
  \/ \E d \in Devices : Stop(d)

\* Each thread takes its steps, clocks run, and a socket whose client has left
\* is found out: the engine cannot talk for ever without the door writing to it,
\* nor be silent without the door looking at it.
Fairness ==
  /\ \A j \in Jobs : WF_vars(Producer(j)) /\ SF_vars(Notice(j)) /\ WF_vars(Elapse(j))
  /\ \A c \in Conns : WF_vars(Resumed(c))

Spec == Init /\ [][Next]_vars
FairSpec == Spec /\ Fairness

-----------------------------------------------------------------------------
(* Properties *)

Job == [owner : Devices \union {None}, len : 0 .. Roof,
        status : {"none", "running", "done"} \union Failures, attached : BOOLEAN, sent : Nat]
Producing == [at : {"new", "asked", "head", "loop", "giveup", "read", "append", "serve",
                    "finish", "drain", "ended"},
              cursor : 0 .. Roof, last : BOOLEAN, grace : {"none", "running", "over"}]
Resuming == [at : {"idle", "asked", "found", "head", "tail"},
             job : Jobs \union {None}, cursor : 0 .. Roof]

TypeOK ==
  /\ job \in [Jobs -> Job] /\ prod \in [Jobs -> Producing] /\ conn \in [Conns -> Resuming]
  /\ kept \subseteq Jobs /\ Cardinality(kept) <= MaxJobs
  /\ stopped \subseteq Devices /\ whole \subseteq Jobs
  /\ current \in [Jobs -> Jobs \union Conns \union {None}]
  /\ got \in [Jobs -> Seq(0 .. Roof - 1)]

\* However often its connection is lost, whatever of it was in flight, and
\* however many of its old connections the door still writes to, a client
\* receives an answer's events in order, without a hole and without one twice
\* (jobs.rs `take`, proxy.rs `resume`).
InOrder == \A j \in Jobs : \A i \in 1 .. Len(got[j]) : got[j][i] = i - 1

\* A client that followed an answer to a clean end has every event the engine
\* produced, and no event is ever added behind it (jobs.rs `append`, `take`).
WholeMeansWhole ==
  \A j \in whole : Len(got[j]) = job[j].len /\ job[j].len = job[j].sent

\* An answer that has ended keeps its log and its first verdict, whoever else
\* closes it or still produces it (jobs.rs `append`, `close`).
FrozenOnceEnded ==
  [][\A j \in Jobs : Finished(j) =>
       job'[j].status = job[j].status /\ job'[j].len = job[j].len]_vars

\* A running answer can be found by the client that comes back for it: no
\* arrival ever takes its place (registry.rs `make_room`).
RunningIsKept == \A j \in Jobs : Running(j) => j \in kept

\* The owner's next completion stops no answer a client still follows: neither
\* on the socket that asked nor on a connection the door has found it for
\* (registry.rs `abandon_detached`, `find_reading`).
SupersedeSparesFollowed ==
  [][\A j, k \in Jobs :
       (prod[k].at = "new" /\ prod'[k].at = "asked" /\ Running(j) /\ job'[j].status # "running")
         => current[j] = None \/ (current[j] \in Conns /\ conn[current[j]].at = "asked")]_vars

\* An answer whose client is gone is stopped in the end, unless the client comes
\* back, however long the engine could go on (stream.rs, the detached grace).
UnfollowedStops ==
  \A j \in Jobs : (Running(j) /\ current[j] = None) ~> (~Running(j) \/ current[j] # None)

\* No answer of a revoked device, or of a closing door, runs for ever, however
\* long its client listens and the engine talks (stream.rs, `Cancel::stopped`).
StoppedEnds ==
  \A j \in Jobs : (Running(j) /\ Stopped(j)) ~> ~Running(j)

\* "A failed answer already fully seen is refused rather than re-served as an
\* empty stream" (jobs.rs `resume_decision`).
FullySeenFailureRefused ==
  [][\A c \in Conns :
       (conn[c].at = "found" /\ conn'[c].at = "head")
         => ~(Failed(conn[c].job) /\ Len(got[conn[c].job]) = job[conn[c].job].len)]_vars
=============================================================================
