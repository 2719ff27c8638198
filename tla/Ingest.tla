-------------------------------- MODULE Ingest --------------------------------
(***************************************************************************)
(* The way of a usage record from the request that made it to a row in     *)
(* Postgres: Server.emit, ingest.Queue, ingest.Writer, Requests.InsertBatch*)
(* and the shutdown sequence of cmd/fluxen.                                *)
(*                                                                         *)
(* A request stands for the one record it emits.  The queue is a buffered  *)
(* channel; the writer keeps a batch of its own and is away from the queue *)
(* while it inserts.  An insert that fails, for as long as the database is *)
(* down or for a record Postgres refuses, is logged and not repeated.      *)
(***************************************************************************)
EXTENDS Integers, Sequences, FiniteSets, Functions

CONSTANTS
  Requests,   \* requests ever served
  Malformed,  \* those whose record Postgres refuses
  Capacity,   \* DefaultQueueSize
  BatchSize   \* DefaultBatchSize

ASSUME IngestAssumption ==
  /\ Malformed \subseteq Requests
  /\ Capacity \in Nat \ {0} /\ BatchSize \in Nat \ {0}

VARIABLES
  request,    \* where each request stands
  queue,      \* the channel
  batch,      \* the writer's buf
  writer,     \* what the writer is doing
  server,     \* where cmd/fluxen's run stands
  stored,     \* rows of the requests table
  dropped,    \* records Enqueue refused, which the counter counts
  discarded   \* records of a batch whose insert failed, which only a log shows

vars == <<request, queue, batch, writer, server, stored, dropped, discarded>>

(* stopWriter has cancelled the writer's context. *)
Cancelled == server \in {"stopping", "leaving", "failing"}

Init ==
  /\ request = [r \in Requests |-> "none"]
  /\ queue = <<>>
  /\ batch = <<>>
  /\ writer = "receiving"
  /\ server = "up"
  /\ stored = {} /\ dropped = {} /\ discarded = {}

-----------------------------------------------------------------------------
(* Requests *)

Accept(r) ==
  /\ server = "up"
  /\ request[r] = "none"
  /\ request' = [request EXCEPT ![r] = "serving"]
  /\ UNCHANGED <<queue, batch, writer, server, stored, dropped, discarded>>

(* Enqueue never blocks: a record that does not fit is dropped. *)
Enqueue_Blocking(r) ==
  /\ Len(queue) < Capacity
  /\ queue' = Append(queue, r)
  /\ UNCHANGED dropped
Enqueue_Uncounted(r) ==
  /\ queue' = IF Len(queue) < Capacity THEN Append(queue, r) ELSE queue
  /\ UNCHANGED dropped
Enqueue_Evicting(r) ==
  /\ queue' = Append(queue, r)
  /\ UNCHANGED dropped
Enqueue(r) ==
  \/ /\ Len(queue) < Capacity
     /\ queue' = Append(queue, r)
     /\ UNCHANGED dropped
  \/ /\ Len(queue) = Capacity
     /\ dropped' = dropped \cup {r}
     /\ UNCHANGED queue

(* emit, once, on whichever path the request takes out of the pipeline. *)
Emit(r) ==
  /\ request[r] = "serving" /\ server # "exited"
  /\ Enqueue(r)
  /\ request' = [request EXCEPT ![r] = "done"]
  /\ UNCHANGED <<batch, writer, server, stored, discarded>>

-----------------------------------------------------------------------------
(* Writer.Run *)

Running == server # "exited"

(* A record is received.  A full batch is inserted, in the loop and while  *)
(* draining alike.                                                         *)
Take(then) ==
  /\ queue # <<>>
  /\ batch' = Append(batch, Head(queue))
  /\ queue' = Tail(queue)
  /\ writer' = IF Len(batch') >= BatchSize THEN then ELSE writer
  /\ UNCHANGED <<request, server, stored, dropped, discarded>>

Receive == Running /\ writer = "receiving" /\ Take("inserting")

DueByTime_FullOnly == Len(batch) >= BatchSize
DueByTime == batch # <<>>

(* The ticker: whatever there is, is inserted. *)
FlushTick ==
  /\ Running /\ writer = "receiving" /\ DueByTime
  /\ writer' = "inserting"
  /\ UNCHANGED <<request, queue, batch, server, stored, dropped, discarded>>

(* The select may take the cancellation at any time, a full channel or not. *)
SeeCancelled_Leave == writer' = "last insert"
SeeCancelled == writer' = "draining"

BeginDrain ==
  /\ Running /\ writer = "receiving" /\ Cancelled
  /\ SeeCancelled
  /\ UNCHANGED <<request, queue, batch, server, stored, dropped, discarded>>

Drain == Running /\ writer = "draining" /\ Take("inserting while draining")

(* The channel is empty: the last batch is inserted and the writer ends. *)
EndDrain ==
  /\ Running /\ writer = "draining" /\ queue = <<>>
  /\ writer' = "last insert"
  /\ UNCHANGED <<request, queue, batch, server, stored, dropped, discarded>>

AfterInsert ==
  CASE writer = "inserting" -> "receiving"
    [] writer = "inserting while draining" -> "draining"
    [] writer = "last insert" -> "done"

(* What may have been stored of a batch.  The statements of a pgx batch    *)
(* run in one implicit transaction: one refused record takes the others    *)
(* with it.  So does a database that is down or slow, except that its      *)
(* answer may be late for a transaction that did commit.                   *)
Outcomes(records) ==
  IF records \cap Malformed = {} THEN {{}, records} ELSE {{}}

ClearBatch == batch' = <<>>

(* flush: the batch is emptied whether it was stored or not. *)
Insert ==
  /\ Running
  /\ writer \in {"inserting", "inserting while draining", "last insert"}
  /\ \E ok \in Outcomes(Range(batch)) :
       /\ stored' = stored \cup ok
       /\ discarded' = discarded \cup (Range(batch) \ ok)
  /\ ClearBatch
  /\ writer' = AfterInsert
  /\ UNCHANGED <<request, queue, server, dropped>>

-----------------------------------------------------------------------------
(* cmd/fluxen: run *)

Serving == {r \in Requests : request[r] = "serving"}

Move(to) ==
  /\ server' = to
  /\ UNCHANGED <<request, queue, batch, writer, stored, dropped, discarded>>

(* The signal: srv.Shutdown stops accepting and waits. *)
Shutdown == server = "up" /\ Move("shutting down")

(* All handlers have returned: stopWriter, and the wait for the writer. *)
Drained == Serving = {}

StopWriter == server = "shutting down" /\ Drained /\ Move("stopping")

(* Shutdown's 10 s pass with a handler still at work: run returns the      *)
(* error, its deferred stopWriter cancels the writer, and nobody waits.    *)
ShutdownTimesOut == server = "shutting down" /\ Serving # {} /\ Move("leaving")

(* The listener fails, and run returns in the same way. *)
ListenFails == server = "up" /\ Move("failing")

WriterDone == writer = "done"

(* The process ends: after the writer, after 5 s of waiting for it, or     *)
(* right away on the error path.                                           *)
Exit ==
  /\ Cancelled
  /\ Move("exited")

-----------------------------------------------------------------------------

Next ==
  \/ \E r \in Requests : Accept(r) \/ Emit(r)
  \/ Receive \/ FlushTick \/ BeginDrain \/ Drain \/ EndDrain \/ Insert
  \/ Shutdown \/ StopWriter \/ ShutdownTimesOut \/ ListenFails \/ Exit

Spec == Init /\ [][Next]_vars

RequestFairness == \A r \in Requests : WF_vars(Emit(r))

(* The writer is scheduled, its ticker ticks, its inserts end within 5 s.  *)
(* Go's select picks among the cases that are ready at random.             *)
WriterFairness ==
  /\ WF_vars(Receive) /\ WF_vars(FlushTick) /\ WF_vars(Insert)
  /\ WF_vars(BeginDrain) /\ WF_vars(Drain) /\ WF_vars(EndDrain)

(* Handlers go on; the database and the writer may hang forever. *)
FairSpec == Spec /\ RequestFairness

-----------------------------------------------------------------------------
(* Properties *)

(* Every variable has its type; the channel and the batch keep to their    *)
(* capacities.                                                             *)
TypeOK ==
  /\ request \in [Requests -> {"none", "serving", "done"}]
  /\ queue \in Seq(Requests) /\ Len(queue) <= Capacity
  /\ batch \in Seq(Requests) /\ Len(batch) <= BatchSize
  /\ writer \in {"receiving", "inserting", "draining", "inserting while draining",
                 "last insert", "done"}
  /\ server \in {"up", "shutting down", "stopping", "leaving", "failing",
                 "exited"}
  /\ stored \subseteq Requests /\ dropped \subseteq Requests /\ discarded \subseteq Requests

Waiting(r) ==
  LET both == queue \o batch IN {i \in DOMAIN both : both[i] = r}

Ends == [stored |-> stored, dropped |-> dropped, discarded |-> discarded]

(***************************************************************************)
(* The record of a request that is done is in exactly one place: waiting   *)
(* in the channel or the batch, or stored, or counted as dropped, or       *)
(* discarded with its batch.  None is inserted twice, none disappears      *)
(* uncounted between the request and the writer.                           *)
(***************************************************************************)
EveryRecordIsInOnePlace ==
  \A r \in Requests :
    Cardinality(Waiting(r)) + Cardinality({e \in DOMAIN Ends : r \in Ends[e]})
      = IF request[r] = "done" THEN 1 ELSE 0

(* A writer that has ended after a graceful shutdown has left nothing: the *)
(* comments of main.go and writer.go promise that what was accepted is     *)
(* flushed.                                                                *)
GracefulStopFlushesAll ==
  server = "stopping" /\ WriterDone => queue = <<>> /\ batch = <<>> /\ Serving = {}

(* No request waits for the writer: it ends although nothing else in the   *)
(* specification is fair.                                                  *)
RequestsNeverStall ==
  \A r \in Requests :
    request[r] = "serving" ~> (request[r] = "done" \/ server = "exited")

(* A record does not stay in memory if the writer is scheduled: it is      *)
(* stored, or given up, or the process is failing or gone.                 *)
RecordsReachTheDatabase ==
  WriterFairness =>
    \A r \in Requests :
      (r \in Range(queue) \cup Range(batch)) ~>
        (r \in stored \cup discarded \/ server \in {"leaving", "failing", "exited"})

-----------------------------------------------------------------------------
(* What comments promise, and the code does not keep *)

(* A shutdown flushes the ingest buffer, also the one that times out. *)
ShutdownFlushes ==
  [][server = "leaving" /\ server' = "exited" => queue = <<>> /\ batch = <<>>]_vars
=============================================================================
