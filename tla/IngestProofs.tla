----------------------------- MODULE IngestProofs -----------------------------
(***************************************************************************)
(* Where a usage record is, for any requests, any of them malformed, and   *)
(* any capacity of the channel and of a batch.                             *)
(***************************************************************************)
EXTENDS Ingest, FiniteSetTheorems, SequenceTheorems, TLAPS

-----------------------------------------------------------------------------
(* The inductive invariant.  The property counts places; that a record is  *)
(* in one of them is kept by what each step knows of the others: the       *)
(* channel and the batch hold no record twice and share none, what has     *)
(* left them is in one of three disjoint sets, and all of it is done.      *)

Queued == {queue[i] : i \in 1..Len(queue)}
Batched == {batch[i] : i \in 1..Len(batch)}
Ended == stored \cup dropped \cup discarded

RecordsAreDistinct ==
  /\ \A i, j \in 1..Len(queue) : queue[i] = queue[j] => i = j
  /\ \A i, j \in 1..Len(batch) : batch[i] = batch[j] => i = j
  /\ Queued \cap Batched = {}

EndsAreDisjoint ==
  /\ Ended \cap (Queued \cup Batched) = {}
  /\ stored \cap dropped = {} /\ stored \cap discarded = {} /\ dropped \cap discarded = {}

DoneAreAccounted ==
  \A r \in Requests : request[r] = "done" <=> r \in Queued \cup Batched \cup Ended

(* A writer that is about to receive has room for one more record. *)
BatchHasRoom == writer \in {"receiving", "draining"} => Len(batch) < BatchSize

(* The writer drains only once it is cancelled, on the graceful path only  *)
(* after the last handler has returned, and then to the end of the channel.*)
DrainsAfterCancel == server \in {"up", "shutting down"} => writer \in {"receiving", "inserting"}
StopsAfterServing == server = "stopping" => Serving = {}
DrainsToTheEnd ==
  /\ server = "stopping" /\ writer \in {"last insert", "done"} => queue = <<>>
  /\ writer = "done" => batch = <<>>

Places == RecordsAreDistinct /\ EndsAreDisjoint /\ DoneAreAccounted
Order == DrainsAfterCancel /\ StopsAfterServing /\ DrainsToTheEnd
IInv == TypeOK /\ BatchHasRoom /\ Places /\ Order

LEMMA InitHolds == Init => IInv
<1> SUFFICES ASSUME Init PROVE IInv
  OBVIOUS
<1>1. queue = <<>> /\ batch = <<>> /\ Queued = {} /\ Batched = {} /\ Ended = {}
  BY DEF Init, Queued, Batched, Ended
<1>2. TypeOK /\ BatchHasRoom
  BY <1>1, IngestAssumption DEF Init, TypeOK, BatchHasRoom
<1>3. Places
  BY <1>1 DEF Init, Places, RecordsAreDistinct, EndsAreDisjoint, DoneAreAccounted
<1>4. Order
  BY <1>1 DEF Init, Order, DrainsAfterCancel, StopsAfterServing, DrainsToTheEnd
<1> QED
  BY <1>2, <1>3, <1>4 DEF IInv

-----------------------------------------------------------------------------
(* What the invariant says *)

(* A record waits at one place of channel and batch, or at none. *)
LEMMA WaitingOnce ==
  ASSUME TypeOK, RecordsAreDistinct, NEW r
  PROVE  /\ IsFiniteSet(Waiting(r))
         /\ Cardinality(Waiting(r)) = IF r \in Queued \cup Batched THEN 1 ELSE 0
<1> DEFINE both == queue \o batch
           n == Len(queue)
<1>1. /\ queue \in Seq(Requests) /\ batch \in Seq(Requests) /\ n \in Nat /\ Len(batch) \in Nat
      /\ DOMAIN both = 1..n + Len(batch)
      /\ \A i \in 1..n : both[i] = queue[i]
      /\ \A i \in n+1..n+Len(batch) : both[i] = batch[i - n]
  <2>1. queue \in Seq(Requests) /\ batch \in Seq(Requests)
    BY DEF TypeOK
  <2> QED
    BY <2>1, ConcatProperties, LenProperties
<1>2. Waiting(r) = {i \in 1..n + Len(batch) : both[i] = r}
  BY <1>1 DEF Waiting
<1> HIDE DEF both
<1>3. ASSUME NEW i \in Waiting(r), NEW j \in Waiting(r) PROVE i = j
  <2>1. i \in 1..n + Len(batch) /\ j \in 1..n + Len(batch) /\ both[i] = r /\ both[j] = r
    BY <1>2, <1>3
  <2>2. CASE i \in 1..n /\ j \in 1..n
    BY <1>1, <2>1, <2>2 DEF RecordsAreDistinct
  <2>3. CASE i \in n+1..n+Len(batch) /\ j \in n+1..n+Len(batch)
    <3>1. batch[i - n] = batch[j - n] /\ i - n \in 1..Len(batch) /\ j - n \in 1..Len(batch)
      BY <1>1, <2>1, <2>3
    <3>2. i - n = j - n
      BY <3>1 DEF RecordsAreDistinct
    <3> QED
      BY <1>1, <2>1, <3>2
  <2>4. ASSUME NEW k \in 1..n, both[k] = r PROVE r \in Queued
    BY <1>1, <2>4 DEF Queued
  <2>5. ASSUME NEW k \in n+1..n+Len(batch), both[k] = r PROVE r \in Batched
    <3>1. batch[k - n] = r /\ k - n \in 1..Len(batch)
      BY <1>1, <2>5
    <3> QED
      BY <3>1 DEF Batched
  <2> QED
    BY <1>1, <2>1, <2>2, <2>3, <2>4, <2>5 DEF RecordsAreDistinct
<1>4. CASE r \in Queued \cup Batched
  <2>1. \E i : i \in Waiting(r)
    <3>1. CASE r \in Queued
      <4>1. PICK i \in 1..n : queue[i] = r
        BY <3>1 DEF Queued
      <4> QED
        BY <1>1, <1>2, <4>1
    <3>2. CASE r \in Batched
      <4>1. PICK i \in 1..Len(batch) : batch[i] = r
        BY <3>2 DEF Batched
      <4>2. n + i \in n+1..n+Len(batch) /\ both[n + i] = batch[i]
        BY <1>1, <4>1
      <4>3. n + i \in 1..n + Len(batch)
        BY <1>1, <4>1
      <4> QED
        BY <1>2, <4>1, <4>2, <4>3
    <3> QED
      BY <1>4, <3>1, <3>2
  <2>2. PICK i : Waiting(r) = {i}
    BY <1>3, <2>1
  <2> QED
    BY <1>4, <2>2, FS_Singleton
<1>5. CASE r \notin Queued \cup Batched
  <2>1. ASSUME NEW i \in Waiting(r) PROVE FALSE
    <3>1. i \in 1..n + Len(batch) /\ both[i] = r
      BY <1>2
    <3>2. CASE i \in 1..n
      BY <1>1, <1>5, <3>1, <3>2 DEF Queued
    <3>3. CASE i \in n+1..n+Len(batch)
      <4>1. batch[i - n] = r /\ i - n \in 1..Len(batch)
        BY <1>1, <3>1, <3>3
      <4> QED
        BY <1>5, <4>1 DEF Batched
    <3> QED
      BY <1>1, <3>1, <3>2, <3>3
  <2>2. Waiting(r) = {}
    BY <2>1
  <2> QED
    BY <1>5, <2>2, FS_EmptySet
<1> QED
  BY <1>4, <1>5

(* It has ended in one way, or in none. *)
LEMMA EndedOnce ==
  ASSUME EndsAreDisjoint, NEW r
  PROVE  Cardinality({e \in DOMAIN Ends : r \in Ends[e]}) = IF r \in Ended THEN 1 ELSE 0
<1> DEFINE E == {e \in DOMAIN Ends : r \in Ends[e]}
<1>1. /\ DOMAIN Ends = {"stored", "dropped", "discarded"}
      /\ Ends["stored"] = stored /\ Ends["dropped"] = dropped /\ Ends["discarded"] = discarded
  BY DEF Ends
<1>2. CASE r \in stored
  <2>1. E = {"stored"}
    BY <1>1, <1>2 DEF EndsAreDisjoint
  <2> QED
    BY <1>2, <2>1, FS_Singleton DEF Ended
<1>3. CASE r \in dropped
  <2>1. E = {"dropped"}
    BY <1>1, <1>3 DEF EndsAreDisjoint
  <2> QED
    BY <1>3, <2>1, FS_Singleton DEF Ended
<1>4. CASE r \in discarded
  <2>1. E = {"discarded"}
    BY <1>1, <1>4 DEF EndsAreDisjoint
  <2> QED
    BY <1>4, <2>1, FS_Singleton DEF Ended
<1>5. CASE r \notin Ended
  <2>1. E = {}
    BY <1>1, <1>5 DEF Ended
  <2> QED
    BY <1>5, <2>1, FS_EmptySet
<1> QED
  BY <1>2, <1>3, <1>4, <1>5 DEF Ended

LEMMA OnePlaceFollows == IInv => EveryRecordIsInOnePlace
<1> SUFFICES ASSUME IInv, NEW r \in Requests
             PROVE  Cardinality(Waiting(r)) + Cardinality({e \in DOMAIN Ends : r \in Ends[e]})
                      = IF request[r] = "done" THEN 1 ELSE 0
  BY DEF EveryRecordIsInOnePlace
<1>1. Cardinality(Waiting(r)) = IF r \in Queued \cup Batched THEN 1 ELSE 0
  BY WaitingOnce DEF IInv, Places
<1>2. Cardinality({e \in DOMAIN Ends : r \in Ends[e]}) = IF r \in Ended THEN 1 ELSE 0
  BY EndedOnce DEF IInv, Places
<1>3. request[r] = "done" <=> r \in Queued \cup Batched \cup Ended
  BY DEF IInv, Places, DoneAreAccounted
<1>4. ~(r \in Queued \cup Batched /\ r \in Ended)
  BY DEF IInv, Places, EndsAreDisjoint
<1> QED
  BY <1>1, <1>2, <1>3, <1>4

LEMMA GracefulFollows == IInv => GracefulStopFlushesAll
  BY DEF IInv, Order, StopsAfterServing, DrainsToTheEnd, GracefulStopFlushesAll, WriterDone

-----------------------------------------------------------------------------
(* Steps that move no record: the places are the same. *)
LEMMA PlacesStay ==
  ASSUME Places, UNCHANGED <<queue, batch, stored, dropped, discarded>>,
         \A r \in Requests : request'[r] = "done" <=> request[r] = "done"
  PROVE  Places'
  BY DEF Places, RecordsAreDistinct, EndsAreDisjoint, DoneAreAccounted, Queued, Batched, Ended

LEMMA AcceptStep == ASSUME IInv, NEW r \in Requests, Accept(r) PROVE IInv'
<1>1. TypeOK' /\ BatchHasRoom'
  BY DEF IInv, TypeOK, BatchHasRoom, Accept
<1>2. Places'
  <2>1. \A q \in Requests : request'[q] = "done" <=> request[q] = "done"
    BY DEF IInv, TypeOK, Accept
  <2> QED
    BY <2>1, PlacesStay DEF IInv, Accept
<1>3. Order'
  BY DEF IInv, Order, Accept, DrainsAfterCancel, StopsAfterServing, DrainsToTheEnd
<1> QED
  BY <1>1, <1>2, <1>3 DEF IInv

(* The writer and the server change what they are doing. *)
LEMMA WriterMoves ==
  ASSUME IInv, FlushTick \/ BeginDrain \/ EndDrain
  PROVE  IInv'
<1>1. UNCHANGED <<request, queue, batch, server, stored, dropped, discarded>>
  BY DEF FlushTick, BeginDrain, EndDrain
<1>2. TypeOK' /\ BatchHasRoom'
  BY <1>1 DEF IInv, TypeOK, BatchHasRoom, FlushTick, BeginDrain, EndDrain, SeeCancelled
<1>3. Places'
  BY <1>1, PlacesStay DEF IInv
<1>4. Order'
  BY <1>1 DEF IInv, Order, DrainsAfterCancel, StopsAfterServing, Serving, DrainsToTheEnd, Cancelled,
     FlushTick, BeginDrain, EndDrain, SeeCancelled
<1> QED
  BY <1>2, <1>3, <1>4 DEF IInv

LEMMA ServerMoves ==
  ASSUME IInv, Shutdown \/ StopWriter \/ ShutdownTimesOut \/ ListenFails \/ Exit
  PROVE  IInv'
<1>1. UNCHANGED <<request, queue, batch, writer, stored, dropped, discarded>>
  BY DEF Shutdown, StopWriter, ShutdownTimesOut, ListenFails, Exit, Move
<1>2. TypeOK' /\ BatchHasRoom'
  BY <1>1 DEF IInv, TypeOK, BatchHasRoom, Shutdown, StopWriter, ShutdownTimesOut, ListenFails, Exit, Move
<1>3. Places'
  BY <1>1, PlacesStay DEF IInv
<1>4. Order'
  BY <1>1 DEF IInv, Order, DrainsAfterCancel, StopsAfterServing, Serving, DrainsToTheEnd, Drained,
     Shutdown, StopWriter, ShutdownTimesOut, ListenFails, Exit, Move
<1> QED
  BY <1>2, <1>3, <1>4 DEF IInv

-----------------------------------------------------------------------------
(* Steps that move a record *)

LEMMA EmitStep == ASSUME IInv, NEW r \in Requests, Emit(r) PROVE IInv'
<1>1. /\ request[r] = "serving" /\ request' = [request EXCEPT ![r] = "done"]
      /\ UNCHANGED <<batch, writer, server, stored, discarded>> /\ server # "exited"
  BY DEF Emit
<1>2. TypeOK /\ r \notin Queued \cup Batched \cup Ended
  BY <1>1 DEF IInv, Places, DoneAreAccounted
<1>3. request'[r] = "done" /\ \A q \in Requests \ {r} : request'[q] = request[q]
  BY <1>1, <1>2 DEF TypeOK
<1>4. CASE Len(queue) < Capacity /\ queue' = Append(queue, r) /\ UNCHANGED dropped
  <2>1. /\ queue' \in Seq(Requests) /\ Len(queue') = Len(queue) + 1 /\ Len(queue) \in Nat
        /\ \A i \in 1..Len(queue) : queue'[i] = queue[i]
        /\ queue'[Len(queue) + 1] = r
    <3>1. queue \in Seq(Requests)
      BY <1>2 DEF TypeOK
    <3> QED
      BY <1>4, <3>1
  <2>2. TypeOK' /\ BatchHasRoom'
    <3>1. Len(queue') <= Capacity
      BY <1>4, <2>1, IngestAssumption
    <3> QED
      BY <1>1, <1>2, <1>4, <2>1, <3>1 DEF IInv, TypeOK, BatchHasRoom
  <2>3. Queued' = Queued \cup {r} /\ Batched' = Batched /\ Ended' = Ended
    <3>1. ASSUME NEW i \in 1..Len(queue') PROVE queue'[i] \in Queued \cup {r}
      BY <2>1 DEF Queued
    <3>2. \A i \in 1..Len(queue) : queue[i] \in Queued'
      BY <2>1 DEF Queued
    <3>3. r \in Queued'
      BY <2>1 DEF Queued
    <3> QED
      BY <1>1, <1>4, <3>1, <3>2, <3>3 DEF Queued, Batched, Ended
  <2>4. \A i \in 1..Len(queue) : queue[i] # r
    BY <1>2 DEF Queued
  <2>5. \A i, j \in 1..Len(queue') : queue'[i] = queue'[j] => i = j
    BY <2>1, <2>4 DEF IInv, Places, RecordsAreDistinct
  <2>6. Places'
    <3>1. RecordsAreDistinct'
      BY <1>1, <1>2, <2>3, <2>5 DEF IInv, Places, RecordsAreDistinct
    <3>2. EndsAreDisjoint'
      BY <1>1, <1>2, <1>4, <2>3 DEF IInv, Places, EndsAreDisjoint
    <3>3. DoneAreAccounted'
      BY <1>3, <2>3 DEF IInv, Places, DoneAreAccounted
    <3> QED
      BY <3>1, <3>2, <3>3 DEF Places
  <2>7. Order'
    BY <1>1, <1>2 DEF IInv, Order, DrainsAfterCancel, StopsAfterServing, Serving, DrainsToTheEnd, TypeOK
  <2> QED
    BY <2>2, <2>6, <2>7 DEF IInv
<1>5. CASE Len(queue) = Capacity /\ dropped' = dropped \cup {r} /\ UNCHANGED queue
  <2>1. TypeOK' /\ BatchHasRoom'
    BY <1>1, <1>2, <1>5 DEF IInv, TypeOK, BatchHasRoom
  <2>2. Queued' = Queued /\ Batched' = Batched /\ Ended' = Ended \cup {r}
    BY <1>1, <1>5 DEF Queued, Batched, Ended
  <2>3. Places'
    <3>1. RecordsAreDistinct'
      BY <1>1, <1>5, <2>2 DEF IInv, Places, RecordsAreDistinct
    <3>2. EndsAreDisjoint'
      BY <1>1, <1>2, <1>5, <2>2 DEF IInv, Places, EndsAreDisjoint, Ended
    <3>3. DoneAreAccounted'
      BY <1>3, <2>2 DEF IInv, Places, DoneAreAccounted
    <3> QED
      BY <3>1, <3>2, <3>3 DEF Places
  <2>4. Order'
    BY <1>1, <1>2, <1>5 DEF IInv, Order, DrainsAfterCancel, StopsAfterServing, Serving, DrainsToTheEnd, TypeOK
  <2> QED
    BY <2>1, <2>3, <2>4 DEF IInv
<1> QED
  BY <1>4, <1>5 DEF Emit, Enqueue

LEMMA TakeStep == ASSUME IInv, Receive \/ Drain PROVE IInv'
<1> DEFINE r == Head(queue)
<1>1. /\ queue # <<>> /\ batch' = Append(batch, r) /\ queue' = Tail(queue)
      /\ UNCHANGED <<request, server, stored, dropped, discarded>>
      /\ writer \in {"receiving", "draining"}
      /\ writer' = IF Len(batch') >= BatchSize
                   THEN IF writer = "receiving" THEN "inserting" ELSE "inserting while draining"
                   ELSE writer
  BY DEF Receive, Drain, Take
<1>2. TypeOK /\ queue \in Seq(Requests) /\ batch \in Seq(Requests) /\ Len(batch) < BatchSize
  BY <1>1 DEF IInv, TypeOK, BatchHasRoom
<1>3. /\ Len(queue) \in Nat \ {0} /\ r \in Requests /\ r = queue[1]
      /\ queue' \in Seq(Requests) /\ Len(queue') = Len(queue) - 1
      /\ \A i \in 1..Len(queue') : queue'[i] = queue[i + 1]
  <2>1. queue \in Seq(Requests)
    BY <1>2
  <2>2. Head(queue) \in Requests /\ Tail(queue) \in Seq(Requests)
        /\ Len(Tail(queue)) = Len(queue) - 1 /\ Len(queue) \in Nat \ {0}
        /\ \A i \in 1..Len(Tail(queue)) : Tail(queue)[i] = queue[i + 1]
    BY <1>1, <2>1, HeadTailProperties, EmptySeq
  <2>3. Head(queue) = queue[1]
    BY <2>1, <2>2, HeadTailOfSubSeq, SubSeqFull
  <2> QED
    BY <1>1, <2>2, <2>3
<1>4. /\ batch' \in Seq(Requests) /\ Len(batch') = Len(batch) + 1 /\ Len(batch) \in Nat
      /\ \A i \in 1..Len(batch) : batch'[i] = batch[i]
      /\ batch'[Len(batch) + 1] = r
  <2>1. batch \in Seq(Requests)
    BY <1>2
  <2>2. batch' = Append(batch, r) /\ r \in Requests
    BY <1>1, <1>3
  <2> HIDE DEF r
  <2> QED
    BY <2>1, <2>2, AppendProperties, LenProperties
<1> HIDE DEF r
<1>5. TypeOK' /\ BatchHasRoom'
  <2>1. Len(queue') <= Capacity /\ Len(batch') <= BatchSize
    <3>1. Len(queue) <= Capacity /\ Capacity \in Nat /\ BatchSize \in Nat
      BY <1>2, IngestAssumption DEF TypeOK
    <3> QED
      BY <1>2, <1>3, <1>4, <3>1
  <2>2. writer' \in {"receiving", "draining"} => Len(batch') < BatchSize
    <3>1. Len(batch') \in Nat /\ BatchSize \in Nat
      BY <1>4, IngestAssumption
    <3>2. Len(batch') >= BatchSize => writer' \in {"inserting", "inserting while draining"}
      BY <1>1
    <3>3. Len(batch') >= BatchSize \/ Len(batch') < BatchSize
      BY <3>1
    <3> QED
      BY <3>2, <3>3
  <2> QED
    BY <1>1, <1>2, <1>3, <1>4, <2>1, <2>2 DEF TypeOK, BatchHasRoom
<1>6. /\ \A i, j \in 1..Len(queue) : queue[i] = queue[j] => i = j
      /\ \A i, j \in 1..Len(batch) : batch[i] = batch[j] => i = j
      /\ Queued \cap Batched = {}
  BY DEF IInv, Places, RecordsAreDistinct
<1>7. r \in Queued /\ r \notin Batched
  BY <1>3, <1>6 DEF Queued
<1>8. Queued' = Queued \ {r} /\ Batched' = Batched \cup {r} /\ Ended' = Ended
  <2>1. ASSUME NEW i \in 1..Len(queue') PROVE queue'[i] \in Queued \ {r}
    <3>1. i + 1 \in 1..Len(queue) /\ i + 1 # 1 /\ 1 \in 1..Len(queue)
      BY <1>3
    <3> QED
      BY <1>3, <1>6, <3>1 DEF Queued
  <2>2. ASSUME NEW i \in 1..Len(queue), queue[i] # r PROVE queue[i] \in Queued'
    <3>1. i - 1 \in 1..Len(queue') /\ queue'[i - 1] = queue[i]
      BY <1>3, <2>2
    <3> QED
      BY <3>1 DEF Queued
  <2>3. \A i \in 1..Len(batch') : batch'[i] \in Batched \cup {r}
    BY <1>4 DEF Batched
  <2>4. r \in Batched' /\ \A i \in 1..Len(batch) : batch[i] \in Batched'
    BY <1>4 DEF Batched
  <2> QED
    <3>1. Queued' = Queued \ {r}
      BY <2>1, <2>2 DEF Queued
    <3>2. Batched' = Batched \cup {r}
      BY <2>3, <2>4 DEF Batched
    <3> QED
      BY <1>1, <3>1, <3>2 DEF Ended
<1>9. Places'
  <2>1. \A i, j \in 1..Len(queue') : queue'[i] = queue'[j] => i = j
    <3> SUFFICES ASSUME NEW i \in 1..Len(queue'), NEW j \in 1..Len(queue'), queue'[i] = queue'[j]
                 PROVE  i = j
      OBVIOUS
    <3>1. i + 1 \in 1..Len(queue) /\ j + 1 \in 1..Len(queue) /\ queue[i + 1] = queue[j + 1]
      BY <1>3
    <3>2. i + 1 = j + 1
      BY <1>6, <3>1
    <3> QED
      BY <3>2
  <2>2. \A i \in 1..Len(batch) : batch[i] # r
    BY <1>7 DEF Batched
  <2>3. \A i, j \in 1..Len(batch') : batch'[i] = batch'[j] => i = j
    BY <1>4, <1>6, <2>2
  <2>4. RecordsAreDistinct'
    BY <1>6, <1>8, <2>1, <2>3 DEF RecordsAreDistinct
  <2>5. EndsAreDisjoint' /\ DoneAreAccounted'
    BY <1>1, <1>7, <1>8 DEF IInv, Places, EndsAreDisjoint, DoneAreAccounted
  <2> QED
    BY <2>4, <2>5 DEF Places
<1>10. Order'
  BY <1>1, <1>2 DEF IInv, Order, DrainsAfterCancel, StopsAfterServing, Serving, DrainsToTheEnd
<1> QED
  BY <1>5, <1>9, <1>10 DEF IInv

LEMMA InsertStep == ASSUME IInv, Insert PROVE IInv'
<1>1. PICK ok \in Outcomes(Range(batch)) :
        stored' = stored \cup ok /\ discarded' = discarded \cup (Range(batch) \ ok)
  BY DEF Insert
<1>2. /\ batch' = <<>> /\ UNCHANGED <<request, queue, server, dropped>>
      /\ writer \in {"inserting", "inserting while draining", "last insert"}
      /\ writer' = AfterInsert
  BY DEF Insert, ClearBatch
<1>3. TypeOK /\ Range(batch) = Batched /\ Batched \subseteq Requests
  <2>1. TypeOK /\ batch \in Seq(Requests)
    BY DEF IInv, TypeOK
  <2>2. DOMAIN batch = 1..Len(batch) /\ batch \in [1..Len(batch) -> Requests]
    BY <2>1, LenProperties
  <2> QED
    BY <2>1, <2>2 DEF Range, Batched
<1>4. ok \subseteq Batched
  BY <1>3 DEF Outcomes
<1>5. Queued' = Queued /\ Batched' = {} /\ Ended' = Ended \cup Batched
  <2>1. Queued' = Queued
    BY <1>2 DEF Queued
  <2>2. Batched' = {}
    <3>1. Len(batch') = 0
      BY <1>2, EmptySeq
    <3> QED
      BY <3>1 DEF Batched
  <2> QED
    BY <1>1, <1>2, <1>3, <1>4, <2>1, <2>2 DEF Ended
<1>6. writer' = CASE writer = "inserting" -> "receiving"
                  [] writer = "inserting while draining" -> "draining"
                  [] writer = "last insert" -> "done"
  BY <1>2 DEF AfterInsert
<1>7. TypeOK' /\ BatchHasRoom'
  <2>1. batch' \in Seq(Requests) /\ Len(batch') = 0
    BY <1>2, EmptySeq
  <2>2. BatchHasRoom'
    BY <2>1, IngestAssumption DEF BatchHasRoom
  <2>3. stored' \subseteq Requests /\ discarded' \subseteq Requests
    BY <1>1, <1>3, <1>4 DEF TypeOK
  <2>4. writer' \in {"receiving", "draining", "done"}
    BY <1>2, <1>6
  <2>5. Len(batch') <= BatchSize
    BY <2>1, IngestAssumption
  <2> QED
    BY <1>2, <1>3, <2>1, <2>2, <2>3, <2>4, <2>5 DEF TypeOK
<1>8. Places'
  <2>1. RecordsAreDistinct'
    <3>1. Len(batch') = 0
      BY <1>2, EmptySeq
    <3>2. \A i, j \in 1..Len(batch') : batch'[i] = batch'[j] => i = j
      BY <3>1
    <3> QED
      BY <1>2, <1>5, <3>2 DEF IInv, Places, RecordsAreDistinct
  <2>2. EndsAreDisjoint'
    BY <1>1, <1>2, <1>3, <1>4, <1>5 DEF IInv, Places, EndsAreDisjoint, RecordsAreDistinct, Ended
  <2>3. DoneAreAccounted'
    BY <1>2, <1>5 DEF IInv, Places, DoneAreAccounted
  <2> QED
    BY <2>1, <2>2, <2>3 DEF Places
<1>9. Order'
  BY <1>2, <1>6 DEF IInv, Order, DrainsAfterCancel, StopsAfterServing, Serving, DrainsToTheEnd
<1> QED
  BY <1>7, <1>8, <1>9 DEF IInv

-----------------------------------------------------------------------------
LEMMA NextStep == IInv /\ [Next]_vars => IInv'
<1> SUFFICES ASSUME IInv, [Next]_vars PROVE IInv'
  OBVIOUS
<1>1. ASSUME UNCHANGED vars PROVE IInv'
  <2>1. Places'
    BY <1>1, PlacesStay DEF vars, IInv
  <2>2. TypeOK' /\ BatchHasRoom'
    BY <1>1 DEF vars, IInv, TypeOK, BatchHasRoom
  <2>3. Order'
    BY <1>1 DEF vars, IInv, Order, DrainsAfterCancel, StopsAfterServing, Serving, DrainsToTheEnd
  <2> QED
    BY <2>1, <2>2, <2>3 DEF IInv
<1> QED
  BY <1>1, AcceptStep, EmitStep, TakeStep, InsertStep, WriterMoves, ServerMoves DEF Next

LEMMA InvCorrect == Spec => []IInv
  BY InitHolds, NextStep, PTL DEF Spec

(* Channel and batch keep to their capacities and everything to its type. *)
THEOREM TypeCorrect == Spec => []TypeOK
<1>1. IInv => TypeOK
  BY DEF IInv
<1> QED
  BY <1>1, InvCorrect, PTL

(* No record is lost uncounted or inserted twice on its way, whenever the  *)
(* writer flushes, the database fails or the process is shut down.         *)
THEOREM OnePlaceCorrect == Spec => []EveryRecordIsInOnePlace
  BY InvCorrect, OnePlaceFollows, PTL

(* A graceful shutdown leaves nothing in memory. *)
THEOREM GracefulStopCorrect == Spec => []GracefulStopFlushesAll
  BY InvCorrect, GracefulFollows, PTL
=============================================================================
