------------------------- MODULE PolicySnapshotProofs -------------------------
(***************************************************************************)
(* What PolicySnapshot keeps for any number of processes, readers, writers *)
(* and versions, any TTL and any time a query may take.                    *)
(***************************************************************************)
EXTENDS PolicySnapshot, TLAPS

-----------------------------------------------------------------------------
(* The inductive invariant: a version is not yet superseded while it is    *)
(* the current one; a query's version was superseded no longer ago than    *)
(* the query is old; an entry's no longer than its age and one query.      *)

CurrentIsNotBehind == \A v \in current .. MaxVersion : behind[v] = 0

QueriesAreYoung ==
  \A g \in Processes \X Readers :
    read[g].phase = "filling" /\ read[g].version < current =>
      behind[read[g].version] <= read[g].age

EntriesAreYoung ==
  \A p \in Processes :
    Fresh(cache[p]) =>
      /\ cache[p].version >= 0
      /\ cache[p].version < current =>
           behind[cache[p].version] <= cache[p].age + ReadTime

Reads == [phase : {"idle", "querying", "filling"}, version : 0 .. current,
          age : 0 .. ReadTime, overtaken : BOOLEAN]

IInv ==
  TypeOK /\ CurrentIsNotBehind /\ QueriesAreYoung /\ EntriesAreYoung

(* What the ages of PolicySnapshot do in a tick. *)
LEMMA OlderFact ==
  ASSUME NEW limit \in Nat, NEW age \in 0 .. limit + 1
  PROVE  /\ Older(age, limit) \in 0 .. limit + 1
         /\ Older(age, limit) <= age + 1
         /\ age <= limit => Older(age, limit) = age + 1
         /\ Older(age, limit) <= limit => age + 1 = Older(age, limit)
  BY DEF Older

LEMMA InitStep == Init => IInv
  BY SnapshotAssumption
  DEF Init, IInv, TypeOK, CurrentIsNotBehind, QueriesAreYoung, EntriesAreYoung,
      Fresh, NoEntry, IdleRead, IdleWrite, StalenessBound

LEMMA TickStep == IInv /\ Tick => IInv'
<1> SUFFICES ASSUME IInv, Tick PROVE IInv'
  OBVIOUS
<1> USE SnapshotAssumption
<1>a. StalenessBound \in Nat
  BY DEF StalenessBound
<1>b. behind \in [0 .. MaxVersion -> 0 .. StalenessBound + 1] /\ current \in 0 .. MaxVersion
  BY DEF IInv, TypeOK
<1>1. \A v \in 0 .. MaxVersion :
        /\ behind'[v] \in 0 .. StalenessBound + 1
        /\ behind[v] \in Int /\ behind'[v] \in Int
        /\ behind'[v] <= behind[v] + 1
        /\ v >= current => behind'[v] = 0
  BY <1>a, <1>b, OlderFact DEF Tick
<1>2. \A p \in Processes :
        /\ cache'[p] \in [version : -1 .. current, age : 0 .. TTL + 1, overtaken : BOOLEAN]
        /\ Fresh(cache'[p]) => /\ Fresh(cache[p])
                               /\ cache'[p].version = cache[p].version
                               /\ cache'[p].age = cache[p].age + 1
  <2> TAKE p \in Processes
  <2>0. cache[p] \in [version : -1 .. current, age : 0 .. TTL + 1, overtaken : BOOLEAN]
    BY DEF IInv, TypeOK
  <2>1. CASE cache[p] = NoEntry
    BY <2>1, <2>0 DEF Tick, Fresh
  <2>2. CASE cache[p] # NoEntry
    <3>1. cache'[p] = [cache[p] EXCEPT !.age = Older(cache[p].age, TTL)]
      BY <2>2 DEF Tick
    <3>2. cache'[p].version = cache[p].version /\ cache'[p].age = Older(cache[p].age, TTL)
      BY <3>1, <2>0
    <3>3. Older(cache[p].age, TTL) \in 0 .. TTL + 1
          /\ (Older(cache[p].age, TTL) <= TTL => cache[p].age + 1 = Older(cache[p].age, TTL))
      BY <2>0, OlderFact
    <3> QED
      BY <2>0, <2>2, <3>1, <3>2, <3>3 DEF Fresh
  <2> QED
    BY <2>1, <2>2
<1>3. \A g \in Processes \X Readers :
        /\ read'[g] \in Reads
        /\ read'[g].phase = "filling" => /\ read[g].phase = "filling"
                                         /\ read'[g].version = read[g].version
                                         /\ read'[g].age = read[g].age + 1
  <2> TAKE g \in Processes \X Readers
  <2>0. read[g] \in Reads /\ g \in DOMAIN read
    BY DEF IInv, TypeOK, Reads
  <2>1. CASE read[g].phase = "filling"
    <3>1. g \in Filling
      BY <2>0, <2>1 DEF Filling
    <3>2. read'[g] = [read[g] EXCEPT !.age = read[g].age + 1]
      BY <2>0, <3>1 DEF Tick
    <3>3. read[g].age < ReadTime
      BY <3>1 DEF Tick
    <3> QED
      BY <2>0, <3>2, <3>3 DEF Reads
  <2>2. CASE read[g].phase # "filling"
    <3>1. read'[g] = read[g]
      BY <2>0, <2>2 DEF Tick, Filling
    <3> QED
      BY <2>0, <2>2, <3>1
  <2> QED
    BY <2>1, <2>2
<1>4. /\ cache' \in [Processes -> [version : -1 .. current, age : 0 .. TTL + 1, overtaken : BOOLEAN]]
      /\ read' \in [Processes \X Readers -> Reads]
      /\ behind' \in [0 .. MaxVersion -> 0 .. StalenessBound + 1]
  <2>1. DOMAIN read = Processes \X Readers
    BY DEF IInv, TypeOK
  <2>2. read' = [g \in Processes \X Readers |-> read'[g]]
    BY <2>1 DEF Tick
  <2> QED
    BY <1>1, <1>2, <1>3, <2>2 DEF Tick
<1>5. TypeOK'
  BY <1>4 DEF Tick, IInv, TypeOK, Reads
<1>6. CurrentIsNotBehind'
  BY <1>1, <1>b DEF Tick, CurrentIsNotBehind
<1>7. QueriesAreYoung'
  <2> SUFFICES ASSUME NEW g \in Processes \X Readers, read'[g].phase = "filling",
                      read'[g].version < current
               PROVE  behind'[read'[g].version] <= read'[g].age
    BY DEF Tick, QueriesAreYoung
  <2>0. /\ read[g].phase = "filling" /\ read'[g].version = read[g].version
        /\ read'[g].age = read[g].age + 1
    BY <1>3
  <2>1. read[g].version \in 0 .. current /\ read[g].age \in Nat
    BY DEF IInv, TypeOK
  <2>2. behind[read[g].version] <= read[g].age
    BY <2>0 DEF IInv, QueriesAreYoung
  <2>v. read[g].version \in 0 .. MaxVersion
    BY <1>b, <2>1
  <2>3. behind'[read[g].version] <= behind[read[g].version] + 1
    BY <1>1, <2>v
  <2>4. behind[read[g].version] \in Int /\ behind'[read[g].version] \in Int
    BY <1>1, <2>v
  <2> QED
    BY <2>0, <2>1, <2>2, <2>3, <2>4
<1>8. EntriesAreYoung'
  <2> SUFFICES ASSUME NEW p \in Processes, Fresh(cache'[p])
               PROVE  /\ cache'[p].version >= 0
                      /\ cache'[p].version < current =>
                           behind'[cache'[p].version] <= cache'[p].age + ReadTime
    BY DEF Tick, EntriesAreYoung, Fresh, NoEntry
  <2>0. /\ Fresh(cache[p]) /\ cache'[p].version = cache[p].version
        /\ cache'[p].age = cache[p].age + 1
    BY <1>2
  <2>1. cache[p].version \in -1 .. current /\ cache[p].age \in Nat
    BY DEF IInv, TypeOK
  <2>2. /\ cache[p].version >= 0
        /\ cache[p].version < current =>
             behind[cache[p].version] <= cache[p].age + ReadTime
    BY <2>0 DEF IInv, EntriesAreYoung
  <2>v. cache[p].version \in 0 .. MaxVersion
    BY <1>b, <2>1, <2>2
  <2>3. behind'[cache[p].version] <= behind[cache[p].version] + 1
    BY <1>1, <2>v
  <2>4. behind[cache[p].version] \in Int /\ behind'[cache[p].version] \in Int
    BY <1>1, <2>v
  <2> QED
    BY <2>0, <2>1, <2>2, <2>3, <2>4
<1> QED
  BY <1>5, <1>6, <1>7, <1>8 DEF IInv

(* A step that touches only the goroutines keeps the invariant, if what    *)
(* they hold then is what they held or the current version.                *)
LEMMA ReadsOnly ==
  ASSUME IInv,
         UNCHANGED <<current, behind, cache, write, invalidated, inTransit>>,
         read' \in [Processes \X Readers -> Reads],
         \A g \in Processes \X Readers :
           read'[g].phase = "filling" => read'[g] = read[g] \/ read'[g].version = current
  PROVE  IInv'
<1>1. TypeOK'
  BY DEF IInv, TypeOK, Reads
<1>2. CurrentIsNotBehind' /\ EntriesAreYoung'
  BY DEF IInv, CurrentIsNotBehind, EntriesAreYoung, Fresh, NoEntry
<1>3. QueriesAreYoung'
  <2> SUFFICES ASSUME NEW g \in Processes \X Readers, read'[g].phase = "filling",
                      read'[g].version < current
               PROVE  behind[read'[g].version] <= read'[g].age
    BY DEF QueriesAreYoung
  <2>1. read'[g] = read[g]
    BY SnapshotAssumption DEF IInv, TypeOK
  <2> QED
    BY <2>1 DEF IInv, QueriesAreYoung
<1> QED
  BY <1>1, <1>2, <1>3 DEF IInv

(* A Get touches its goroutine and its process's entry. *)
LEMMA GetStep == ASSUME NEW g \in Processes \X Readers PROVE IInv /\ Get(g) => IInv'
<1> SUFFICES ASSUME IInv, Get(g) PROVE IInv'
  OBVIOUS
<1> USE SnapshotAssumption
<1>0. /\ g[1] \in Processes
      /\ read \in [Processes \X Readers -> Reads]
      /\ current \in 0 .. MaxVersion
  BY DEF IInv, TypeOK, Reads
<1>i. IdleRead \in Reads /\ IdleRead.phase = "idle"
  BY <1>0 DEF IdleRead, Reads
<1>1. CASE Miss(g)
  <2> DEFINE new == [read[g] EXCEPT !.phase = "querying"]
  <2>1. new \in Reads /\ new.phase = "querying"
    BY <1>0 DEF Reads
  <2>2. read' = [read EXCEPT ![g] = new]
    BY <1>1 DEF Miss
  <2> HIDE DEF new
  <2> QED
    BY <1>0, <1>1, <2>1, <2>2, ReadsOnly DEF Miss
<1>2. CASE Query(g)
  <2> DEFINE new == [phase |-> "filling", version |-> current, age |-> 0,
                     overtaken |-> FALSE]
  <2>1. new \in Reads /\ new.version = current
    BY <1>0 DEF Reads
  <2>2. read' = [read EXCEPT ![g] = new]
    BY <1>2 DEF Query
  <2> HIDE DEF new
  <2> QED
    BY <1>0, <1>2, <2>1, <2>2, ReadsOnly DEF Query
<1>3. CASE Remember(g)
  <2>0. /\ read' = [read EXCEPT ![g] = IdleRead]
        /\ cache' = [cache EXCEPT ![g[1]] = Remembered(g)]
        /\ UNCHANGED <<current, behind, write, invalidated, inTransit>>
    BY <1>3 DEF Remember
  <2>1. /\ read[g].version \in 0 .. current /\ read[g].age \in 0 .. ReadTime
        /\ read[g].overtaken \in BOOLEAN
        /\ read[g].version < current => behind[read[g].version] <= read[g].age
    BY <1>3, <1>0 DEF Remember, IInv, QueriesAreYoung, Reads
  <2>2. /\ Remembered(g) \in [version : -1 .. current, age : 0 .. TTL + 1, overtaken : BOOLEAN]
        /\ Remembered(g).version = read[g].version /\ Remembered(g).age = 0
    BY <1>0, <2>1 DEF Remembered
  <2>3. TypeOK'
    <3>1. read' \in [Processes \X Readers -> Reads]
      BY <1>0, <1>i, <2>0
    <3>2. cache' \in [Processes -> [version : -1 .. current, age : 0 .. TTL + 1, overtaken : BOOLEAN]]
      BY <1>0, <2>0, <2>2 DEF IInv, TypeOK
    <3> QED
      BY <2>0, <3>1, <3>2 DEF IInv, TypeOK, Reads
  <2>4. CurrentIsNotBehind'
    BY <2>0 DEF IInv, CurrentIsNotBehind
  <2>5. QueriesAreYoung'
    <3> SUFFICES ASSUME NEW h \in Processes \X Readers, read'[h].phase = "filling",
                        read'[h].version < current
                 PROVE  behind[read'[h].version] <= read'[h].age
      BY <2>0 DEF QueriesAreYoung
    <3>1. read'[h] = read[h]
      BY <1>0, <1>i, <2>0
    <3> QED
      BY <3>1 DEF IInv, QueriesAreYoung
  <2>6. EntriesAreYoung'
    <3> SUFFICES ASSUME NEW p \in Processes, Fresh(cache'[p])
                 PROVE  /\ cache'[p].version >= 0
                        /\ cache'[p].version < current =>
                             behind[cache'[p].version] <= cache'[p].age + ReadTime
      BY <2>0 DEF EntriesAreYoung, Fresh, NoEntry
    <3>1. CASE p = g[1]
      <4>1. cache'[p] = Remembered(g)
        BY <2>0, <3>1 DEF IInv, TypeOK
      <4>2. read[g].version < current => behind[read[g].version] <= ReadTime
        <5>1. read[g].version \in 0 .. MaxVersion
          BY <1>0, <2>1
        <5>2. behind[read[g].version] \in Int
          <6>1. StalenessBound \in Nat
            BY DEF StalenessBound
          <6>2. behind \in [0 .. MaxVersion -> 0 .. StalenessBound + 1]
            BY DEF IInv, TypeOK
          <6> QED
            BY <5>1, <6>1, <6>2
        <5> QED
          BY <2>1, <5>2
      <4> QED
        BY <4>1, <4>2, <2>1, <2>2
    <3>2. CASE p # g[1]
      <4>1. cache'[p] = cache[p]
        BY <2>0, <3>2 DEF IInv, TypeOK
      <4> QED
        BY <4>1 DEF IInv, EntriesAreYoung
    <3> QED
      BY <3>1, <3>2
  <2> QED
    BY <2>3, <2>4, <2>5, <2>6 DEF IInv
<1>4. CASE QueryFails(g)
  BY <1>0, <1>i, <1>4, ReadsOnly DEF QueryFails
<1> QED
  BY <1>1, <1>2, <1>3, <1>4 DEF Get

(* A saving request touches the version, its process's entry and messages. *)
LEMMA SaveStep ==
  ASSUME NEW w \in Writers, NEW p \in Processes, NEW kind \in {"put", "apply"}
  PROVE  IInv /\ Save(w, p, kind) => IInv'
<1> SUFFICES ASSUME IInv, Save(w, p, kind) PROVE IInv'
  OBVIOUS
<1> USE SnapshotAssumption
<1>0. /\ current \in 0 .. MaxVersion /\ current < MaxVersion /\ current' = current + 1
      /\ UNCHANGED <<behind, cache, invalidated, inTransit>>
  BY DEF Save, IInv, TypeOK
<1>r. \A g \in Processes \X Readers :
        /\ read'[g] \in Reads
        /\ read'[g].phase = read[g].phase /\ read'[g].version = read[g].version
        /\ read'[g].age = read[g].age
        /\ read'[g].overtaken = (read[g].overtaken \/ read[g].phase = "filling")
  <2> TAKE g \in Processes \X Readers
  <2>1. read[g] \in Reads /\ g \in DOMAIN read
    BY DEF IInv, TypeOK, Reads
  <2>2. read'[g] = [read[g] EXCEPT !.overtaken = read[g].overtaken \/ g \in Filling]
    BY <2>1 DEF Save
  <2>3. g \in Filling <=> read[g].phase = "filling"
    BY <2>1 DEF Filling
  <2> QED
    BY <2>1, <2>2, <2>3 DEF Reads
<1>s. StalenessBound \in Nat
  BY DEF StalenessBound
<1>1. TypeOK'
  <2>1. /\ current' \in 0 .. MaxVersion
        /\ 0 .. current \subseteq 0 .. current'
        /\ -1 .. current \subseteq -1 .. current'
    BY <1>0
  <2>2. behind' \in [0 .. MaxVersion -> 0 .. StalenessBound + 1]
    BY <1>0 DEF IInv, TypeOK
  <2>3. cache' \in [Processes -> [version : -1 .. current', age : 0 .. TTL + 1,
                             overtaken : BOOLEAN]]
    BY <1>0, <2>1 DEF IInv, TypeOK
  <2>4. read' \in [Processes \X Readers ->
          [phase : {"idle", "querying", "filling"}, version : 0 .. current',
           age : 0 .. ReadTime, overtaken : BOOLEAN]]
    <3>1. DOMAIN read = Processes \X Readers
      BY DEF IInv, TypeOK
    <3>2. read' = [g \in Processes \X Readers |-> read'[g]]
      BY <3>1 DEF Save
    <3>3. \A g \in Processes \X Readers :
            read'[g] \in [phase : {"idle", "querying", "filling"}, version : 0 .. current',
                          age : 0 .. ReadTime, overtaken : BOOLEAN]
      BY <1>r, <2>1 DEF Reads
    <3> QED
      BY <3>2, <3>3
  <2>5. invalidated' \in [Processes -> 0 .. current'] /\ inTransit' \in [Processes -> Nat]
    BY <1>0, <2>1 DEF IInv, TypeOK
  <2>6. write' \in [Writers ->
          [phase : {"idle", "saved", "publishing"}, kind : {"put", "apply"},
           version : 0 .. current', process : Processes \cup {"none"}]]
    <3> DEFINE W == [phase : {"idle", "saved", "publishing"}, kind : {"put", "apply"},
                     version : 0 .. current', process : Processes \cup {"none"}]
               new == [phase |-> "saved", kind |-> kind, version |-> current + 1,
                       process |-> p]
    <3>1. write \in [Writers -> W]
      BY <2>1 DEF IInv, TypeOK
    <3>2. new \in W
      BY <1>0
    <3>3. write' = [write EXCEPT ![w] = new]
      BY DEF Save
    <3> HIDE DEF W, new
    <3>4. write' \in [Writers -> W]
      BY <3>1, <3>2, <3>3
    <3> QED
      BY <3>4 DEF W
  <2> QED
    BY <2>1, <2>2, <2>3, <2>4, <2>5, <2>6 DEF TypeOK
<1>2. CurrentIsNotBehind'
  BY <1>0 DEF IInv, CurrentIsNotBehind
<1>3. QueriesAreYoung'
  <2> SUFFICES ASSUME NEW g \in Processes \X Readers, read[g].phase = "filling"
               PROVE  behind[read[g].version] <= read[g].age
    BY <1>0, <1>r DEF QueriesAreYoung
  <2>1. read[g].version \in 0 .. current /\ read[g].age \in Nat
    <3>1. read[g] \in Reads
      BY DEF IInv, TypeOK, Reads
    <3> QED
      BY <3>1 DEF Reads
  <2>2. CASE read[g].version < current
    BY <2>2 DEF IInv, QueriesAreYoung
  <2>3. CASE read[g].version = current
    BY <2>1, <2>3, <1>0 DEF IInv, CurrentIsNotBehind
  <2> QED
    BY <2>1, <2>2, <2>3, <1>0
<1>4. EntriesAreYoung'
  <2> SUFFICES ASSUME NEW q \in Processes, Fresh(cache[q])
               PROVE  /\ cache[q].version >= 0
                      /\ behind[cache[q].version] <= cache[q].age + ReadTime
    BY <1>0 DEF EntriesAreYoung, Fresh, NoEntry
  <2>1. cache[q].version \in -1 .. current /\ cache[q].age \in Nat /\ cache[q].version >= 0
    <3>1. cache[q].version >= 0
      BY DEF IInv, EntriesAreYoung
    <3>2. cache[q] \in [version : -1 .. current, age : 0 .. TTL + 1, overtaken : BOOLEAN]
      BY DEF IInv, TypeOK
    <3> QED
      BY <3>1, <3>2
  <2>2. CASE cache[q].version < current
    BY <2>1, <2>2 DEF IInv, EntriesAreYoung
  <2>3. CASE cache[q].version = current
    BY <2>1, <2>3, <1>0 DEF IInv, CurrentIsNotBehind
  <2> QED
    BY <2>1, <2>2, <2>3, <1>0
<1> QED
  BY <1>1, <1>2, <1>3, <1>4 DEF IInv

(* A step that may drop entries, and touches neither versions nor ages nor *)
(* goroutines beyond ending some of them, keeps the invariant.             *)
LEMMA DropsOnly ==
  ASSUME IInv, TypeOK', UNCHANGED <<current, behind>>,
         \A p \in Processes : cache'[p] \in {cache[p], NoEntry},
         \A g \in Processes \X Readers : read'[g] \in {read[g], IdleRead}
  PROVE  IInv'
<1>1. CurrentIsNotBehind'
  BY DEF IInv, CurrentIsNotBehind
<1>2. QueriesAreYoung'
  <2> SUFFICES ASSUME NEW g \in Processes \X Readers, read'[g].phase = "filling"
               PROVE  read'[g].version < current => behind[read'[g].version] <= read'[g].age
    BY DEF QueriesAreYoung
  <2>1. read'[g] = read[g]
    BY DEF IdleRead
  <2> QED
    BY <2>1 DEF IInv, QueriesAreYoung
<1>3. EntriesAreYoung'
  <2> SUFFICES ASSUME NEW p \in Processes, Fresh(cache'[p])
               PROVE  /\ cache'[p].version >= 0
                      /\ cache'[p].version < current =>
                           behind[cache'[p].version] <= cache'[p].age + ReadTime
    BY DEF EntriesAreYoung, Fresh, NoEntry
  <2>1. cache'[p] = cache[p]
    BY DEF Fresh
  <2> QED
    BY <2>1 DEF IInv, EntriesAreYoung
<1> QED
  BY <1>1, <1>2, <1>3 DEF IInv

(* The steps that invalidate, publish, receive, return early or restart. *)
LEMMA OtherSteps ==
  ASSUME IInv,
         \/ \E w \in Writers : Invalidate(w) \/ Publish(w) \/ ReturnEarly(w)
         \/ \E p \in Processes : Receive(p) \/ Restart(p)
  PROVE  IInv'
<1> USE SnapshotAssumption
<1> DEFINE E == [version : -1 .. current, age : 0 .. TTL + 1, overtaken : BOOLEAN]
           W == [phase : {"idle", "saved", "publishing"}, kind : {"put", "apply"},
                 version : 0 .. current, process : Processes \cup {"none"}]
<1>0. /\ current \in 0 .. MaxVersion /\ cache \in [Processes -> E]
      /\ read \in [Processes \X Readers -> Reads] /\ write \in [Writers -> W]
      /\ invalidated \in [Processes -> 0 .. current]
      /\ inTransit \in [Processes -> Nat]
  BY DEF IInv, TypeOK, Reads
<1>1. NoEntry \in E /\ IdleRead \in Reads /\ IdleWrite \in W
  BY <1>0 DEF NoEntry, IdleRead, IdleWrite, Reads
<1>2. ASSUME NEW w \in Writers, NEW phase \in {"idle", "saved", "publishing"}
      PROVE  [write[w] EXCEPT !.phase = phase] \in W
  BY <1>0, <1>2
<1>t. ASSUME UNCHANGED <<current, behind>>, cache' \in [Processes -> E],
             read' \in [Processes \X Readers -> Reads], write' \in [Writers -> W],
             invalidated' \in [Processes -> 0 .. current],
             inTransit' \in [Processes -> Nat]
      PROVE  TypeOK'
  BY <1>t, <1>0 DEF IInv, TypeOK, Reads
<1> HIDE DEF E, W
<1>a. ASSUME NEW w \in Writers, Invalidate(w) PROVE IInv'
  <2> DEFINE q == write[w].process
             new == [write[w] EXCEPT !.phase = "publishing"]
  <2>1. /\ cache' = [cache EXCEPT ![q] = NoEntry]
        /\ write' = [write EXCEPT ![w] = new]
        /\ UNCHANGED <<current, behind, read, inTransit>>
    BY <1>a DEF Invalidate, DropEntry
  <2>2. invalidated' \in [Processes -> 0 .. current]
    <3>1. invalidated' = [invalidated EXCEPT
            ![q] = IF invalidated[q] > write[w].version THEN invalidated[q]
                   ELSE write[w].version]
      BY <1>a DEF Invalidate
    <3>2. write[w].version \in 0 .. current
      BY <1>0 DEF W
    <3> QED
      BY <1>0, <3>1, <3>2
  <2>3. new \in W
    BY <1>2
  <2> HIDE DEF q, new
  <2>4. cache' \in [Processes -> E] /\ write' \in [Writers -> W]
    BY <1>0, <1>1, <2>1, <2>3
  <2>5. TypeOK'
    BY <1>0, <2>1, <2>2, <2>4, <1>t
  <2>6. \A r \in Processes : cache'[r] \in {cache[r], NoEntry}
    BY <1>0, <2>1
  <2> QED
    BY <2>1, <2>5, <2>6, DropsOnly
<1>b. ASSUME NEW w \in Writers, Publish(w) PROVE IInv'
  <2>1. /\ write' = [write EXCEPT ![w] = IdleWrite]
        /\ UNCHANGED <<current, behind, cache, read, invalidated>>
    BY <1>b DEF Publish
  <2>2. inTransit' \in [Processes -> Nat]
    <3>1. PICK reached \in SUBSET Processes :
            inTransit' = [r \in Processes |->
                            IF r \in reached THEN inTransit[r] + 1 ELSE inTransit[r]]
      BY <1>b DEF Publish
    <3> QED
      BY <1>0, <3>1
  <2>3. write' \in [Writers -> W]
    BY <1>0, <1>1, <2>1
  <2> QED
    BY <1>0, <2>1, <2>2, <2>3, <1>t, DropsOnly
<1>c. ASSUME NEW w \in Writers, ReturnEarly(w) PROVE IInv'
  <2>1. /\ write' = [write EXCEPT ![w] = IdleWrite]
        /\ UNCHANGED <<current, behind, cache, read, invalidated, inTransit>>
    BY <1>c DEF ReturnEarly
  <2>2. write' \in [Writers -> W]
    BY <1>0, <1>1, <2>1
  <2> QED
    BY <1>0, <2>1, <2>2, <1>t, DropsOnly
<1>d. ASSUME NEW p \in Processes, Receive(p) PROVE IInv'
  <2>1. /\ cache' = [cache EXCEPT ![p] = NoEntry]
        /\ inTransit' = [inTransit EXCEPT ![p] = inTransit[p] - 1] /\ inTransit[p] > 0
        /\ UNCHANGED <<current, behind, read, write, invalidated>>
    BY <1>d DEF Receive, DropEntry
  <2>2. inTransit' \in [Processes -> Nat]
    BY <1>0, <2>1
  <2>3. cache' \in [Processes -> E] /\ \A r \in Processes : cache'[r] \in {cache[r], NoEntry}
    BY <1>0, <1>1, <2>1
  <2> QED
    BY <1>0, <2>1, <2>2, <2>3, <1>t, DropsOnly
<1>e. ASSUME NEW p \in Processes, Restart(p) PROVE IInv'
  <2>1. /\ cache' = [cache EXCEPT ![p] = NoEntry]
        /\ read' = [g \in DOMAIN read |-> IF g[1] = p THEN IdleRead ELSE read[g]]
        /\ write' = [v \in Writers |-> IF write[v].process = p THEN IdleWrite ELSE write[v]]
        /\ inTransit' = [inTransit EXCEPT ![p] = 0]
        /\ UNCHANGED <<current, behind, invalidated>>
    BY <1>e DEF Restart
  <2>2. inTransit' \in [Processes -> Nat] /\ write' \in [Writers -> W]
    BY <1>0, <1>1, <2>1
  <2>3. cache' \in [Processes -> E] /\ \A r \in Processes : cache'[r] \in {cache[r], NoEntry}
    BY <1>0, <1>1, <2>1
  <2>4. DOMAIN read = Processes \X Readers
    BY <1>0
  <2>5. /\ read' \in [Processes \X Readers -> Reads]
        /\ \A g \in Processes \X Readers : read'[g] \in {read[g], IdleRead}
    BY <1>0, <1>1, <2>1, <2>4
  <2> QED
    BY <1>0, <2>1, <2>2, <2>3, <2>5, <1>t, DropsOnly
<1> QED
  BY <1>a, <1>b, <1>c, <1>d, <1>e

(* Every step keeps the invariant. *)
LEMMA NextStep == IInv /\ [Next]_vars => IInv'
<1> SUFFICES ASSUME IInv, [Next]_vars PROVE IInv'
  OBVIOUS
<1>1. CASE Tick
  BY <1>1, TickStep
<1>2. CASE \E g \in Processes \X Readers : Get(g)
  BY <1>2, GetStep
<1>3. CASE \E w \in Writers : Change(w)
  <2>1. PICK w \in Writers : Change(w)
    BY <1>3
  <2>2. CASE \E p \in Processes, kind \in {"put", "apply"} : Save(w, p, kind)
    BY <2>2, SaveStep
  <2>3. CASE Invalidate(w) \/ Publish(w) \/ ReturnEarly(w)
    BY <2>3, OtherSteps
  <2> QED
    BY <2>1, <2>2, <2>3 DEF Change
<1>4. CASE \E p \in Processes : Receive(p) \/ Restart(p)
  BY <1>4, OtherSteps
<1>5. CASE UNCHANGED vars
  <2>1. TypeOK'
    BY <1>5 DEF IInv, TypeOK, vars
  <2> QED
    BY <1>5, <2>1, DropsOnly DEF vars
<1> QED
  BY <1>1, <1>2, <1>3, <1>4, <1>5 DEF Next

(* Get, whatever happens to messages and however saves, queries and fills  *)
(* overlap, works on values of the right type.                             *)
THEOREM TypeCorrect == Spec => []TypeOK
<1>1. IInv => TypeOK
  BY DEF IInv
<1> QED
  BY <1>1, InitStep, NextStep, PTL DEF Spec

(* No request is ever served a policy version that was superseded longer   *)
(* ago than the TTL and one query: the staleness of the gateway is bounded *)
(* with Redis down as with Redis up.                                       *)
THEOREM StalenessCorrect == Spec => []StalenessBounded
<1>1. IInv => StalenessBounded
  <2> SUFFICES ASSUME IInv, NEW p \in Processes, NEW v \in Servable(p), v < current
               PROVE  behind[v] <= StalenessBound
    BY DEF StalenessBounded
  <2> USE SnapshotAssumption
  <2>0. /\ current \in 0 .. MaxVersion
        /\ behind \in [0 .. MaxVersion -> 0 .. StalenessBound + 1] /\ StalenessBound \in Nat
    BY DEF IInv, TypeOK, StalenessBound
  <2>1. CASE Fresh(cache[p]) /\ v = cache[p].version
    <3>1. v >= 0 /\ behind[v] <= cache[p].age + ReadTime
      BY <2>1 DEF IInv, EntriesAreYoung
    <3>2. cache[p].age \in Nat /\ cache[p].age <= TTL /\ v \in -1 .. current
      BY <2>1 DEF IInv, TypeOK, Fresh
    <3>3. behind[v] \in Nat
      BY <2>0, <3>1, <3>2
    <3> QED
      BY <3>1, <3>2, <3>3 DEF StalenessBound
  <2>2. CASE \E g \in Filling : g[1] = p /\ v = read[g].version
    <3>1. PICK g \in Filling : g[1] = p /\ v = read[g].version
      BY <2>2
    <3>2. /\ g \in Processes \X Readers /\ read[g].phase = "filling"
          /\ read[g].age \in 0 .. ReadTime /\ v \in 0 .. current
      BY <3>1 DEF Filling, IInv, TypeOK
    <3>3. behind[v] <= read[g].age
      BY <3>1, <3>2 DEF IInv, QueriesAreYoung
    <3>4. behind[v] \in Nat
      BY <2>0, <3>2
    <3> QED
      BY <3>2, <3>3, <3>4 DEF StalenessBound
  <2> QED
    BY <2>1, <2>2 DEF Servable
<1> QED
  BY <1>1, InitStep, NextStep, PTL DEF Spec

-----------------------------------------------------------------------------
(* A query that was not overtaken holds the current version, so what it    *)
(* leaves in the cache is as new as any version invalidated so far.        *)
CurrentUnlessOvertaken ==
  \A g \in Processes \X Readers :
    read[g].phase = "filling" /\ ~read[g].overtaken => read[g].version = current

(* A step that leaves the version and the invalidated versions alone, only *)
(* ages or drops entries, and only ages or ends queries or lets them read. *)
LEMMA OvertakenDrops ==
  ASSUME CurrentUnlessOvertaken, StaleEntriesWereOvertaken,
         UNCHANGED <<current, invalidated>>,
         \A p \in Processes :
           Fresh(cache'[p]) => /\ Fresh(cache[p])
                               /\ cache'[p].version = cache[p].version
                               /\ cache'[p].overtaken = cache[p].overtaken,
         \A g \in Processes \X Readers :
           read'[g].phase = "filling" =>
             \/ read'[g].version = current
             \/ /\ read[g].phase = "filling"
                /\ read'[g].version = read[g].version
                /\ read'[g].overtaken = read[g].overtaken
  PROVE  CurrentUnlessOvertaken' /\ StaleEntriesWereOvertaken'
<1>1. CurrentUnlessOvertaken'
  BY DEF CurrentUnlessOvertaken
<1>2. StaleEntriesWereOvertaken'
  <2> SUFFICES ASSUME NEW p \in Processes, Fresh(cache'[p]), ~cache'[p].overtaken
               PROVE  cache'[p].version >= invalidated[p]
    BY DEF StaleEntriesWereOvertaken, Fresh, NoEntry
  <2> QED
    BY DEF StaleEntriesWereOvertaken
<1> QED
  BY <1>1, <1>2

LEMMA OvertakenStep ==
  ASSUME IInv, CurrentUnlessOvertaken, StaleEntriesWereOvertaken, [Next]_vars
  PROVE  CurrentUnlessOvertaken' /\ StaleEntriesWereOvertaken'
<1> DEFINE E == [version : -1 .. current, age : 0 .. TTL + 1, overtaken : BOOLEAN]
<1> USE SnapshotAssumption
<1>0. /\ current \in 0 .. MaxVersion /\ cache \in [Processes -> E]
      /\ read \in [Processes \X Readers -> Reads]
      /\ invalidated \in [Processes -> 0 .. current]
  BY DEF IInv, TypeOK, Reads
<1>n. ~Fresh(NoEntry) /\ IdleRead.phase = "idle"
  BY DEF Fresh, IdleRead
<1>1. CASE Tick
  <2>1. ASSUME NEW p \in Processes, Fresh(cache'[p])
        PROVE  /\ Fresh(cache[p]) /\ cache'[p].version = cache[p].version
               /\ cache'[p].overtaken = cache[p].overtaken
    <3>1. cache[p] # NoEntry
      BY <1>1, <1>n, <2>1 DEF Tick
    <3>2. cache'[p] = [cache[p] EXCEPT !.age = Older(cache[p].age, TTL)]
      BY <1>1, <3>1 DEF Tick
    <3>3. Older(cache[p].age, TTL) <= TTL => cache[p].age <= TTL
      BY <1>0, OlderFact
    <3> QED
      BY <1>0, <2>1, <3>1, <3>2, <3>3 DEF Fresh
  <2>2. ASSUME NEW g \in Processes \X Readers, read'[g].phase = "filling"
        PROVE  /\ read[g].phase = "filling" /\ read'[g].version = read[g].version
               /\ read'[g].overtaken = read[g].overtaken
    <3>1. DOMAIN read = Processes \X Readers /\ read[g] \in Reads
      BY <1>0
    <3>2. CASE g \in Filling
      <4>1. read'[g] = [read[g] EXCEPT !.age = read[g].age + 1]
        BY <1>1, <3>1, <3>2 DEF Tick
      <4> QED
        BY <3>1, <3>2, <4>1 DEF Filling, Reads
    <3>3. CASE g \notin Filling
      BY <1>1, <2>2, <3>1, <3>3 DEF Tick, Filling
    <3> QED
      BY <3>2, <3>3
  <2>3. UNCHANGED <<current, invalidated>>
    BY <1>1 DEF Tick
  <2> QED
    BY <2>1, <2>2, <2>3, OvertakenDrops
<1>2. ASSUME NEW g \in Processes \X Readers, Miss(g) \/ Query(g) \/ QueryFails(g)
      PROVE  CurrentUnlessOvertaken' /\ StaleEntriesWereOvertaken'
  <2>1. UNCHANGED <<current, cache, invalidated>>
    BY <1>2 DEF Miss, Query, QueryFails
  <2>2. ASSUME NEW h \in Processes \X Readers, read'[h].phase = "filling"
        PROVE  read'[h].version = current \/ read'[h] = read[h]
    BY <1>0, <1>2, <1>n, <2>2 DEF Miss, Query, QueryFails, Reads
  <2> QED
    BY <2>1, <2>2, OvertakenDrops
<1>3. ASSUME NEW g \in Processes \X Readers, Remember(g)
      PROVE  CurrentUnlessOvertaken' /\ StaleEntriesWereOvertaken'
  <2>0. g[1] \in Processes
    OBVIOUS
  <2>1. /\ read' = [read EXCEPT ![g] = IdleRead] /\ read[g].phase = "filling"
        /\ cache' = [cache EXCEPT ![g[1]] = Remembered(g)]
        /\ UNCHANGED <<current, invalidated>>
    BY <1>3 DEF Remember
  <2>2. CurrentUnlessOvertaken'
    BY <1>0, <1>n, <2>1 DEF CurrentUnlessOvertaken
  <2>3. StaleEntriesWereOvertaken'
    <3> SUFFICES ASSUME NEW p \in Processes, Fresh(cache'[p]), ~cache'[p].overtaken
                 PROVE  cache'[p].version >= invalidated[p]
      BY <2>1 DEF StaleEntriesWereOvertaken, Fresh, NoEntry
    <3>1. CASE p = g[1]
      <4>1. cache'[p].version = read[g].version /\ cache'[p].overtaken = read[g].overtaken
        BY <1>0, <2>1, <3>1 DEF Remembered
      <4>2. read[g].version = current
        BY <2>1, <4>1 DEF CurrentUnlessOvertaken
      <4> QED
        BY <1>0, <4>1, <4>2
    <3>2. CASE p # g[1]
      <4>1. cache'[p] = cache[p]
        BY <1>0, <2>1, <3>2
      <4> QED
        BY <4>1 DEF StaleEntriesWereOvertaken
    <3> QED
      BY <3>1, <3>2
  <2> QED
    BY <2>2, <2>3
<1>4. ASSUME NEW w \in Writers, NEW p \in Processes, NEW kind \in {"put", "apply"},
             Save(w, p, kind)
      PROVE  CurrentUnlessOvertaken' /\ StaleEntriesWereOvertaken'
  <2>1. StaleEntriesWereOvertaken'
    BY <1>4 DEF Save, StaleEntriesWereOvertaken, Fresh, NoEntry
  <2>2. ASSUME NEW g \in Processes \X Readers, read'[g].phase = "filling"
        PROVE  read'[g].overtaken
    <3>1. DOMAIN read = Processes \X Readers /\ read[g] \in Reads
      BY <1>0
    <3>2. read'[g] = [read[g] EXCEPT !.overtaken = read[g].overtaken \/ g \in Filling]
      BY <1>4, <3>1 DEF Save
    <3>3. read'[g].phase = read[g].phase
          /\ read'[g].overtaken = (read[g].overtaken \/ g \in Filling)
      BY <3>1, <3>2 DEF Reads
    <3> QED
      BY <2>2, <3>1, <3>3 DEF Filling
  <2> QED
    BY <2>1, <2>2 DEF CurrentUnlessOvertaken
<1>5. ASSUME NEW w \in Writers, Invalidate(w)
      PROVE  CurrentUnlessOvertaken' /\ StaleEntriesWereOvertaken'
  <2> DEFINE q == write[w].process
  <2>1. /\ cache' = [cache EXCEPT ![q] = NoEntry] /\ UNCHANGED <<current, read>>
        /\ \A p \in Processes : p # q => invalidated'[p] = invalidated[p]
    BY <1>0, <1>5 DEF Invalidate, DropEntry
  <2>2. CurrentUnlessOvertaken'
    BY <2>1 DEF CurrentUnlessOvertaken
  <2>3. StaleEntriesWereOvertaken'
    <3> SUFFICES ASSUME NEW p \in Processes, Fresh(cache'[p]), ~cache'[p].overtaken
                 PROVE  cache'[p].version >= invalidated'[p]
      BY DEF StaleEntriesWereOvertaken, Fresh, NoEntry
    <3>1. p # q
      BY <1>0, <1>n, <2>1
    <3>2. cache'[p] = cache[p]
      BY <1>0, <2>1, <3>1
    <3> QED
      BY <2>1, <3>1, <3>2 DEF StaleEntriesWereOvertaken
  <2> QED
    BY <2>2, <2>3
<1>6. ASSUME NEW w \in Writers, Publish(w) \/ ReturnEarly(w)
      PROVE  CurrentUnlessOvertaken' /\ StaleEntriesWereOvertaken'
  BY <1>6, OvertakenDrops DEF Publish, ReturnEarly
<1>7. ASSUME NEW p \in Processes, Receive(p) \/ Restart(p)
      PROVE  CurrentUnlessOvertaken' /\ StaleEntriesWereOvertaken'
  <2>1. /\ UNCHANGED <<current, invalidated>>
        /\ \A r \in Processes : cache'[r] \in {cache[r], NoEntry}
        /\ \A g \in Processes \X Readers : read'[g] \in {read[g], IdleRead}
    BY <1>0, <1>7 DEF Receive, Restart, DropEntry
  <2>2. ASSUME NEW r \in Processes, Fresh(cache'[r])
        PROVE  Fresh(cache[r]) /\ cache'[r] = cache[r]
    BY <1>n, <2>1, <2>2
  <2>3. ASSUME NEW g \in Processes \X Readers, read'[g].phase = "filling"
        PROVE  read'[g] = read[g]
    BY <1>n, <2>1, <2>3
  <2> QED
    BY <2>1, <2>2, <2>3, OvertakenDrops
<1>8. CASE UNCHANGED vars
  BY <1>8, OvertakenDrops DEF vars
<1> QED
  BY <1>1, <1>2, <1>3, <1>4, <1>5, <1>6, <1>7, <1>8 DEF Next, Get, Change

(* A process brings a version older than one it invalidated back into its  *)
(* cache only through a query that the save overtook, for any number of    *)
(* processes and readers.                                                  *)
THEOREM OvertakenCorrect == Spec => []StaleEntriesWereOvertaken
<1>1. Init => CurrentUnlessOvertaken /\ StaleEntriesWereOvertaken
  BY DEF Init, CurrentUnlessOvertaken, StaleEntriesWereOvertaken, Fresh, NoEntry, IdleRead
<1>2. IInv /\ CurrentUnlessOvertaken /\ StaleEntriesWereOvertaken /\ [Next]_vars
        => CurrentUnlessOvertaken' /\ StaleEntriesWereOvertaken'
  BY OvertakenStep
<1> QED
  BY <1>1, <1>2, InitStep, NextStep, PTL DEF Spec
=============================================================================
