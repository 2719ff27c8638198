---------------------------- MODULE PolicySnapshot ----------------------------
(***************************************************************************)
(* policy.Snapshot: the in-process cache through which the gateway reads   *)
(* one application's policy.  A miss queries Postgres and fills the cache  *)
(* in two steps with nothing held in between.  A request that saves a new  *)
(* version drops the entry of its own process and then publishes an        *)
(* invalidation over Redis, which delivers it to every process or to none. *)
(*                                                                         *)
(* A document is its version.  Time passes in ticks; entries, queries and  *)
(* superseded versions carry their age, so the clock itself has no bound.  *)
(* What a query read also carries whether a version was saved since then.  *)
(***************************************************************************)
EXTENDS Integers

CONSTANTS
  Processes,         \* processes with a Snapshot of their own
  Readers,           \* gateway goroutines of each process
  Writers,           \* API requests that save a version
  TTL,               \* snapshotTTL
  ReadTime,          \* a query's result is in the cache this soon, or lost
  MaxVersion         \* bound: versions ever saved

ASSUME SnapshotAssumption ==
  /\ TTL \in Nat /\ ReadTime \in Nat /\ MaxVersion \in Nat

VARIABLES
  current,      \* version of the policies row; 0 while there is none
  behind,       \* for each version, ticks since the next one was saved
  cache,        \* each process's entry
  read,         \* each gateway goroutine's Get
  write,        \* each saving request
  invalidated,  \* version last saved and invalidated by a request of the process
  inTransit     \* invalidations on their way to each process

vars == <<current, behind, cache, read, write, invalidated, inTransit>>

NoEntry == [version |-> -1, age |-> 0, overtaken |-> FALSE]
IdleRead == [phase |-> "idle", version |-> 0, age |-> 0, overtaken |-> FALSE]
IdleWrite == [phase |-> "idle", kind |-> "put", version |-> 0, process |-> "none"]

StalenessBound == TTL + ReadTime
Older(age, limit) == IF age > limit THEN age ELSE age + 1  \* saturates past limit

Init ==
  /\ current = 0
  /\ behind = [v \in 0 .. MaxVersion |-> 0]
  /\ cache = [p \in Processes |-> NoEntry]
  /\ read = [g \in Processes \X Readers |-> IdleRead]
  /\ write = [w \in Writers |-> IdleWrite]
  /\ invalidated = [p \in Processes |-> 0]
  /\ inTransit = [p \in Processes |-> 0]

(* Queries in flight, with the version they read. *)
Filling == {g \in DOMAIN read : read[g].phase = "filling"}

(* The age of an expired entry stops counting. *)
Tick ==
  /\ \A g \in Filling : read[g].age < ReadTime
  /\ behind' = [v \in 0 .. MaxVersion |->
                  IF v < current THEN Older(behind[v], StalenessBound) ELSE 0]
  /\ cache' = [p \in Processes |->
                 IF cache[p] = NoEntry THEN NoEntry
                 ELSE [cache[p] EXCEPT !.age = Older(@, TTL)]]
  /\ read' = [g \in DOMAIN read |->
                IF g \in Filling THEN [read[g] EXCEPT !.age = @ + 1] ELSE read[g]]
  /\ UNCHANGED <<current, write, invalidated, inTransit>>

-----------------------------------------------------------------------------
(* Get *)

Fresh_Always(entry) == entry # NoEntry
Fresh(entry) == entry # NoEntry /\ entry.age <= TTL

(* fromCache finds nothing, or an entry that has expired.  (A hit changes  *)
(* nothing: what it returns is Servable below.)                            *)
Miss(g) ==
  /\ read[g].phase = "idle"
  /\ ~Fresh(cache[g[1]])
  /\ read' = [read EXCEPT ![g].phase = "querying"]
  /\ UNCHANGED <<current, behind, cache, write, invalidated, inTransit>>

(* Store.Get: no row is version 0. *)
Query(g) ==
  /\ read[g].phase = "querying"
  /\ read' = [read EXCEPT ![g] = [phase |-> "filling", version |-> current, age |-> 0,
                                   overtaken |-> FALSE]]
  /\ UNCHANGED <<current, behind, cache, write, invalidated, inTransit>>

Remembered_Next(g) ==
  [version |-> read[g].version + 1, age |-> 0, overtaken |-> read[g].overtaken]
Remembered(g) ==
  [version |-> read[g].version, age |-> 0, overtaken |-> read[g].overtaken]

(* remember overwrites whatever is there. *)
Remember(g) ==
  /\ read[g].phase = "filling"
  /\ cache' = [cache EXCEPT ![g[1]] = Remembered(g)]
  /\ read' = [read EXCEPT ![g] = IdleRead]
  /\ UNCHANGED <<current, behind, write, invalidated, inTransit>>

(* The query fails: loadPolicy goes on with no policy and caches nothing. *)
QueryFails(g) ==
  /\ read[g].phase \in {"querying", "filling"}
  /\ read' = [read EXCEPT ![g] = IdleRead]
  /\ UNCHANGED <<current, behind, cache, write, invalidated, inTransit>>

-----------------------------------------------------------------------------
(* Save and Invalidate *)

(* A PUT or a policy revert ("put"), or an apply or a measurement revert   *)
(* ("apply"), commits a version in process p.                              *)
Save(w, p, kind) ==
  /\ write[w].phase = "idle"
  /\ current < MaxVersion
  /\ current' = current + 1
  /\ read' = [g \in DOMAIN read |-> [read[g] EXCEPT !.overtaken = @ \/ g \in Filling]]
  /\ write' = [write EXCEPT ![w] = [phase |-> "saved", kind |-> kind,
                                    version |-> current + 1, process |-> p]]
  /\ UNCHANGED <<behind, cache, invalidated, inTransit>>

(* Invalidate's first half: this process's entry. *)
DropEntry_Elsewhere(p) == UNCHANGED cache
DropEntry(p) == cache' = [cache EXCEPT ![p] = NoEntry]

Invalidate(w) ==
  /\ write[w].phase = "saved"
  /\ LET p == write[w].process IN
       /\ DropEntry(p)
       /\ invalidated' = [invalidated EXCEPT
            ![p] = IF @ > write[w].version THEN @ ELSE write[w].version]
  /\ write' = [write EXCEPT ![w].phase = "publishing"]
  /\ UNCHANGED <<current, behind, read, inTransit>>

(* Its second half.  A process that is not subscribed just then, or all of *)
(* them when Redis fails, never get the message.                           *)
Publish(w) ==
  /\ write[w].phase = "publishing"
  /\ \E reached \in SUBSET Processes :
       inTransit' = [p \in Processes |->
                       IF p \in reached THEN inTransit[p] + 1 ELSE inTransit[p]]
  /\ write' = [write EXCEPT ![w] = IdleWrite]
  /\ UNCHANGED <<current, behind, cache, read, invalidated>>

(* Apply and Revert return on an error of MarkApplied, MarkReverted or     *)
(* Freeze, after the version is saved and before Invalidate.               *)
ReturnEarly(w) ==
  /\ write[w].phase = "saved" /\ write[w].kind = "apply"
  /\ write' = [write EXCEPT ![w] = IdleWrite]
  /\ UNCHANGED <<current, behind, cache, read, invalidated, inTransit>>

(* Subscribe's loop takes a message. *)
Receive(p) ==
  /\ inTransit[p] > 0
  /\ DropEntry(p)
  /\ inTransit' = [inTransit EXCEPT ![p] = @ - 1]
  /\ UNCHANGED <<current, behind, read, write, invalidated>>

(* Process p restarts with an empty cache. *)
Restart(p) ==
  /\ cache' = [cache EXCEPT ![p] = NoEntry]
  /\ read' = [g \in DOMAIN read |-> IF g[1] = p THEN IdleRead ELSE read[g]]
  /\ write' = [w \in Writers |-> IF write[w].process = p THEN IdleWrite ELSE write[w]]
  /\ inTransit' = [inTransit EXCEPT ![p] = 0]
  /\ UNCHANGED <<current, behind, invalidated>>

-----------------------------------------------------------------------------

Get(g) == Miss(g) \/ Query(g) \/ Remember(g) \/ QueryFails(g)

Change(w) ==
  \/ \E p \in Processes, kind \in {"put", "apply"} : Save(w, p, kind)
  \/ Invalidate(w) \/ Publish(w) \/ ReturnEarly(w)

Next ==
  \/ Tick
  \/ \E g \in Processes \X Readers : Get(g)
  \/ \E w \in Writers : Change(w)
  \/ \E p \in Processes : Receive(p) \/ Restart(p)

Spec == Init /\ [][Next]_vars

(* Time passes, and a goroutine that holds a result is scheduled. *)
FairSpec ==
  Spec /\ WF_vars(Tick) /\ \A g \in Processes \X Readers : WF_vars(Remember(g))

-----------------------------------------------------------------------------
(* Properties *)

(* Every variable has its type, and no cache or query holds a version that *)
(* was not saved.                                                          *)
TypeOK ==
  /\ current \in 0 .. MaxVersion
  /\ behind \in [0 .. MaxVersion -> 0 .. StalenessBound + 1]
  /\ cache \in [Processes -> [version : -1 .. current, age : 0 .. TTL + 1,
                          overtaken : BOOLEAN]]
  /\ read \in [Processes \X Readers ->
       [phase : {"idle", "querying", "filling"}, version : 0 .. current,
        age : 0 .. ReadTime, overtaken : BOOLEAN]]
  /\ write \in [Writers ->
       [phase : {"idle", "saved", "publishing"}, kind : {"put", "apply"},
        version : 0 .. current, process : Processes \cup {"none"}]]
  /\ invalidated \in [Processes -> 0 .. current]
  /\ inTransit \in [Processes -> Nat]

(* The versions that a Get of process p may return now. *)
Servable(p) ==
  (IF Fresh(cache[p]) THEN {cache[p].version} ELSE {})
    \cup {read[g].version : g \in {h \in Filling : h[1] = p}}

(* However messages are lost, queries overlap saves and fills overwrite    *)
(* one another, no request is served a version that was superseded longer  *)
(* ago than the TTL and one query.                                         *)
StalenessBounded ==
  \A p \in Processes : \A v \in Servable(p) :
    v < current => behind[v] <= StalenessBound

(* A process serves from its cache a version older than one it invalidated *)
(* only if that version's query was overtaken by the save: no lost message *)
(* and no other overlap brings an old document back.                       *)
StaleEntriesWereOvertaken ==
  \A p \in Processes :
    Fresh(cache[p]) /\ ~cache[p].overtaken => cache[p].version >= invalidated[p]

(* Every process comes to serve the last version from its cache, or        *)
(* nothing, for good.                                                      *)
Converges ==
  <>[](\A p \in Processes : Fresh(cache[p]) => cache[p].version = current)

(* Once Invalidate has dropped the entry of its process, that process does *)
(* not serve an older version from its cache again: so its comment says,   *)
(* and an overtaken query proves it wrong.                                 *)
NeverStaleAfterInvalidate ==
  \A p \in Processes :
    Fresh(cache[p]) => cache[p].version >= invalidated[p]
=============================================================================
