------------------------------ MODULE ReadThrough ------------------------------
(***************************************************************************)
(* Three in-process caches in front of a database row, each with a TTL:    *)
(*   key         auth.Resolver over api_keys                               *)
(*   credential  credentials.Snapshot over provider_credentials            *)
(*   retention   retention.Snapshot over the organization's settings       *)
(* A read that misses queries the row and remembers what it found in two   *)
(* steps; a write of the row is followed by an invalidation on the node    *)
(* that served it (key), on it and by pub/sub on the others (credential),  *)
(* or by none (retention).                                                 *)
(*                                                                         *)
(* A row is a number.  key: 0 not issued, 1 active, 2 revoked.             *)
(* credential: 0 none active, n the one created by the n-th change.        *)
(* retention: 1 if bodies are captured, 0 if not.  A key presented with a  *)
(* wrong secret is refused wherever it is checked and changes nothing: it  *)
(* is left out.                                                            *)
(***************************************************************************)
EXTENDS Integers, Sequences

CONSTANTS
  Nodes,        \* processes with a cache
  Readers,      \* reads that can be under way at once
  CacheTTL,     \* [kind -> resolverCacheTTL or snapshotTTL]
  MaxFetch,     \* bound: how long a read's query and fill take at most
  MaxWrites, MaxClock,
  Unheld        \* no entry, no read

ASSUME ReadThroughAssumption ==
  /\ CacheTTL \in [{"key", "credential", "retention"} -> Nat]
  /\ {MaxFetch, MaxWrites, MaxClock} \subseteq Nat

VARIABLES
  kind,      \* which of the caches this is
  truth,     \* history of the row: [value, from], the last one in force
  held,      \* [Nodes -> the entry or Unheld]
  fetch,     \* [Readers -> a read that missed, or Unheld]
  notices,   \* nodes an invalidation is on its way to
  told,      \* history: per node, the row as of which it surely forgot
  clock

cacheVars == <<kind, truth, held, fetch, notices, told, clock>>

Row == truth[Len(truth)].value

ReadThroughInit ==
  /\ kind \in DOMAIN CacheTTL
  /\ truth = <<[value |-> 0, from |-> 0]>>
  /\ held = [n \in Nodes |-> Unheld]
  /\ fetch = [r \in Readers |-> Unheld]
  /\ notices = {}
  /\ told = [n \in Nodes |-> 1]
  /\ clock = 0

-----------------------------------------------------------------------------
(* Reads *)

(* fromCache: an entry lasts up to and including its last instant. *)
Holds(n) == held[n] # Unheld /\ clock <= held[n].expires

(* Get, or Resolve, of a cached entry: it is answered, and not renewed. *)
Hit_Renewing(n) ==
  /\ Holds(n)
  /\ held' = [held EXCEPT ![n].expires = clock + CacheTTL[kind]]
  /\ UNCHANGED <<kind, truth, fetch, notices, told, clock>>
Hit(n) ==
  /\ Holds(n)
  /\ UNCHANGED cacheVars

(* A miss: the query sees the row as it is now. *)
Miss(r, n) ==
  /\ fetch[r] = Unheld /\ ~Holds(n)
  /\ fetch' = [fetch EXCEPT ![r] = [node |-> n, value |-> Row, began |-> clock]]
  /\ UNCHANGED <<kind, truth, held, notices, told, clock>>

(* What a node remembers: of keys only the ones it accepts. *)
Remembered(value) == kind # "key" \/ value = 1

Fill(r) ==
  /\ fetch[r] # Unheld
  /\ held' = IF Remembered(fetch[r].value)
             THEN [held EXCEPT ![fetch[r].node] =
                     [value |-> fetch[r].value, expires |-> clock + CacheTTL[kind]]]
             ELSE held
  /\ fetch' = [fetch EXCEPT ![r] = Unheld]
  /\ UNCHANGED <<kind, truth, notices, told, clock>>

(* The query fails: nothing is remembered.  The caller gets the error, or, *)
(* of the settings, that no bodies are captured.                           *)
FetchFails(r) ==
  /\ fetch[r] # Unheld
  /\ fetch' = [fetch EXCEPT ![r] = Unheld]
  /\ UNCHANGED <<kind, truth, held, notices, told, clock>>

(* Another key finds the resolver's map full, which is then cleared. *)
Clear(n) ==
  /\ kind = "key" /\ held[n] # Unheld
  /\ held' = [held EXCEPT ![n] = Unheld]
  /\ UNCHANGED <<kind, truth, fetch, notices, told, clock>>

-----------------------------------------------------------------------------
(* Writes *)

Put(value) == truth' = Append(truth, [value |-> value, from |-> clock])
Writable == Len(truth) <= MaxWrites

(* APIKeys.Create, APIKeys.Revoke: a key is revoked once and for good. *)
KeyRows == {v \in 1..2 : v = Row + 1}
(* Upsert revokes the active credential and inserts one; Revoke finds only *)
(* an active one.                                                          *)
CredentialRows == {Len(truth)} \cup (IF Row = 0 THEN {} ELSE {0})
(* UpdateRetentionSettings. *)
SettingsRows == {1 - Row}

(* handleCreateKey issues a key, of which no node can hold anything; the   *)
(* node that serves handleRevokeKey forgets it, no other is told.          *)
ChangeKey(n) ==
  /\ kind = "key" /\ Writable
  /\ \E v \in KeyRows :
       /\ Put(v)
       /\ notices' = IF v = 2 THEN {n} ELSE {}
  /\ UNCHANGED <<kind, held, fetch, told, clock>>

(* handleCreateProviderCredential and handleRevokeProviderCredential. *)
ChangeCredential(n) ==
  /\ kind = "credential" /\ Writable
  /\ \E v \in CredentialRows : Put(v)
  /\ notices' = Nodes
  /\ UNCHANGED <<kind, held, fetch, told, clock>>

(* handlePatchSettings. *)
ChangeSettings ==
  /\ kind = "retention" /\ Writable
  /\ \E v \in SettingsRows : Put(v)
  /\ UNCHANGED <<kind, held, fetch, notices, told, clock>>

(* Invalidate, or Subscribe's handling of its message: the entry is        *)
(* deleted.  A read whose query came before it can still fill it.          *)
Invalidate(n) ==
  /\ n \in notices
  /\ notices' = notices \ {n}
  /\ held' = [held EXCEPT ![n] = Unheld]
  /\ told' = [told EXCEPT ![n] =
       IF \E r \in Readers : fetch[r] # Unheld /\ fetch[r].node = n THEN @ ELSE Len(truth)]
  /\ UNCHANGED <<kind, truth, fetch, clock>>

(* A message is lost, or the process stops before it invalidates: every    *)
(* later write sends its own.                                              *)
Lose(n) ==
  /\ n \in notices
  /\ notices' = notices \ {n}
  /\ UNCHANGED <<kind, truth, held, fetch, told, clock>>

Elapse ==
  /\ clock < MaxClock
  /\ \A r \in Readers : fetch[r] # Unheld => clock - fetch[r].began < MaxFetch
  /\ clock' = clock + 1
  /\ UNCHANGED <<kind, truth, held, fetch, notices, told>>

ReadThroughNext ==
  \/ \E r \in Readers : Fill(r) \/ FetchFails(r) \/ \E n \in Nodes : Miss(r, n)
  \/ \E n \in Nodes : Hit(n) \/ Clear(n) \/ Invalidate(n) \/ Lose(n) \/ ChangeKey(n) \/ ChangeCredential(n)
  \/ ChangeSettings
  \/ Elapse

ReadThroughSpec == ReadThroughInit /\ [][ReadThroughNext]_cacheVars
-----------------------------------------------------------------------------
(* A value the row had since a node was last surely told of a write, and   *)
(* no longer ago than a TTL and a fill take.                               *)
Recent(n, value) ==
  \E i \in told[n]..Len(truth) :
    /\ truth[i].value = value
    /\ i = Len(truth) \/ truth[i+1].from >= clock - CacheTTL[kind] - MaxFetch

(* However reads, writes, lost notices and failed queries interleave, what *)
(* a read can answer now, from the cache or from its own query, was the    *)
(* row's value no longer ago than a TTL and the time a fill takes; and on  *)
(* a node that was told of a write while no read was under way there, it   *)
(* is at least as new as that write: a revoked key and a replaced          *)
(* credential are not used for longer.                                     *)
AnswersAreRecent ==
  /\ \A n \in Nodes : Holds(n) => Recent(n, held[n].value)
  /\ \A r \in Readers : fetch[r] # Unheld => Recent(fetch[r].node, fetch[r].value)
=============================================================================
