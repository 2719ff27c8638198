--------------------------- MODULE ControlPlaneProofs ---------------------------
(***************************************************************************)
(* Proofs about four of the parts that MCControlPlane puts side by side:   *)
(* the read-through caches, the accounts, the dialogues and the rollups.   *)
(* They share no state, and each theorem is about the part's own           *)
(* specification.  The simulations and the stored findings are in          *)
(* AnalysisProofs.                                                         *)
(***************************************************************************)
EXTENDS ReadThrough, Accounts, Dialogue, Jobs, SumProofs, FiniteSetTheorems, SequenceTheorems, TLAPS

-----------------------------------------------------------------------------
(* The read-through caches: how recent their answers are, for any nodes,   *)
(* readers and numbers of writes, any TTLs and any time a fill may take.   *)
(*                                                                         *)
(* The inductive invariant.  A row's values are numbered as they came.     *)
(* What a read or an entry holds is one the node was not yet told had      *)
(* ended, and that ended, if at all, no earlier than the read began, or    *)
(* than a TTL and a fill before the entry expires.                         *)

Writes == [value : Int, from : Nat]
Fetches == [node : Nodes, value : Int, began : Nat]
Entries == [value : Int, expires : Nat]

TypesAreKept ==
  /\ kind \in DOMAIN CacheTTL
  /\ clock \in Nat
  /\ truth \in Seq(Writes) /\ truth # <<>>
  /\ told \in [Nodes -> Nat] /\ \A n \in Nodes : told[n] \in 1..Len(truth)
  /\ DOMAIN held = Nodes /\ held = [n \in Nodes |-> held[n]]
  /\ \A n \in Nodes : held[n] # Unheld => held[n] \in Entries
  /\ DOMAIN fetch = Readers /\ fetch = [r \in Readers |-> fetch[r]]
  /\ \A r \in Readers : fetch[r] # Unheld => fetch[r] \in Fetches

(* A value of rows, the first-th or a later one, that ended at t or later. *)
LastedTo(rows, first, value, t) ==
  \E i \in first..Len(rows) :
    rows[i].value = value /\ (i = Len(rows) \/ rows[i+1].from >= t)

FetchesAreYoung ==
  \A r \in Readers : fetch[r] # Unheld =>
    /\ fetch[r].began <= clock /\ clock - fetch[r].began <= MaxFetch
    /\ LastedTo(truth, told[fetch[r].node], fetch[r].value, fetch[r].began)

EntriesAreYoung ==
  \A n \in Nodes : held[n] # Unheld =>
    /\ held[n].expires <= clock + CacheTTL[kind]
    /\ LastedTo(truth, told[n], held[n].value, held[n].expires - CacheTTL[kind] - MaxFetch)

RInv == TypesAreKept /\ FetchesAreYoung /\ EntriesAreYoung

LEMMA TTLFact == ASSUME kind \in DOMAIN CacheTTL PROVE CacheTTL[kind] \in Nat
  BY ReadThroughAssumption

LEMMA FetchFact == MaxFetch \in Nat
  BY ReadThroughAssumption

(* What the property asks of an answer follows from when its value ended. *)
LEMMA LastedIsRecent ==
  ASSUME TypesAreKept, NEW n \in Nodes, NEW value, NEW t \in Int,
         t >= clock - CacheTTL[kind] - MaxFetch, LastedTo(truth, told[n], value, t)
  PROVE  Recent(n, value)
<1>1. PICK i \in told[n]..Len(truth) :
        truth[i].value = value /\ (i = Len(truth) \/ truth[i+1].from >= t)
  BY DEF LastedTo
<1>2. CASE i = Len(truth)
  BY <1>1, <1>2 DEF Recent
<1>3. CASE i # Len(truth)
  <2>1. i + 1 \in 1..Len(truth) /\ truth[i+1] \in Writes
    BY <1>3 DEF TypesAreKept
  <2>2. truth[i+1].from \in Nat /\ CacheTTL[kind] \in Nat /\ MaxFetch \in Nat /\ clock \in Nat
    BY <2>1, TTLFact, FetchFact DEF TypesAreKept, Writes
  <2>3. truth[i+1].from >= clock - CacheTTL[kind] - MaxFetch
    BY <1>1, <1>3, <2>2
  <2> QED
    BY <1>1, <2>3 DEF Recent
<1> QED
  BY <1>2, <1>3

(* RInv holds what AnswersAreRecent says. *)
LEMMA RInvSuffices == RInv => AnswersAreRecent
<1> SUFFICES ASSUME RInv PROVE AnswersAreRecent
  OBVIOUS
<1>1. TypesAreKept /\ CacheTTL[kind] \in Nat /\ MaxFetch \in Nat /\ clock \in Nat
  BY TTLFact, FetchFact DEF RInv, TypesAreKept
<1>2. ASSUME NEW n \in Nodes, Holds(n) PROVE Recent(n, held[n].value)
  <2>1. held[n] # Unheld /\ held[n] \in Entries /\ clock <= held[n].expires
    BY <1>1, <1>2 DEF Holds, TypesAreKept
  <2>2. held[n].expires \in Nat
    BY <2>1 DEF Entries
  <2> DEFINE t == held[n].expires - CacheTTL[kind] - MaxFetch
  <2>3. t \in Int /\ t >= clock - CacheTTL[kind] - MaxFetch
    BY <1>1, <2>1, <2>2
  <2>4. LastedTo(truth, told[n], held[n].value, t)
    BY <2>1 DEF RInv, EntriesAreYoung
  <2> HIDE DEF t
  <2> QED
    BY <1>1, <2>3, <2>4, LastedIsRecent
<1>3. ASSUME NEW r \in Readers, fetch[r] # Unheld PROVE Recent(fetch[r].node, fetch[r].value)
  <2>1. fetch[r].node \in Nodes /\ fetch[r].began \in Int
    BY <1>1, <1>3 DEF TypesAreKept, Fetches
  <2>2. /\ clock - fetch[r].began <= MaxFetch
        /\ LastedTo(truth, told[fetch[r].node], fetch[r].value, fetch[r].began)
    BY <1>3 DEF RInv, FetchesAreYoung
  <2>3. fetch[r].began >= clock - CacheTTL[kind] - MaxFetch
    BY <1>1, <2>1, <2>2
  <2> QED
    BY <1>1, <2>1, <2>2, <2>3, LastedIsRecent
<1> QED
  BY <1>2, <1>3 DEF AnswersAreRecent

(* Rows that are added later change nothing, if they are later than t. *)
LEMMA LastedStays ==
  ASSUME NEW rows \in Seq(Writes), NEW first \in 1..Len(rows), NEW value, NEW t \in Int,
         NEW w \in Writes, w.from >= t, LastedTo(rows, first, value, t)
  PROVE  LastedTo(Append(rows, w), first, value, t)
<1>1. PICK i \in first..Len(rows) :
        rows[i].value = value /\ (i = Len(rows) \/ rows[i+1].from >= t)
  BY DEF LastedTo
<1>2. /\ Len(Append(rows, w)) = Len(rows) + 1
      /\ \A k \in 1..Len(rows) : Append(rows, w)[k] = rows[k]
      /\ Append(rows, w)[Len(rows) + 1] = w
  OBVIOUS
<1>3. i \in first..Len(Append(rows, w)) /\ Append(rows, w)[i].value = value
  BY <1>1, <1>2
<1>4. Append(rows, w)[i+1].from >= t
  BY <1>1, <1>2
<1> QED
  BY <1>3, <1>4 DEF LastedTo

LEMMA CachesInit == ReadThroughInit => RInv
  BY ReadThroughAssumption
  DEF ReadThroughInit, RInv, TypesAreKept, FetchesAreYoung, EntriesAreYoung, Writes

-----------------------------------------------------------------------------
(* Steps of reads *)

LEMMA MissStep == ASSUME NEW r \in Readers, NEW n \in Nodes PROVE RInv /\ Miss(r, n) => RInv'
<1> SUFFICES ASSUME RInv, Miss(r, n) PROVE RInv'
  OBVIOUS
<1>1. TypesAreKept /\ Len(truth) \in 1..Len(truth) /\ truth[Len(truth)] \in Writes
  BY DEF RInv, TypesAreKept
<1>2. Row \in Int /\ MaxFetch \in Nat /\ clock \in Nat
  BY <1>1, FetchFact DEF Row, Writes, TypesAreKept
<1> DEFINE new == [node |-> n, value |-> Row, began |-> clock]
<1>3. new \in Fetches
  BY <1>2 DEF Fetches
<1>4. LastedTo(truth, told[n], Row, clock)
  BY <1>1 DEF LastedTo, Row, TypesAreKept
<1>5. /\ fetch' = [fetch EXCEPT ![r] = new]
      /\ UNCHANGED <<kind, truth, held, notices, told, clock>>
  BY DEF Miss
<1>6. TypesAreKept'
  BY <1>1, <1>3, <1>5 DEF TypesAreKept
<1>7. FetchesAreYoung'
  <2> SUFFICES ASSUME NEW q \in Readers, fetch'[q] # Unheld
               PROVE  /\ fetch'[q].began <= clock /\ clock - fetch'[q].began <= MaxFetch
                      /\ LastedTo(truth, told[fetch'[q].node], fetch'[q].value, fetch'[q].began)
    BY <1>5 DEF FetchesAreYoung
  <2>1. CASE q = r
    <3>1. fetch'[q] = new
      BY <1>1, <1>5, <2>1 DEF TypesAreKept
    <3>2. new.began = clock /\ new.node = n /\ new.value = Row
      OBVIOUS
    <3> QED
      BY <1>2, <1>4, <3>1, <3>2
  <2>2. CASE q # r
    BY <1>1, <1>5, <2>2 DEF RInv, FetchesAreYoung, TypesAreKept
  <2> QED
    BY <2>1, <2>2
<1>8. EntriesAreYoung'
  BY <1>5 DEF RInv, EntriesAreYoung
<1> QED
  BY <1>6, <1>7, <1>8 DEF RInv

(* A read ends: it fills the entry of its node, or nothing. *)
LEMMA EndStep == ASSUME NEW r \in Readers PROVE RInv /\ (Fill(r) \/ FetchFails(r)) => RInv'
<1> SUFFICES ASSUME RInv, Fill(r) \/ FetchFails(r) PROVE RInv'
  OBVIOUS
<1>1. TypesAreKept /\ CacheTTL[kind] \in Nat /\ MaxFetch \in Nat /\ clock \in Nat
  BY TTLFact, FetchFact DEF RInv, TypesAreKept
<1>2. /\ fetch[r] # Unheld /\ fetch[r] \in Fetches
      /\ fetch' = [fetch EXCEPT ![r] = Unheld]
      /\ UNCHANGED <<kind, truth, notices, told, clock>>
  BY <1>1 DEF Fill, FetchFails, TypesAreKept
<1> DEFINE n == fetch[r].node
           new == [value |-> fetch[r].value, expires |-> clock + CacheTTL[kind]]
<1>3. n \in Nodes /\ fetch[r].value \in Int /\ fetch[r].began \in Nat /\ new \in Entries
  BY <1>1, <1>2 DEF Fetches, Entries
<1>4. held' = held \/ held' = [held EXCEPT ![n] = new]
  BY DEF Fill, FetchFails
<1>5. TypesAreKept'
  <2> HIDE DEF n, new
  <2>1. DOMAIN held' = Nodes /\ held' = [m \in Nodes |-> held'[m]]
    BY <1>1, <1>4 DEF TypesAreKept
  <2>2. \A m \in Nodes : held'[m] # Unheld => held'[m] \in Entries
    BY <1>1, <1>3, <1>4 DEF TypesAreKept
  <2>3. DOMAIN fetch' = Readers /\ fetch' = [q \in Readers |-> fetch'[q]]
    BY <1>1, <1>2 DEF TypesAreKept
  <2>4. \A q \in Readers : fetch'[q] # Unheld => fetch'[q] \in Fetches
    BY <1>1, <1>2 DEF TypesAreKept
  <2> QED
    BY <1>1, <1>2, <2>1, <2>2, <2>3, <2>4 DEF TypesAreKept
<1>6. FetchesAreYoung'
  BY <1>1, <1>2 DEF RInv, FetchesAreYoung, TypesAreKept
<1>7. LastedTo(truth, told[n], fetch[r].value, clock - MaxFetch)
  <2>1. /\ clock - fetch[r].began <= MaxFetch
        /\ LastedTo(truth, told[n], fetch[r].value, fetch[r].began)
    BY <1>2 DEF RInv, FetchesAreYoung
  <2>2. PICK i \in told[n]..Len(truth) :
          truth[i].value = fetch[r].value /\ (i = Len(truth) \/ truth[i+1].from >= fetch[r].began)
    BY <2>1 DEF LastedTo
  <2>3. i # Len(truth) => truth[i+1] \in Writes
    BY <1>1, <1>3 DEF TypesAreKept
  <2>4. i # Len(truth) => truth[i+1].from >= clock - MaxFetch
    <3> SUFFICES ASSUME i # Len(truth) PROVE truth[i+1].from >= clock - MaxFetch
      OBVIOUS
    <3> DEFINE from == truth[i+1].from
               began == fetch[r].began
    <3>1. from \in Nat /\ from >= began
      BY <2>2, <2>3 DEF Writes
    <3>2. began \in Nat /\ clock - began <= MaxFetch
      BY <1>3, <2>1
    <3> HIDE DEF from, began
    <3>3. from >= clock - MaxFetch
      BY <1>1, <3>1, <3>2
    <3> QED
      BY <3>3 DEF from
  <2> QED
    BY <2>2, <2>4 DEF LastedTo
<1>8. EntriesAreYoung'
  <2> SUFFICES ASSUME NEW m \in Nodes, held'[m] # Unheld
               PROVE  /\ held'[m].expires <= clock + CacheTTL[kind]
                      /\ LastedTo(truth, told[m], held'[m].value,
                                   held'[m].expires - CacheTTL[kind] - MaxFetch)
    BY <1>2 DEF EntriesAreYoung
  <2>1. CASE held'[m] = held[m]
    BY <2>1 DEF RInv, EntriesAreYoung
  <2>2. CASE held'[m] # held[m]
    <3>1. m = n /\ held'[m] = new
      BY <1>1, <1>4, <2>2 DEF TypesAreKept
    <3>2. new.expires = clock + CacheTTL[kind] /\ new.value = fetch[r].value
      OBVIOUS
    <3>3. new.expires - CacheTTL[kind] - MaxFetch = clock - MaxFetch
      BY <1>1, <3>2
    <3> QED
      BY <1>1, <1>7, <3>1, <3>2, <3>3
  <2> QED
    BY <2>1, <2>2
<1> QED
  BY <1>5, <1>6, <1>8 DEF RInv

(* An entry that is given up takes nothing from the others. *)
LEMMA ForgetStep ==
  ASSUME RInv, NEW n \in Nodes, held' = [held EXCEPT ![n] = Unheld] \/ held' = held,
         UNCHANGED <<kind, truth, fetch, clock>>,
         told' = told \/
           (told' = [told EXCEPT ![n] = Len(truth)] /\ held' = [held EXCEPT ![n] = Unheld]
              /\ ~\E r \in Readers : fetch[r] # Unheld /\ fetch[r].node = n)
  PROVE  RInv'
<1>1. TypesAreKept
  BY DEF RInv
<1>2. TypesAreKept'
  <2>1. told' \in [Nodes -> Nat] /\ \A m \in Nodes : told'[m] \in 1..Len(truth)
    BY <1>1 DEF TypesAreKept
  <2>2. DOMAIN held' = Nodes /\ held' = [m \in Nodes |-> held'[m]]
    BY <1>1 DEF TypesAreKept
  <2>3. \A m \in Nodes : held'[m] # Unheld => held'[m] \in Entries
    BY <1>1 DEF TypesAreKept
  <2> QED
    BY <1>1, <2>1, <2>2, <2>3 DEF TypesAreKept
<1>3. ASSUME NEW m \in Nodes, held'[m] # Unheld PROVE held'[m] = held[m] /\ told'[m] = told[m]
  BY <1>1, <1>3 DEF TypesAreKept
<1>4. EntriesAreYoung'
  BY <1>3 DEF RInv, EntriesAreYoung
<1>5. ASSUME NEW r \in Readers, fetch[r] # Unheld PROVE told'[fetch[r].node] = told[fetch[r].node]
  BY <1>1, <1>5 DEF TypesAreKept, Fetches
<1>6. FetchesAreYoung'
  BY <1>5 DEF RInv, FetchesAreYoung
<1> QED
  BY <1>2, <1>4, <1>6 DEF RInv

-----------------------------------------------------------------------------
(* Steps of writes and of time *)

LEMMA PutStep ==
  ASSUME RInv, NEW v \in Int, Put(v), UNCHANGED <<kind, held, fetch, told, clock>>
  PROVE  RInv'
<1>1. TypesAreKept /\ CacheTTL[kind] \in Nat /\ MaxFetch \in Nat /\ clock \in Nat
  BY TTLFact, FetchFact DEF RInv, TypesAreKept
<1> DEFINE w == [value |-> v, from |-> clock]
<1>2. w \in Writes /\ w.from = clock /\ truth' = Append(truth, w)
  BY <1>1 DEF Writes, Put
<1>3. TypesAreKept'
  <2>1. truth' \in Seq(Writes) /\ truth' # <<>> /\ Len(truth') = Len(truth) + 1
    BY <1>1, <1>2 DEF TypesAreKept
  <2>2. \A n \in Nodes : told[n] \in 1..Len(truth')
    BY <1>1, <2>1 DEF TypesAreKept
  <2> QED
    BY <1>1, <2>1, <2>2 DEF TypesAreKept
<1> HIDE DEF w
<1>4. FetchesAreYoung'
  <2> SUFFICES ASSUME NEW r \in Readers, fetch[r] # Unheld
               PROVE  /\ fetch[r].began <= clock /\ clock - fetch[r].began <= MaxFetch
                      /\ LastedTo(truth', told[fetch[r].node], fetch[r].value, fetch[r].began)
    BY DEF FetchesAreYoung
  <2>1. fetch[r].node \in Nodes /\ fetch[r].began \in Int
    BY <1>1 DEF TypesAreKept, Fetches
  <2>2. /\ fetch[r].began <= clock /\ clock - fetch[r].began <= MaxFetch
        /\ LastedTo(truth, told[fetch[r].node], fetch[r].value, fetch[r].began)
    BY DEF RInv, FetchesAreYoung
  <2>3. truth \in Seq(Writes) /\ told[fetch[r].node] \in 1..Len(truth) /\ w.from >= fetch[r].began
    BY <1>1, <1>2, <2>1, <2>2 DEF TypesAreKept
  <2> QED
    BY <1>2, <2>1, <2>2, <2>3, LastedStays
<1>5. EntriesAreYoung'
  <2> SUFFICES ASSUME NEW n \in Nodes, held[n] # Unheld
               PROVE  /\ held[n].expires <= clock + CacheTTL[kind]
                      /\ LastedTo(truth', told[n], held[n].value,
                                   held[n].expires - CacheTTL[kind] - MaxFetch)
    BY DEF EntriesAreYoung
  <2> DEFINE t == held[n].expires - CacheTTL[kind] - MaxFetch
  <2>1. held[n].expires \in Nat
    BY <1>1 DEF TypesAreKept, Entries
  <2>2. held[n].expires <= clock + CacheTTL[kind] /\ LastedTo(truth, told[n], held[n].value, t)
    BY DEF RInv, EntriesAreYoung
  <2>3. t \in Int /\ w.from >= t
    BY <1>1, <1>2, <2>1, <2>2
  <2>4. truth \in Seq(Writes) /\ told[n] \in 1..Len(truth)
    BY <1>1 DEF TypesAreKept
  <2> HIDE DEF t
  <2>5. LastedTo(truth', told[n], held[n].value, t)
    BY <1>2, <2>2, <2>3, <2>4, LastedStays
  <2> QED
    BY <2>2, <2>5 DEF t
<1> QED
  BY <1>3, <1>4, <1>5 DEF RInv

LEMMA WriteStep ==
  ASSUME RInv, (\E n \in Nodes : ChangeKey(n) \/ ChangeCredential(n)) \/ ChangeSettings
  PROVE  RInv'
<1>1. Len(truth) \in Nat /\ Row \in Int
  <2>1. Len(truth) \in 1..Len(truth) /\ truth[Len(truth)] \in Writes
    BY DEF RInv, TypesAreKept
  <2> QED
    BY <2>1 DEF Row, Writes
<1>2. KeyRows \subseteq Int /\ CredentialRows \subseteq Int /\ SettingsRows \subseteq Int
  BY <1>1 DEF KeyRows, CredentialRows, SettingsRows
<1>3. \E v \in Int : Put(v) /\ UNCHANGED <<kind, held, fetch, told, clock>>
  BY <1>2 DEF ChangeKey, ChangeCredential, ChangeSettings
<1> QED
  BY <1>3, PutStep

LEMMA ElapseStep == RInv /\ Elapse => RInv'
<1> SUFFICES ASSUME RInv, Elapse PROVE RInv'
  OBVIOUS
<1>1. TypesAreKept /\ CacheTTL[kind] \in Nat /\ MaxFetch \in Nat /\ clock \in Nat
  BY TTLFact, FetchFact DEF RInv, TypesAreKept
<1>2. clock' = clock + 1 /\ UNCHANGED <<kind, truth, held, fetch, notices, told>>
  BY DEF Elapse
<1>3. TypesAreKept'
  BY <1>1, <1>2 DEF TypesAreKept
<1>4. FetchesAreYoung'
  <2> SUFFICES ASSUME NEW r \in Readers, fetch[r] # Unheld
               PROVE  /\ fetch[r].began <= clock' /\ clock' - fetch[r].began <= MaxFetch
                      /\ LastedTo(truth, told[fetch[r].node], fetch[r].value, fetch[r].began)
    BY <1>2 DEF FetchesAreYoung
  <2>1. fetch[r].began \in Nat /\ clock - fetch[r].began < MaxFetch
    BY <1>1 DEF TypesAreKept, Fetches, Elapse
  <2> QED
    BY <1>1, <1>2, <2>1 DEF RInv, FetchesAreYoung
<1>5. EntriesAreYoung'
  <2> SUFFICES ASSUME NEW n \in Nodes, held[n] # Unheld
               PROVE  /\ held[n].expires <= clock' + CacheTTL[kind]
                      /\ LastedTo(truth, told[n], held[n].value,
                                   held[n].expires - CacheTTL[kind] - MaxFetch)
    BY <1>2 DEF EntriesAreYoung
  <2>1. held[n].expires \in Nat
    BY <1>1 DEF TypesAreKept, Entries
  <2> QED
    BY <1>1, <1>2, <2>1 DEF RInv, EntriesAreYoung
<1> QED
  BY <1>3, <1>4, <1>5 DEF RInv

-----------------------------------------------------------------------------
LEMMA CachesNext == RInv /\ [ReadThroughNext]_cacheVars => RInv'
<1> SUFFICES ASSUME RInv, [ReadThroughNext]_cacheVars PROVE RInv'
  OBVIOUS
<1>1. ASSUME UNCHANGED cacheVars PROVE RInv'
  BY <1>1 DEF cacheVars, RInv, TypesAreKept, FetchesAreYoung, EntriesAreYoung
<1>2. ASSUME NEW r \in Readers, Fill(r) \/ FetchFails(r) PROVE RInv'
  BY <1>2, EndStep
<1>3. ASSUME NEW r \in Readers, NEW n \in Nodes, Miss(r, n) PROVE RInv'
  BY <1>3, MissStep
<1>4. ASSUME NEW n \in Nodes, Hit(n) PROVE RInv'
  BY <1>1, <1>4 DEF Hit
<1>5. ASSUME NEW n \in Nodes, Clear(n) \/ Lose(n) PROVE RInv'
  <2>1. /\ held' = [held EXCEPT ![n] = Unheld] \/ held' = held
        /\ told' = told /\ UNCHANGED <<kind, truth, fetch, clock>>
    BY <1>5 DEF Clear, Lose
  <2> QED
    BY <2>1, ForgetStep
<1>6. ASSUME NEW n \in Nodes, Invalidate(n) PROVE RInv'
  <2>1. told[n] = told[n] /\ told = [told EXCEPT ![n] = told[n]]
    BY DEF RInv, TypesAreKept
  <2>2. /\ held' = [held EXCEPT ![n] = Unheld] /\ UNCHANGED <<kind, truth, fetch, clock>>
        /\ \/ told' = told
           \/ /\ told' = [told EXCEPT ![n] = Len(truth)]
              /\ ~\E r \in Readers : fetch[r] # Unheld /\ fetch[r].node = n
    BY <1>6, <2>1 DEF Invalidate
  <2> QED
    BY <2>2, ForgetStep
<1>7. ASSUME NEW n \in Nodes, ChangeKey(n) \/ ChangeCredential(n) PROVE RInv'
  BY <1>7, WriteStep
<1>8. ASSUME ChangeSettings PROVE RInv'
  BY <1>8, WriteStep
<1>9. ASSUME Elapse PROVE RInv'
  BY <1>9, ElapseStep
<1> QED
  BY <1>1, <1>2, <1>3, <1>4, <1>5, <1>6, <1>7, <1>8, <1>9 DEF ReadThroughNext

(* However old an answer of the key resolver, the credential snapshot or   *)
(* the capture setting is, it is within a TTL and a fill, and as new as    *)
(* what its node was told of with no read under way.                       *)
THEOREM AnswersAreRecentCorrect == ReadThroughSpec => []AnswersAreRecent
<1>1. ReadThroughSpec => []RInv
  BY CachesInit, CachesNext, PTL DEF ReadThroughSpec
<1> QED
  BY <1>1, RInvSuffices, PTL

-----------------------------------------------------------------------------
(* The accounts stay whole for any callers, emails and names, and however  *)
(* many organizations, users and applications there are.                   *)
(*                                                                         *)
(* The inductive invariant.  A handler between two statements already      *)
(* holds what it is about to insert: the row's organization exists, and a  *)
(* user who is being signed in is stored.                                  *)

(* Organizations are numbered without a gap, so that the next is new. *)
OrgsAreNumbered == \E n \in Nat : orgs = 1..n

UsersBelong ==
  \A u \in users : u = [org |-> u.org, email |-> u.email, role |-> u.role] /\ u.org \in orgs

AppsBelong ==
  \A a \in apps : a = [org |-> a.org, slug |-> a.slug, status |-> a.status] /\ a.org \in orgs

SessionsBelong == sessions \subseteq users

UsersAreDistinct == \A u, v \in users : u.org = v.org /\ u.email = v.email => u = v
SlugsAreDistinct == \A a, b \in apps : a.org = b.org /\ a.slug = b.slug => a = b

(* What a handler that has reached a statement holds. *)
Holding(step) ==
  \/ step = Free
  \/ step = [at |-> "create_org", email |-> step.email]
  \/ step = [at |-> "create_owner", org |-> step.org, email |-> step.email] /\ step.org \in orgs
  \/ step = [at |-> "sign_in", user |-> step.user] /\ step.user \in users
  \/ /\ step = [at |-> "create_user", user |-> step.user] /\ step.user.org \in orgs
     /\ step.user = [org |-> step.user.org, email |-> step.user.email, role |-> step.user.role]
  \/ /\ step = [at |-> "create_app", app |-> step.app] /\ step.app.org \in orgs
     /\ step.app = [org |-> step.app.org, slug |-> step.app.slug, status |-> step.app.status]

CallsAreSound == call = [c \in Callers |-> call[c]] /\ \A c \in Callers : Holding(call[c])

OwnedOrUnderWay(o) ==
  \/ \E u \in users : u.org = o /\ u.role = "owner"
  \/ o \in broken \/ \E c \in Callers : call[c].at = "create_owner" /\ call[c].org = o
OrgsAreOwned == \A o \in orgs : OwnedOrUnderWay(o)

AInv ==
  /\ OrgsAreNumbered /\ UsersBelong /\ AppsBelong /\ SessionsBelong
  /\ UsersAreDistinct /\ SlugsAreDistinct /\ CallsAreSound /\ OrgsAreOwned

LEMMA AccountsStart == AccountsInit => AInv
<1> SUFFICES ASSUME AccountsInit PROVE AInv
  OBVIOUS
<1>1. orgs = 1..0
  BY DEF AccountsInit
<1>2. OrgsAreNumbered
  BY <1>1 DEF OrgsAreNumbered
<1>3. CallsAreSound
  BY DEF AccountsInit, CallsAreSound, Holding
<1> QED
  BY <1>2, <1>3 DEF AccountsInit, AInv, UsersBelong, AppsBelong, SessionsBelong,
     UsersAreDistinct, SlugsAreDistinct, OrgsAreOwned

LEMMA AInvSuffices == AInv => AccountsAreWhole
  BY DEF AInv, AccountsAreWhole, AppsBelong, SessionsBelong, UsersAreDistinct,
     SlugsAreDistinct, OrgsAreOwned, OwnedOrUnderWay

(* The number after the last organization's is not taken. *)
LEMMA NextOrgIsNew ==
  ASSUME OrgsAreNumbered
  PROVE  /\ Cardinality(orgs) + 1 \notin orgs
         /\ \E n \in Nat : orgs \cup {Cardinality(orgs) + 1} = 1..n
<1>1. PICK n \in Nat : orgs = 1..n
  BY DEF OrgsAreNumbered
<1>2. Cardinality(orgs) = n
  BY <1>1, FS_Interval
<1>3. 1..n \cup {n + 1} = 1..n+1
  OBVIOUS
<1> QED
  BY <1>1, <1>2, <1>3

-----------------------------------------------------------------------------
(* A handler moves on, or ends, without touching a table: what it leaves   *)
(* is sound, and if it gives up an organization it is on record.           *)
LEMMA MoveStep ==
  ASSUME AInv, NEW c \in Callers, NEW step, Holding(step), Goto(c, step),
         UNCHANGED <<orgs, users, apps>>, sessions' \subseteq users,
         broken \subseteq broken',
         call[c].at = "create_owner" => call[c].org \in broken'
  PROVE  AInv'
<1>1. call = [d \in Callers |-> call[d]] /\ call' = [call EXCEPT ![c] = step]
  BY DEF AInv, CallsAreSound, Goto
<1>2. call' = [d \in Callers |-> call'[d]] /\ call'[c] = step
      /\ \A d \in Callers \ {c} : call'[d] = call[d]
  BY <1>1
<1>3. CallsAreSound'
  BY <1>2 DEF AInv, CallsAreSound, Holding
<1>4. OrgsAreOwned'
  BY <1>2 DEF AInv, OrgsAreOwned, OwnedOrUnderWay
<1> QED
  BY <1>3, <1>4 DEF AInv, OrgsAreNumbered, UsersBelong, AppsBelong, SessionsBelong,
     UsersAreDistinct, SlugsAreDistinct

(* What the statement a handler has reached says of what it holds. *)
LEMMA HoldingFacts ==
  ASSUME NEW step, Holding(step)
  PROVE  /\ step.at = "create_owner" => step.org \in orgs
         /\ step.at = "sign_in" => step.user \in users
         /\ step.at = "create_user" =>
              /\ step.user.org \in orgs
              /\ step.user = [org |-> step.user.org, email |-> step.user.email, role |-> step.user.role]
         /\ step.at = "create_app" =>
              /\ step.app.org \in orgs
              /\ step.app = [org |-> step.app.org, slug |-> step.app.slug, status |-> step.app.status]
<1>1. CASE step = Free
  <2>1. step.at = "free"
    BY <1>1 DEF Free
  <2> QED
    BY <2>1
<1>2. CASE step = [at |-> "create_org", email |-> step.email]
  <2>1. step.at = "create_org"
    BY <1>2
  <2> QED
    BY <2>1
<1>3. CASE step = [at |-> "create_owner", org |-> step.org, email |-> step.email] /\ step.org \in orgs
  <2>1. step.at = "create_owner"
    BY <1>3
  <2> QED
    BY <1>3, <2>1
<1>4. CASE step = [at |-> "sign_in", user |-> step.user] /\ step.user \in users
  <2>1. step.at = "sign_in"
    BY <1>4
  <2> QED
    BY <1>4, <2>1
<1>5. CASE /\ step = [at |-> "create_user", user |-> step.user] /\ step.user.org \in orgs
           /\ step.user = [org |-> step.user.org, email |-> step.user.email, role |-> step.user.role]
  <2>1. step.at = "create_user"
    BY <1>5
  <2> QED
    BY <1>5, <2>1
<1>6. CASE /\ step = [at |-> "create_app", app |-> step.app] /\ step.app.org \in orgs
           /\ step.app = [org |-> step.app.org, slug |-> step.app.slug, status |-> step.app.status]
  <2>1. step.at = "create_app"
    BY <1>6
  <2> QED
    BY <1>6, <2>1
<1> QED
  BY <1>1, <1>2, <1>3, <1>4, <1>5, <1>6 DEF Holding

(* The caller of a statement moves on; the others are where they were. *)
LEMMA CallsMove ==
  ASSUME CallsAreSound, NEW c \in Callers, NEW step, Goto(c, step)
  PROVE  /\ call' = [d \in Callers |-> call'[d]] /\ call'[c] = step
         /\ \A d \in Callers \ {c} : call'[d] = call[d]
<1>1. call = [d \in Callers |-> call[d]] /\ call' = [call EXCEPT ![c] = step]
  BY DEF CallsAreSound, Goto
<1> QED
  BY <1>1

(* The calls stay sound under a statement that adds rows. *)
LEMMA CallsStaySound ==
  ASSUME CallsAreSound, NEW c \in Callers, NEW step, Goto(c, step), Holding(step)',
         orgs \subseteq orgs', users \subseteq users'
  PROVE  CallsAreSound'
<1>1. /\ call' = [d \in Callers |-> call'[d]] /\ call'[c] = step
      /\ \A d \in Callers \ {c} : call'[d] = call[d]
  BY CallsMove
<1>2. ASSUME NEW d \in Callers PROVE Holding(call[d])'
  <2>1. CASE d = c
    BY <1>1, <2>1 DEF Holding
  <2>2. CASE d # c
    BY <1>1, <2>2 DEF CallsAreSound, Holding
  <2> QED
    BY <2>1, <2>2
<1> QED
  BY <1>1, <1>2 DEF CallsAreSound

-----------------------------------------------------------------------------
(* Statements that insert a row *)

LEMMA SetupOrgStep == ASSUME AInv, NEW c \in Callers, SetupOrg(c) PROVE AInv'
<1>1. PICK org, step :
        /\ org = Cardinality(orgs) + 1
        /\ step = [at |-> "create_owner", org |-> org, email |-> step.email]
        /\ call[c].at = "create_org" /\ orgs' = orgs \cup {org} /\ Goto(c, step)
        /\ UNCHANGED <<users, sessions, apps, broken>>
  <2> DEFINE org == Cardinality(orgs) + 1
             step == [at |-> "create_owner", org |-> org, email |-> call[c].email]
  <2>1. step = [at |-> "create_owner", org |-> org, email |-> step.email]
    OBVIOUS
  <2>2. /\ call[c].at = "create_org" /\ orgs' = orgs \cup {org} /\ Goto(c, step)
        /\ UNCHANGED <<users, sessions, apps, broken>>
    BY DEF SetupOrg
  <2> QED
    BY <2>1, <2>2
<1>2. OrgsAreNumbered'
  BY <1>1, NextOrgIsNew DEF AInv, OrgsAreNumbered
<1>3. Holding(step)'
  <2>1. step.org = org
    BY <1>1
  <2> QED
    BY <1>1, <2>1 DEF Holding
<1>4. step.at = "create_owner" /\ step.org = org
  BY <1>1
<1>5. CallsAreSound'
  BY <1>1, <1>3, CallsStaySound DEF AInv
<1>6. call'[c] = step /\ \A d \in Callers \ {c} : call'[d] = call[d]
  BY <1>1, CallsMove DEF AInv
<1>7. OrgsAreOwned'
  <2> SUFFICES ASSUME NEW o \in orgs' PROVE OwnedOrUnderWay(o)'
    BY DEF OrgsAreOwned
  <2>1. CASE o = org
    BY <1>4, <1>6, <2>1 DEF OwnedOrUnderWay
  <2>2. CASE o \in orgs
    <3>1. OwnedOrUnderWay(o)
      BY <2>2 DEF AInv, OrgsAreOwned
    <3>2. ASSUME NEW d \in Callers, call[d].at = "create_owner" PROVE call'[d] = call[d]
      BY <1>1, <1>6, <3>2
    <3> QED
      BY <1>1, <3>1, <3>2 DEF OwnedOrUnderWay
  <2> QED
    BY <1>1, <2>1, <2>2
<1>8. UsersBelong' /\ AppsBelong' /\ SessionsBelong' /\ UsersAreDistinct' /\ SlugsAreDistinct'
  BY <1>1 DEF AInv, UsersBelong, AppsBelong, SessionsBelong, UsersAreDistinct, SlugsAreDistinct
<1> QED
  BY <1>2, <1>5, <1>7, <1>8 DEF AInv

(* A user that its unique index admits, inserted by a caller who moves on. *)
LEMMA NewUserStep ==
  ASSUME AInv, NEW c \in Callers, NEW step, Goto(c, step), NEW user, CreateUser(user),
         user = [org |-> user.org, email |-> user.email, role |-> user.role],
         user.org \in orgs, Holding(step)',
         UNCHANGED <<orgs, sessions, apps, broken>>,
         call[c].at = "create_owner" => user.role = "owner" /\ user.org = call[c].org
  PROVE  AInv'
<1>1. users' = users \cup {user} /\ ~\E u \in users : u.org = user.org /\ u.email = user.email
  BY DEF CreateUser
<1>2. UsersBelong' /\ SessionsBelong' /\ UsersAreDistinct'
  BY <1>1 DEF AInv, UsersBelong, SessionsBelong, UsersAreDistinct
<1>3. CallsAreSound'
  BY <1>1, CallsStaySound DEF AInv
<1>4. \A d \in Callers \ {c} : call'[d] = call[d]
  BY CallsMove DEF AInv
<1>5. OrgsAreOwned'
  <2> SUFFICES ASSUME NEW o \in orgs PROVE OwnedOrUnderWay(o)'
    BY DEF OrgsAreOwned
  <2>1. OwnedOrUnderWay(o)
    BY DEF AInv, OrgsAreOwned
  <2>2. ASSUME call[c].at = "create_owner", call[c].org = o PROVE OwnedOrUnderWay(o)'
    BY <1>1, <2>2 DEF OwnedOrUnderWay
  <2>3. ASSUME NEW d \in Callers \ {c}, call[d].at = "create_owner", call[d].org = o
        PROVE  OwnedOrUnderWay(o)'
    BY <1>4, <2>3 DEF OwnedOrUnderWay
  <2>4. ASSUME (\E u \in users : u.org = o /\ u.role = "owner") \/ o \in broken
        PROVE  OwnedOrUnderWay(o)'
    BY <1>1, <2>4 DEF OwnedOrUnderWay
  <2> QED
    BY <2>1, <2>2, <2>3, <2>4 DEF OwnedOrUnderWay
<1>6. OrgsAreNumbered' /\ AppsBelong' /\ SlugsAreDistinct'
  BY DEF AInv, OrgsAreNumbered, AppsBelong, SlugsAreDistinct
<1> QED
  BY <1>2, <1>3, <1>5, <1>6 DEF AInv

LEMMA SetupOwnerStep == ASSUME AInv, NEW c \in Callers, SetupOwner(c) PROVE AInv'
<1>1. PICK user :
        /\ user = [org |-> call[c].org, email |-> call[c].email, role |-> "owner"]
        /\ call[c].at = "create_owner" /\ CreateUser(user)
        /\ Goto(c, [at |-> "sign_in", user |-> user])
        /\ UNCHANGED <<orgs, sessions, apps, broken>>
  BY DEF SetupOwner
<1> DEFINE step == [at |-> "sign_in", user |-> user]
<1>2. call[c].org \in orgs
  BY <1>1, HoldingFacts DEF AInv, CallsAreSound
<1>3. user \in users'
  BY <1>1 DEF CreateUser
<1>4. Holding(step)'
  BY <1>3 DEF Holding
<1>5. /\ user = [org |-> user.org, email |-> user.email, role |-> user.role]
      /\ user.org = call[c].org /\ user.role = "owner"
  BY <1>1
<1>6. Goto(c, step)
  BY <1>1
<1> HIDE DEF step
<1> QED
  BY <1>1, <1>2, <1>4, <1>5, <1>6, NewUserStep

LEMMA InviteUserStep == ASSUME AInv, NEW c \in Callers, InviteUser(c) PROVE AInv'
<1>1. PICK user :
        /\ user = call[c].user
        /\ call[c].at = "create_user" /\ CreateUser(user) /\ Goto(c, Free)
        /\ UNCHANGED <<orgs, sessions, apps, broken>>
  BY DEF InviteUser, Return, Goto
<1>2. /\ user.org \in orgs
      /\ user = [org |-> user.org, email |-> user.email, role |-> user.role]
  BY <1>1, HoldingFacts DEF AInv, CallsAreSound
<1>3. Holding(Free)'
  BY DEF Holding, Free
<1> QED
  BY <1>1, <1>2, <1>3, NewUserStep

(* Rows of applications change under no other's hand. *)
LEMMA AppsStep ==
  ASSUME AInv, AppsBelong', SlugsAreDistinct', UNCHANGED <<orgs, users, sessions, broken>>,
         \/ UNCHANGED call
         \/ \E c \in Callers : Goto(c, Free) /\ call[c].at # "create_owner"
  PROVE  AInv'
<1>1. CASE UNCHANGED call
  BY <1>1 DEF AInv, OrgsAreNumbered, UsersBelong, SessionsBelong, UsersAreDistinct,
     CallsAreSound, Holding, OrgsAreOwned, OwnedOrUnderWay
<1>2. CASE \E c \in Callers : Goto(c, Free) /\ call[c].at # "create_owner"
  <2>1. PICK c \in Callers : Goto(c, Free) /\ call[c].at # "create_owner"
    BY <1>2
  <2>2. Holding(Free)'
    BY DEF Holding
  <2>3. CallsAreSound'
    BY <2>1, <2>2, CallsStaySound DEF AInv
  <2>4. \A d \in Callers \ {c} : call'[d] = call[d]
    BY <2>1, CallsMove DEF AInv
  <2>5. OrgsAreOwned'
    BY <2>1, <2>4 DEF AInv, OrgsAreOwned, OwnedOrUnderWay
  <2> QED
    BY <2>3, <2>5 DEF AInv, OrgsAreNumbered, UsersBelong, SessionsBelong, UsersAreDistinct
<1> QED
  BY <1>1, <1>2

LEMMA InsertApplicationStep == ASSUME AInv, NEW c \in Callers, InsertApplication(c) PROVE AInv'
<1>1. PICK app :
        /\ app = call[c].app
        /\ call[c].at = "create_app" /\ CreateApp(app) /\ Goto(c, Free)
        /\ UNCHANGED <<orgs, users, sessions, broken>>
  BY DEF InsertApplication, Return, Goto
<1>2. /\ app.org \in orgs
      /\ app = [org |-> app.org, slug |-> app.slug, status |-> app.status]
  BY <1>1, HoldingFacts DEF AInv, CallsAreSound
<1>3. AppsBelong' /\ SlugsAreDistinct'
  BY <1>1, <1>2 DEF AInv, AppsBelong, SlugsAreDistinct, CreateApp
<1>4. call[c].at # "create_owner"
  BY <1>1
<1> QED
  BY <1>1, <1>3, <1>4, AppsStep

LEMMA StatusStep == ASSUME AInv, NEW status, SetApplicationStatus(status) PROVE AInv'
<1>1. PICK a \in apps : apps' = (apps \ {a}) \cup {[a EXCEPT !.status = status]}
  BY DEF SetApplicationStatus
<1>2. UNCHANGED <<orgs, users, sessions, call, broken>>
  BY DEF SetApplicationStatus
<1> DEFINE new == [a EXCEPT !.status = status]
<1>3. a = [org |-> a.org, slug |-> a.slug, status |-> a.status] /\ a.org \in orgs
  BY DEF AInv, AppsBelong
<1>4. new = [org |-> new.org, slug |-> new.slug, status |-> new.status]
      /\ new.org = a.org /\ new.slug = a.slug
  BY <1>3
<1> HIDE DEF new
<1>5. apps' = (apps \ {a}) \cup {new}
  BY <1>1 DEF new
<1>6. AppsBelong'
  BY <1>2, <1>3, <1>4, <1>5 DEF AInv, AppsBelong
<1>7. SlugsAreDistinct'
  BY <1>4, <1>5 DEF AInv, SlugsAreDistinct
<1> QED
  BY <1>2, <1>6, <1>7, AppsStep

-----------------------------------------------------------------------------
(* The other steps move a handler on, or sign a user in or out. *)

LEMMA HandlerStep ==
  ASSUME AInv, NEW c \in Callers,
         \/ \E email \in Emails : Setup(c, email) \/ \E role \in {"owner", "member"} : Invite(c, email, role)
         \/ \E name \in Names : CreateApplication(c, name)
         \/ SignIn(c) \/ Login(c) \/ BreakOff(c)
  PROVE  AInv'
<1>1. ASSUME NEW email \in Emails, Setup(c, email) PROVE AInv'
  <2> DEFINE step == [at |-> "create_org", email |-> email]
  <2>1. Holding(step)
    BY DEF Holding
  <2>2. /\ call[c].at # "create_owner" /\ Goto(c, step)
        /\ UNCHANGED <<orgs, users, apps, sessions, broken>>
    BY <1>1 DEF Setup, Free
  <2> HIDE DEF step
  <2> QED
    BY <2>1, <2>2, MoveStep DEF AInv, SessionsBelong
<1>2. ASSUME NEW email \in Emails, NEW role \in {"owner", "member"}, Invite(c, email, role) PROVE AInv'
  <2>1. PICK s \in sessions :
          Goto(c, [at |-> "create_user", user |-> [org |-> s.org, email |-> email, role |-> role]])
    BY <1>2 DEF Invite
  <2> DEFINE step == [at |-> "create_user", user |-> [org |-> s.org, email |-> email, role |-> role]]
  <2>2. s.org \in orgs
    BY DEF AInv, SessionsBelong, UsersBelong
  <2>3. Holding(step)
    BY <2>2 DEF Holding
  <2>4. /\ call[c].at # "create_owner" /\ Goto(c, step)
        /\ UNCHANGED <<orgs, users, apps, sessions, broken>>
    BY <1>2, <2>1 DEF Invite, Free
  <2> HIDE DEF step
  <2> QED
    BY <2>3, <2>4, MoveStep DEF AInv, SessionsBelong
<1>3. ASSUME NEW name \in Names, CreateApplication(c, name) PROVE AInv'
  <2>1. PICK s \in sessions : Goto(c, [at |-> "create_app",
          app |-> [org |-> s.org, slug |-> UniqueSlug(s.org, name), status |-> "active"]])
    BY <1>3 DEF CreateApplication
  <2> DEFINE step == [at |-> "create_app",
               app |-> [org |-> s.org, slug |-> UniqueSlug(s.org, name), status |-> "active"]]
  <2>2. s.org \in orgs
    BY DEF AInv, SessionsBelong, UsersBelong
  <2>3. Holding(step)
    BY <2>2 DEF Holding
  <2>4. /\ call[c].at # "create_owner" /\ Goto(c, step)
        /\ UNCHANGED <<orgs, users, apps, sessions, broken>>
    BY <1>3, <2>1 DEF CreateApplication, Free
  <2> HIDE DEF step
  <2> QED
    BY <2>3, <2>4, MoveStep DEF AInv, SessionsBelong
<1>4. ASSUME SignIn(c) PROVE AInv'
  <2>1. /\ call[c].at = "sign_in" /\ sessions' = sessions \cup {call[c].user} /\ Goto(c, Free)
        /\ UNCHANGED <<orgs, users, apps, broken>>
    BY <1>4 DEF SignIn, Return, Goto
  <2>2. Holding(Free) /\ call[c].user \in users /\ sessions' \subseteq users
    BY <2>1, HoldingFacts DEF AInv, CallsAreSound, Holding, SessionsBelong
  <2> QED
    BY <2>1, <2>2, MoveStep
<1>5. ASSUME Login(c) PROVE AInv'
  <2>1. PICK u \in users : Goto(c, [at |-> "sign_in", user |-> u])
    BY <1>5 DEF Login
  <2>2. Holding([at |-> "sign_in", user |-> u])
    BY DEF Holding
  <2>3. call[c].at # "create_owner" /\ UNCHANGED <<orgs, users, apps, sessions, broken>>
    BY <1>5 DEF Login, Free
  <2> QED
    BY <2>1, <2>2, <2>3, MoveStep DEF AInv, SessionsBelong
<1>6. ASSUME BreakOff(c) PROVE AInv'
  <2>1. /\ Goto(c, Free) /\ UNCHANGED <<orgs, users, apps, sessions>>
        /\ broken' = IF call[c].at = "create_owner" THEN broken \cup {call[c].org} ELSE broken
    BY <1>6 DEF BreakOff, Return, Goto
  <2>2. Holding(Free)
    BY DEF Holding
  <2> QED
    BY <2>1, <2>2, MoveStep DEF AInv, SessionsBelong
<1> QED
  BY <1>1, <1>2, <1>3, <1>4, <1>5, <1>6

LEMMA LogoutStep == ASSUME AInv, Logout PROVE AInv'
  BY DEF Logout, AInv, OrgsAreNumbered, UsersBelong, AppsBelong, SessionsBelong, UsersAreDistinct,
     SlugsAreDistinct, CallsAreSound, Holding, OrgsAreOwned, OwnedOrUnderWay

LEMMA AccountsStep == AInv /\ [AccountsNext]_accountVars => AInv'
<1> SUFFICES ASSUME AInv, [AccountsNext]_accountVars PROVE AInv'
  OBVIOUS
<1>1. ASSUME UNCHANGED accountVars PROVE AInv'
  BY <1>1 DEF accountVars, AInv, OrgsAreNumbered, UsersBelong, AppsBelong, SessionsBelong,
     UsersAreDistinct, SlugsAreDistinct, CallsAreSound, Holding, OrgsAreOwned, OwnedOrUnderWay
<1>2. ASSUME NEW c \in Callers,
             \/ \E email \in Emails : Setup(c, email) \/ \E role \in {"owner", "member"} : Invite(c, email, role)
             \/ SetupOrg(c) \/ SetupOwner(c) \/ SignIn(c) \/ Login(c) \/ InviteUser(c) \/ BreakOff(c)
             \/ (\E name \in Names : CreateApplication(c, name)) \/ InsertApplication(c)
      PROVE  AInv'
  BY <1>2, HandlerStep, SetupOrgStep, SetupOwnerStep, InviteUserStep, InsertApplicationStep
<1> QED
  BY <1>1, <1>2, LogoutStep, StatusStep DEF AccountsNext

(* Whatever calls overlap or break off, no organization is without an      *)
(* owner unnoticed, no row or session refers to a missing one, and the     *)
(* indexes keep apart what the handlers' lookups cannot.                   *)
THEOREM AccountsAreWholeCorrect == AccountsSpec => []AccountsAreWhole
<1>1. AccountsSpec => []AInv
  BY AccountsStart, AccountsStep, PTL DEF AccountsSpec
<1> QED
  BY <1>1, AInvSuffices, PTL

-----------------------------------------------------------------------------
(* FlattenSeq, of sequences with at most one element each: the element of  *)
(* one that is not empty lands at its place among those that are not.      *)
(* The fold is the g for which the library's definition chooses; there is  *)
(* one, made for the first n sequences.                                    *)
Flats(g, seqs, n) ==
  /\ g[1] = seqs[1]
  /\ \A i \in 1..n : i # 1 => g[i] = g[i-1] \o seqs[i]
IsFlat(g, seqs) ==
  g = [i \in 1..Len(seqs) |-> IF i = 1 THEN seqs[i] ELSE g[i-1] \o seqs[i]]

LEMMA FlatIsChosen ==
  ASSUME NEW seqs, Len(seqs) # 0
  PROVE  FlattenSeq(seqs) = (CHOOSE g : IsFlat(g, seqs))[Len(seqs)]
  BY DEF FlattenSeq, IsFlat

LEMMA ConcatFact ==
  ASSUME NEW S, NEW s \in Seq(S), NEW t \in Seq(S), NEW n \in Nat, Len(s) = n
  PROVE  /\ s \o t \in Seq(S) /\ Len(s \o t) = n + Len(t)
         /\ \A p \in 1..n : (s \o t)[p] = s[p]
         /\ Len(t) = 1 => (s \o t)[n+1] = t[1]
<1>1. Len(t) \in Nat
  OBVIOUS
<1>2. \A p \in 1..n + Len(t) : (s \o t)[p] = IF p <= n THEN s[p] ELSE t[p - n]
  BY ConcatProperties
<1>3. \A p \in 1..n : p \in 1..n + Len(t) /\ p <= n
  BY <1>1
<1>4. ASSUME Len(t) = 1 PROVE (s \o t)[n+1] = t[1]
  <2>1. n + 1 \in 1..n + Len(t) /\ ~(n + 1 <= n) /\ (n + 1) - n = 1
    BY <1>4
  <2> QED
    BY <1>2, <2>1
<1> QED
  BY <1>2, <1>3, <1>4, ConcatProperties

LEMMA FlatExists ==
  ASSUME NEW S, NEW seqs \in Seq(Seq(S)), Len(seqs) # 0
  PROVE  \E g : IsFlat(g, seqs) /\ g \in [1..Len(seqs) -> Seq(S)]
<1> DEFINE L == Len(seqs)
           N == {n \in Nat : n + 1 <= L => \E g \in [1..L -> Seq(S)] : Flats(g, seqs, n + 1)}
<1>1. L \in Nat /\ L >= 1 /\ \A i \in 1..L : seqs[i] \in Seq(S)
  OBVIOUS
<1> HIDE DEF L
<1>2. 0 \in N
  <2> DEFINE g == [i \in 1..L |-> seqs[1]]
  <2>1. g \in [1..L -> Seq(S)] /\ g[1] = seqs[1]
    BY <1>1
  <2> HIDE DEF g
  <2>2. Flats(g, seqs, 1)
    BY <2>1 DEF Flats
  <2> QED
    BY <2>1, <2>2
<1>3. ASSUME NEW n \in Nat, n \in N PROVE n + 1 \in N
  <2>1. CASE n + 2 <= L
    <3>1. PICK g \in [1..L -> Seq(S)] : Flats(g, seqs, n + 1)
      BY <1>1, <1>3, <2>1
    <3> DEFINE t == g[n + 1] \o seqs[n + 2]
               h == [i \in 1..L |-> IF i = n + 2 THEN t ELSE g[i]]
    <3>2. n + 1 \in 1..L /\ n + 2 \in 1..L
      BY <1>1, <2>1
    <3>3. t \in Seq(S)
      <4>1. g[n + 1] \in Seq(S) /\ seqs[n + 2] \in Seq(S)
        BY <1>1, <3>2
      <4> QED
        BY <4>1, ConcatProperties
    <3> HIDE DEF t
    <3>4. h \in [1..L -> Seq(S)]
      BY <3>3
    <3>5. h[n + 2] = t /\ \A i \in 1..n+1 : h[i] = g[i]
      <4>1. \A i \in 1..n+1 : i \in 1..L /\ i # n + 2
        BY <1>1, <2>1
      <4> QED
        BY <3>2, <4>1
    <3> HIDE DEF h
    <3>6. ASSUME NEW i \in 1..n+2, i # 1 PROVE h[i] = h[i-1] \o seqs[i]
      <4>1. CASE i = n + 2
        <5>1. h[i-1] = g[n + 1]
          BY <3>5, <4>1
        <5> QED
          BY <3>5, <4>1, <5>1 DEF t
      <4>2. CASE i # n + 2
        <5>1. i \in 1..n+1 /\ i - 1 \in 1..n+1
          BY <3>6, <4>2
        <5> QED
          BY <3>1, <3>5, <3>6, <5>1 DEF Flats
      <4> QED
        BY <4>1, <4>2
    <3>7. h[1] = seqs[1]
      BY <3>1, <3>5 DEF Flats
    <3>8. Flats(h, seqs, n + 2)
      BY <3>6, <3>7 DEF Flats
    <3>9. (n + 1) + 1 = n + 2
      OBVIOUS
    <3> QED
      BY <3>4, <3>8, <3>9
  <2>2. CASE ~(n + 2 <= L)
    BY <1>1, <2>2
  <2> QED
    BY <2>1, <2>2
<1> HIDE DEF N
<1>4. L - 1 \in N
  <2>1. L - 1 \in Nat
    BY <1>1
  <2> QED
    BY <1>2, <1>3, <2>1, NumberInduction
<1> USE DEF N
<1>5. PICK g \in [1..L -> Seq(S)] : Flats(g, seqs, L)
  <2>1. (L - 1) + 1 = L
    BY <1>1
  <2> QED
    BY <1>1, <1>4, <2>1
<1>6. \A i \in 1..L : g[i] = IF i = 1 THEN seqs[i] ELSE g[i-1] \o seqs[i]
  BY <1>5 DEF Flats
<1>7. g = [i \in 1..L |-> IF i = 1 THEN seqs[i] ELSE g[i-1] \o seqs[i]]
  BY <1>6
<1> QED
  BY <1>5, <1>7 DEF IsFlat, L

Places(seqs, n) == {j \in 1..n : seqs[j] # <<>>}

LEMMA PlacesFact ==
  ASSUME NEW seqs, NEW n \in Nat
  PROVE  /\ Cardinality(Places(seqs, n)) \in Nat
         /\ seqs[n + 1] = <<>> => Places(seqs, n + 1) = Places(seqs, n)
         /\ seqs[n + 1] # <<>> => Cardinality(Places(seqs, n + 1)) = Cardinality(Places(seqs, n)) + 1
         /\ \A m \in 0..n : Cardinality(Places(seqs, m)) <= Cardinality(Places(seqs, n))
<1>1. IsFiniteSet(Places(seqs, n))
  <2>1. Places(seqs, n) \subseteq 1..n
    BY DEF Places
  <2> QED
    BY <2>1, FS_Interval, FS_Subset
<1>2. ASSUME seqs[n + 1] = <<>> PROVE Places(seqs, n + 1) = Places(seqs, n)
  BY <1>2 DEF Places
<1>3. ASSUME seqs[n + 1] # <<>> PROVE Cardinality(Places(seqs, n + 1)) = Cardinality(Places(seqs, n)) + 1
  <2>1. Places(seqs, n + 1) = Places(seqs, n) \cup {n + 1} /\ n + 1 \notin Places(seqs, n)
    BY <1>3 DEF Places
  <2> QED
    BY <1>1, <2>1, FS_AddElement
<1>4. ASSUME NEW m \in 0..n PROVE Cardinality(Places(seqs, m)) <= Cardinality(Places(seqs, n))
  <2>1. Places(seqs, m) \subseteq Places(seqs, n)
    BY <1>4 DEF Places
  <2> QED
    BY <1>1, <2>1, FS_Subset
<1> QED
  BY <1>1, <1>2, <1>3, <1>4, FS_CardinalityType

LEMMA FlattenPlaces ==
  ASSUME NEW S, NEW seqs \in Seq(Seq(S)), \A i \in 1..Len(seqs) : Len(seqs[i]) <= 1
  PROVE  /\ FlattenSeq(seqs) \in Seq(S)
         /\ Len(FlattenSeq(seqs)) = Cardinality(Places(seqs, Len(seqs)))
         /\ \A i \in 1..Len(seqs) : seqs[i] # <<>> =>
              FlattenSeq(seqs)[Cardinality(Places(seqs, i))] = seqs[i][1]
<1> DEFINE L == Len(seqs)
           C(n) == Cardinality(Places(seqs, n))
<1>1. CASE L = 0
  <2>1. FlattenSeq(seqs) = <<>> /\ seqs = <<>>
    BY <1>1, EmptySeq DEF FlattenSeq
  <2>2. Places(seqs, 0) = {}
    BY DEF Places
  <2> QED
    BY <1>1, <2>1, <2>2, FS_EmptySet
<1>2. CASE L # 0
  <2> DEFINE g == CHOOSE h : IsFlat(h, seqs)
             G(n) == /\ g[n] \in Seq(S) /\ Len(g[n]) = C(n)
                     /\ \A i \in 1..n : seqs[i] # <<>> => g[n][C(i)] = seqs[i][1]
             N == {n \in Nat : n + 1 <= L => G(n + 1)}
  <2>1. FlattenSeq(seqs) = g[L]
    BY <1>2, FlatIsChosen
  <2>2. IsFlat(g, seqs)
    BY <1>2, FlatExists
  <2> HIDE DEF g
  <2>3. \A i \in 1..L : g[i] = IF i = 1 THEN seqs[i] ELSE g[i-1] \o seqs[i]
    BY <2>2 DEF IsFlat
  <2>4. /\ L \in Nat /\ L >= 1
        /\ \A i \in 1..L : seqs[i] \in Seq(S) /\ (seqs[i] = <<>> \/ Len(seqs[i]) = 1)
    <3>1. L \in Nat /\ L >= 1
      BY <1>2
    <3>2. ASSUME NEW i \in 1..L PROVE seqs[i] \in Seq(S) /\ (seqs[i] = <<>> \/ Len(seqs[i]) = 1)
      <4>1. seqs[i] \in Seq(S) /\ Len(seqs[i]) <= 1
        OBVIOUS
      <4>2. Len(seqs[i]) \in Nat /\ (Len(seqs[i]) = 0 => seqs[i] = <<>>)
        BY <4>1, EmptySeq
      <4> DEFINE k == Len(seqs[i])
      <4>3. k \in Nat /\ k <= 1 /\ (k = 0 => seqs[i] = <<>>)
        BY <4>1, <4>2
      <4> HIDE DEF k
      <4>4. k = 0 \/ k = 1
        BY <4>3
      <4>5. seqs[i] = <<>> \/ k = 1
        BY <4>3, <4>4
      <4> QED
        BY <4>1, <4>5 DEF k
    <3> QED
      BY <3>1, <3>2
  <2>5. \A n \in Nat : C(n) \in Nat /\ (seqs[n+1] = <<>> => C(n+1) = C(n))
            /\ (seqs[n+1] # <<>> => C(n+1) = C(n) + 1) /\ \A m \in 0..n : C(m) <= C(n)
    BY PlacesFact
  <2>6. C(0) = 0
    <3>1. Places(seqs, 0) = {}
      BY DEF Places
    <3> QED
      BY <3>1, FS_EmptySet
  <2> HIDE DEF L, C
  <2>7. 0 \in N
    <3>1. g[1] = seqs[1] /\ seqs[1] \in Seq(S) /\ (seqs[1] = <<>> \/ Len(seqs[1]) = 1)
      BY <2>3, <2>4
    <3>2. Len(g[1]) = C(1) /\ (seqs[1] # <<>> => C(1) = 1)
      <4>1. (seqs[1] = <<>> => C(1) = 0) /\ (seqs[1] # <<>> => C(1) = 1)
        <5>1. (seqs[0+1] = <<>> => C(0+1) = C(0)) /\ (seqs[0+1] # <<>> => C(0+1) = C(0) + 1)
          BY <2>5
        <5> QED
          BY <2>6, <5>1
      <4>2. CASE seqs[1] = <<>>
        BY <3>1, <4>1, <4>2
      <4>3. CASE seqs[1] # <<>>
        BY <3>1, <4>1, <4>3
      <4> QED
        BY <4>2, <4>3
    <3>3. G(1)
      BY <3>1, <3>2
    <3> HIDE DEF G
    <3> QED
      BY <3>3
  <2>8. ASSUME NEW n \in Nat, n \in N PROVE n + 1 \in N
    <3>1. ASSUME n + 2 <= L PROVE G(n + 2)
      <4>1. G(n + 1)
        BY <2>4, <2>8, <3>1
      <4>2. /\ n + 2 \in 1..L /\ g[n+2] = g[n+1] \o seqs[n+2] /\ seqs[n+2] \in Seq(S)
            /\ seqs[n+2] = <<>> \/ Len(seqs[n+2]) = 1
        <5>1. n + 2 \in 1..L /\ n + 2 # 1 /\ (n + 2) - 1 = n + 1
          BY <2>4, <3>1
        <5> QED
          BY <2>3, <2>4, <5>1
      <4>3. /\ C(n+1) \in Nat
            /\ seqs[n+2] = <<>> => C(n+2) = C(n+1)
            /\ seqs[n+2] # <<>> => C(n+2) = C(n+1) + 1
            /\ \A m \in 1..n+1 : C(m) \in Nat /\ C(m) <= C(n+1)
        <5>1. n + 1 \in Nat /\ (n + 1) + 1 = n + 2
          OBVIOUS
        <5>2. \A m \in 1..n+1 : m \in Nat /\ m \in 0..n+1
          OBVIOUS
        <5> QED
          BY <2>5, <5>1, <5>2
      <4>4. \A i \in 1..n+1 : seqs[i] # <<>> => C(i) >= 1
        <5>1. ASSUME NEW i \in 1..n+1, seqs[i] # <<>> PROVE C(i) >= 1
          <6>1. i - 1 \in Nat /\ (i - 1) + 1 = i
            OBVIOUS
          <6>2. C(i - 1) \in Nat /\ C((i - 1) + 1) = C(i - 1) + 1
            BY <2>5, <5>1, <6>1
          <6> QED
            BY <6>1, <6>2
        <5> QED
          BY <5>1
      <4>5. /\ g[n+1] \in Seq(S) /\ Len(g[n+1]) = C(n+1)
            /\ \A i \in 1..n+1 : seqs[i] # <<>> => g[n+1][C(i)] = seqs[i][1]
        BY <4>1
      <4>6. /\ g[n+2] \in Seq(S) /\ Len(g[n+2]) = C(n+1) + Len(seqs[n+2])
            /\ \A p \in 1..C(n+1) : g[n+2][p] = g[n+1][p]
            /\ Len(seqs[n+2]) = 1 => g[n+2][C(n+1) + 1] = seqs[n+2][1]
        <5>1. C(n+1) \in Nat
          BY <4>3
        <5> DEFINE s == g[n+1]
                   t == seqs[n+2]
                   c == C(n+1)
        <5>2. s \in Seq(S) /\ t \in Seq(S) /\ c \in Nat /\ Len(s) = c
          BY <4>2, <4>5, <5>1
        <5> HIDE DEF s, t, c
        <5>5. /\ s \o t \in Seq(S) /\ Len(s \o t) = c + Len(t)
              /\ \A p \in 1..c : (s \o t)[p] = s[p]
              /\ Len(t) = 1 => (s \o t)[c + 1] = t[1]
          BY <5>2, ConcatFact
        <5>3. /\ g[n+1] \o seqs[n+2] \in Seq(S)
              /\ Len(g[n+1] \o seqs[n+2]) = C(n+1) + Len(seqs[n+2])
              /\ \A p \in 1..C(n+1) : (g[n+1] \o seqs[n+2])[p] = g[n+1][p]
              /\ Len(seqs[n+2]) = 1 => (g[n+1] \o seqs[n+2])[C(n+1) + 1] = seqs[n+2][1]
          BY <5>5 DEF s, t, c
        <5>4. g[n+2] = g[n+1] \o seqs[n+2]
          BY <4>2
        <5> QED
          BY <5>3, <5>4
      <4>7. Len(g[n+2]) = C(n+2)
        <5>1. CASE seqs[n+2] = <<>>
          BY <4>3, <4>6, <5>1
        <5>2. CASE seqs[n+2] # <<>>
          BY <4>2, <4>3, <4>6, <5>2
        <5> QED
          BY <5>1, <5>2
      <4>8. ASSUME NEW i \in 1..n+2, seqs[i] # <<>> PROVE g[n+2][C(i)] = seqs[i][1]
        <5>1. CASE i = n + 2
          BY <4>2, <4>3, <4>6, <4>8, <5>1
        <5>2. CASE i # n + 2
          <6>1. i \in 1..n+1
            BY <5>2
          <6>2. C(i) \in 1..C(n+1)
            BY <4>3, <4>4, <4>8, <6>1
          <6> QED
            BY <4>5, <4>6, <4>8, <6>1, <6>2
        <5> QED
          BY <5>1, <5>2
      <4> QED
        BY <4>6, <4>7, <4>8
    <3> HIDE DEF G
    <3>2. (n + 1) + 1 = n + 2
      OBVIOUS
    <3> QED
      BY <3>1, <3>2
  <2> HIDE DEF N
  <2>9. L - 1 \in N
    <3>1. L - 1 \in Nat
      BY <2>4
    <3> QED
      BY <2>7, <2>8, <3>1, NumberInduction
  <2> USE DEF N
  <2>10. G(L)
    <3>1. (L - 1) + 1 = L
      BY <2>4
    <3> HIDE DEF G
    <3> QED
      BY <2>4, <2>9, <3>1
  <2> QED
    BY <2>1, <2>10 DEF L, C
<1> QED
  BY <1>1, <1>2

-----------------------------------------------------------------------------
(* Dialogues: tool results under the name of their call, at their place,   *)
(* for any tools, any kinds of content and any bounds.                     *)
(*                                                                         *)
(* The inductive invariant: an id names one call, of an assistant's        *)
(* message before every result that answers it, and what was sent was      *)
(* built from a transcript like that, of which the one there now is a      *)
(* continuation.                                                           *)

Calls == [id : Nat, fn : Tools]
Messages == [role : {"system", "user", "assistant", "tool"}, content : Contents \cup {"none", "text"},
             calls : Seq(Calls), answers : Nat]

CallsAreNumbered(ms) ==
  \A i \in DOMAIN ms : \A k \in DOMAIN ms[i].calls :
    ms[i].role = "assistant" /\ ms[i].calls[k].id <= ids
IdsNameOneCall(ms) ==
  \A i, j \in DOMAIN ms : \A k \in DOMAIN ms[i].calls : \A l \in DOMAIN ms[j].calls :
    ms[i].calls[k].id = ms[j].calls[l].id => ms[i].calls[k] = ms[j].calls[l]
ResultsFollowTheirCall(ms) ==
  \A i \in DOMAIN ms : ms[i].role = "tool" =>
    \E j \in 1..i-1 : \E k \in DOMAIN ms[j].calls : ms[j].calls[k].id = ms[i].answers

Coherent(ms) ==
  ms \in Seq(Messages) /\ CallsAreNumbered(ms) /\ IdsNameOneCall(ms) /\ ResultsFollowTheirCall(ms)

SentFrom(ms) ==
  /\ Coherent(ms)
  /\ Len(ms) <= Len(transcript) /\ \A i \in 1..Len(ms) : transcript[i] = ms[i]
  /\ sent.provider \in {"openai", "gemini", "ollama"}
  /\ sent.length = Len(ms) /\ sent.body = Build(sent.provider, ms)

TalkInv ==
  /\ ids \in Nat /\ Coherent(transcript)
  /\ sent # Silence => \E ms \in Seq(Messages) : SentFrom(ms)

(* The call an id names, as the translation finds it and as the property   *)
(* does.                                                                   *)
LEMMA NamedCall ==
  ASSUME NEW ms, Coherent(ms), NEW i \in DOMAIN ms, ms[i].role = "tool"
  PROVE  \E j \in 1..i-1 : \E k \in DOMAIN ms[j].calls :
           /\ ms[j].role = "assistant"
           /\ ToolCallNames(ms, i, ms[i].answers) = ms[j].calls[k].fn
           /\ (CHOOSE c \in UNION {ToSet(ms[h].calls) : h \in 1..i-1} : c.id = ms[i].answers).fn
                = ms[j].calls[k].fn
<1> DEFINE id == ms[i].answers
           Handed == UNION {ToSet(ms[h].calls) : h \in 1..i-1}
           Matching == {c \in Handed : c.id = id}
<1>1. PICK j \in 1..i-1 : \E k \in DOMAIN ms[j].calls : ms[j].calls[k].id = id
  BY DEF Coherent, ResultsFollowTheirCall
<1>2. PICK k \in DOMAIN ms[j].calls : ms[j].calls[k].id = id
  BY <1>1
<1> DEFINE named == ms[j].calls[k]
<1>3. i \in Nat /\ \A h \in 1..i-1 : h \in DOMAIN ms
  BY DEF Coherent
<1>4. ms[j].role = "assistant"
  BY <1>3 DEF Coherent, CallsAreNumbered
<1>5. named \in Handed
  BY DEF ToSet
<1>6. ASSUME NEW c \in Handed, c.id = id PROVE c = named
  <2>1. PICK h \in 1..i-1 : c \in ToSet(ms[h].calls)
    OBVIOUS
  <2>2. PICK l \in DOMAIN ms[h].calls : c = ms[h].calls[l]
    BY <2>1 DEF ToSet
  <2>3. ms[h].calls[l].id = ms[j].calls[k].id
    BY <1>2, <1>6, <2>2
  <2>4. ms[h].calls[l] = ms[j].calls[k]
    BY <1>3, <2>3 DEF Coherent, IdsNameOneCall
  <2> QED
    BY <2>2, <2>4
<1>7. named.id = id
  BY <1>2
<1> HIDE DEF Handed, id
<1>8. (CHOOSE c \in Handed : c.id = id) = named
  BY <1>5, <1>6, <1>7
<1>9. Matching = {named}
  BY <1>5, <1>6, <1>7
<1>10. (CHOOSE c \in Matching : TRUE) = named /\ Matching # {}
  BY <1>9
<1>11. ToolCallNames(ms, i, id) = named.fn
  BY <1>10 DEF ToolCallNames, Handed
<1> QED
  BY <1>4, <1>8, <1>11 DEF Handed, id

LEMMA ConcatTail ==
  ASSUME NEW T, NEW s \in Seq(T), NEW t \in Seq(T), NEW k \in DOMAIN t
  PROVE  \E p \in DOMAIN (s \o t) : (s \o t)[p] = t[k]
<1>1. Len(s) \in Nat /\ Len(t) \in Nat /\ k \in 1..Len(t)
  OBVIOUS
<1>2. /\ s \o t \in Seq(T) /\ Len(s \o t) = Len(s) + Len(t)
      /\ \A p \in 1..Len(s) + Len(t) : (s \o t)[p] = IF p <= Len(s) THEN s[p] ELSE t[p - Len(s)]
  BY ConcatProperties
<1>3. Len(s) + k \in 1..Len(s) + Len(t) /\ ~(Len(s) + k <= Len(s)) /\ (Len(s) + k) - Len(s) = k
  BY <1>1
<1>4. DOMAIN (s \o t) = 1..Len(s) + Len(t)
  BY <1>2
<1> QED
  BY <1>2, <1>3, <1>4

LEMMA ContentFact ==
  ASSUME NEW ms \in Seq(Messages), NEW i \in DOMAIN ms
  PROVE  /\ ms[i].role = "system" => GeminiContent(ms, i) = <<>>
         /\ ms[i].role # "system" =>
              GeminiContent(ms, i) # <<>> /\ GeminiContent(ms, i) = <<GeminiContent(ms, i)[1]>>
         /\ ms[i].role = "tool" =>
              GeminiContent(ms, i)[1].parts[1] =
                [kind |-> "functionResponse", name |-> ToolCallNames(ms, i, ms[i].answers)]
         /\ ms[i].role = "assistant" => \A k \in DOMAIN ms[i].calls :
              \E p \in DOMAIN GeminiContent(ms, i)[1].parts :
                GeminiContent(ms, i)[1].parts[p] = [kind |-> "functionCall", name |-> ms[i].calls[k].fn]
<1>1. ms[i].role \in {"system", "user", "assistant", "tool"} /\ ms[i].calls \in Seq(Calls)
  <2>1. ms[i] \in Messages
    OBVIOUS
  <2> QED
    BY <2>1 DEF Messages
<1>2. CASE ms[i].role = "system"
  BY <1>2 DEF GeminiContent
<1>3. CASE ms[i].role = "user"
  BY <1>3 DEF GeminiContent
<1>4. CASE ms[i].role = "tool"
  BY <1>4 DEF GeminiContent
<1>5. CASE ms[i].role = "assistant"
  <2> DEFINE said == Parts(ms[i].content)
             called == [k \in DOMAIN ms[i].calls |-> [kind |-> "functionCall", name |-> ms[i].calls[k].fn]]
             content == [role |-> "model", parts |-> said \o called]
             T == {said[1]} \cup {called[k] : k \in DOMAIN ms[i].calls}
  <2>1. GeminiContent(ms, i) = <<content>>
    <3> HIDE DEF said
    <3>1. said = Parts(ms[i].content)
      BY DEF said
    <3> QED
      BY <1>5, <3>1 DEF GeminiContent
  <2>2. GeminiContent(ms, i)[1].parts = said \o called
    <3> HIDE DEF said, called
    <3> QED
      BY <2>1
  <2>3. said \in Seq(T)
    <3>1. PICK x : said = <<>> \/ (said = <<x>> /\ x \in T)
      BY DEF Parts
    <3> HIDE DEF said, called, T
    <3>2. CASE said = <<>>
      BY <3>2
    <3>3. CASE said = <<x>> /\ x \in T
      BY <3>3
    <3> QED
      BY <3>1, <3>2, <3>3
  <2>4. called \in Seq(T) /\ DOMAIN called = DOMAIN ms[i].calls
    <3>1. PICK n \in Nat : DOMAIN ms[i].calls = 1..n
      BY <1>1
    <3>2. called \in [1..n -> T]
      BY <3>1
    <3> HIDE DEF called
    <3> QED
      BY <3>1, <3>2
  <2>5. ASSUME NEW k \in DOMAIN ms[i].calls
        PROVE  \E p \in DOMAIN (said \o called) :
                 (said \o called)[p] = [kind |-> "functionCall", name |-> ms[i].calls[k].fn]
    <3>1. k \in DOMAIN called
      BY <2>4
    <3>2. called[k] = [kind |-> "functionCall", name |-> ms[i].calls[k].fn]
      OBVIOUS
    <3> HIDE DEF said, called, T
    <3>3. PICK p \in DOMAIN (said \o called) : (said \o called)[p] = called[k]
      <4>1. \A s, t \in Seq(T) : \A h \in DOMAIN t : \E p \in DOMAIN (s \o t) : (s \o t)[p] = t[h]
        BY ConcatTail
      <4> QED
        BY <2>3, <2>4, <3>1, <4>1
    <3> QED
      BY <3>2, <3>3
  <2> HIDE DEF said, called
  <2>6. GeminiContent(ms, i) # <<>> /\ GeminiContent(ms, i) = <<GeminiContent(ms, i)[1]>>
    BY <2>1
  <2> QED
    BY <1>5, <2>2, <2>5, <2>6
<1> QED
  BY <1>1, <1>2, <1>3, <1>4, <1>5

(* Gemini's contents: one for each message but the system's, at its place. *)
LEMMA ContentsFact ==
  ASSUME NEW ms \in Seq(Messages), NEW i \in DOMAIN ms, ms[i].role # "system"
  PROVE  LET contents == BuildGeminiRequest(ms).contents
             at(h) == Cardinality({j \in 1..h : ms[j].role \notin {"system", "developer"}})
         IN contents[at(i)] = GeminiContent(ms, i)[1] /\ at(i) \in Nat
<1> DEFINE S == {GeminiContent(ms, h)[1] : h \in DOMAIN ms}
           seqs == [h \in DOMAIN ms |-> GeminiContent(ms, h)]
<1>1. PICK n \in Nat : DOMAIN ms = 1..n /\ Len(ms) = n
  OBVIOUS
<1>2. ASSUME NEW h \in DOMAIN ms
      PROVE  /\ GeminiContent(ms, h) \in Seq(S) /\ Len(GeminiContent(ms, h)) <= 1
             /\ GeminiContent(ms, h) # <<>> <=> ms[h].role \notin {"system", "developer"}
  <2>1. ms[h].role \in {"system", "user", "assistant", "tool"}
    <3>1. ms[h] \in Messages
      OBVIOUS
    <3> QED
      BY <3>1 DEF Messages
  <2>2. GeminiContent(ms, h)[1] \in S
    OBVIOUS
  <2>3. GeminiContent(ms, h) = <<>> \/ GeminiContent(ms, h) = <<GeminiContent(ms, h)[1]>>
    BY ContentFact
  <2>4. GeminiContent(ms, h) # <<>> <=> ms[h].role \notin {"system", "developer"}
    BY <2>1, ContentFact
  <2>5. ASSUME NEW q, NEW x \in S, q = <<>> \/ q = <<x>> PROVE q \in Seq(S) /\ Len(q) <= 1
    <3> HIDE DEF S
    <3>1. CASE q = <<>>
      BY <3>1
    <3>2. CASE q = <<x>>
      BY <3>2
    <3> QED
      BY <2>5, <3>1, <3>2
  <2> QED
    BY <2>2, <2>3, <2>4, <2>5
<1> HIDE DEF S
<1>3. seqs \in Seq(Seq(S)) /\ Len(seqs) = n
  <2>1. seqs \in [1..n -> Seq(S)]
    BY <1>1, <1>2
  <2> HIDE DEF seqs
  <2> QED
    BY <1>1, <2>1
<1>4. \A h \in 1..n : seqs[h] = GeminiContent(ms, h)
  BY <1>1
<1>5. BuildGeminiRequest(ms).contents = FlattenSeq(seqs)
  BY DEF BuildGeminiRequest
<1> HIDE DEF seqs
<1>6. ASSUME NEW h \in 1..n
      PROVE  Places(seqs, h) = {j \in 1..h : ms[j].role \notin {"system", "developer"}}
  BY <1>1, <1>2, <1>4 DEF Places
<1>7. i \in 1..n /\ seqs[i] # <<>>
  BY <1>1, <1>4, ContentFact
<1>8. \A h \in 1..Len(seqs) : Len(seqs[h]) <= 1
  BY <1>1, <1>2, <1>3, <1>4
<1>9. FlattenSeq(seqs)[Cardinality(Places(seqs, i))] = seqs[i][1]
  BY <1>3, <1>7, <1>8, FlattenPlaces
<1>10. Cardinality(Places(seqs, i)) \in Nat
  BY <1>7, PlacesFact
<1> QED
  BY <1>4, <1>5, <1>6, <1>7, <1>9, <1>10

LEMMA TalkSuffices == TalkInv => ToolResultsReachTheirCall
<1> SUFFICES ASSUME TalkInv, sent # Silence PROVE ToolResultsReachTheirCall
  BY DEF ToolResultsReachTheirCall
<1>1. PICK ms \in Seq(Messages) : SentFrom(ms)
  BY DEF TalkInv
<1>2. /\ Coherent(ms) /\ sent.length = Len(ms) /\ sent.body = Build(sent.provider, ms)
      /\ \A i \in 1..Len(ms) : transcript[i] = ms[i]
  BY <1>1 DEF SentFrom
<1>3. ASSUME NEW i \in 1..sent.length, sent.provider = "gemini", transcript[i].role = "tool"
      PROVE  LET part == sent.body.contents[Place(i)].parts[1]
             IN /\ part.name = CalledFn(i, transcript[i].answers)
                /\ \E j \in 1..Place(i)-1 : \E k \in DOMAIN sent.body.contents[j].parts :
                     sent.body.contents[j].parts[k] = [kind |-> "functionCall", name |-> part.name]
  <2>1. i \in DOMAIN ms /\ i \in Nat /\ ms[i] = transcript[i] /\ ms[i].role = "tool"
    BY <1>2, <1>3
  <2> DEFINE at(h) == Cardinality({j \in 1..h : ms[j].role \notin {"system", "developer"}})
             contents == BuildGeminiRequest(ms).contents
             id == ms[i].answers
  <2>2. sent.body.contents = contents
    BY <1>2, <1>3 DEF Build
  <2>3. PICK j \in 1..i-1 : \E k \in DOMAIN ms[j].calls :
           /\ ms[j].role = "assistant"
           /\ ToolCallNames(ms, i, id) = ms[j].calls[k].fn
           /\ (CHOOSE c \in UNION {ToSet(ms[h].calls) : h \in 1..i-1} : c.id = id).fn = ms[j].calls[k].fn
    BY <1>2, <2>1, NamedCall
  <2>4. PICK k \in DOMAIN ms[j].calls :
           /\ ms[j].role = "assistant"
           /\ ToolCallNames(ms, i, id) = ms[j].calls[k].fn
           /\ (CHOOSE c \in UNION {ToSet(ms[h].calls) : h \in 1..i-1} : c.id = id).fn = ms[j].calls[k].fn
    BY <2>3
  <2>5. \A h \in 1..i : h \in DOMAIN ms /\ transcript[h] = ms[h]
    BY <1>2, <2>1
  <2>6. CalledFn(i, id) = ms[j].calls[k].fn
    <3>1. \A h \in 1..i-1 : transcript[h].calls = ms[h].calls
      BY <2>1, <2>5
    <3>2. UNION {ToSet(transcript[h].calls) : h \in 1..i-1} = UNION {ToSet(ms[h].calls) : h \in 1..i-1}
      BY <3>1
    <3> QED
      BY <2>4, <3>2 DEF CalledFn
  <2>7. Place(i) = at(i)
    <3>1. {h \in 1..i : transcript[h].role \notin {"system", "developer"}}
           = {h \in 1..i : ms[h].role \notin {"system", "developer"}}
      BY <2>5
    <3> QED
      BY <3>1 DEF Place
  <2>8. contents[at(i)] = GeminiContent(ms, i)[1] /\ at(i) \in Nat
    BY <2>1, ContentsFact
  <2>9. contents[at(j)] = GeminiContent(ms, j)[1] /\ at(j) \in Nat
    <3>1. j \in DOMAIN ms /\ ms[j].role # "system"
      BY <2>1, <2>4, <2>5
    <3> QED
      BY <3>1, ContentsFact
  <2>10. at(j) \in 1..at(i)-1
    <3> DEFINE Kept(h) == {p \in 1..h : ms[p].role \notin {"system", "developer"}}
    <3>1. IsFiniteSet(Kept(i)) /\ IsFiniteSet(Kept(j)) /\ IsFiniteSet(Kept(j) \ {j})
      <4>1. IsFiniteSet(1..i) /\ IsFiniteSet(1..j)
        BY <2>1, FS_Interval
      <4> QED
        BY <4>1, FS_Subset
    <3>2. j \in Kept(j) /\ i \in Kept(i) /\ i \notin Kept(j) /\ Kept(j) \cup {i} \subseteq Kept(i)
      BY <2>1, <2>4
    <3>3. Cardinality(Kept(j) \cup {i}) = Cardinality(Kept(j)) + 1
      BY <3>1, <3>2, FS_AddElement
    <3>4. Cardinality(Kept(j) \cup {i}) <= Cardinality(Kept(i))
      BY <3>1, <3>2, FS_Subset
    <3>5. Cardinality(Kept(j)) # 0
      BY <3>1, <3>2, FS_EmptySet
    <3> QED
      BY <2>8, <2>9, <3>3, <3>4, <3>5
  <2>11. GeminiContent(ms, i)[1].parts[1] =
           [kind |-> "functionResponse", name |-> ToolCallNames(ms, i, id)]
    BY <2>1, ContentFact
  <2>12. \E p \in DOMAIN GeminiContent(ms, j)[1].parts :
           GeminiContent(ms, j)[1].parts[p] = [kind |-> "functionCall", name |-> ms[j].calls[k].fn]
    <3>1. j \in DOMAIN ms /\ ms[j].role = "assistant" /\ k \in DOMAIN ms[j].calls
      BY <2>1, <2>4, <2>5
    <3>2. \A h \in DOMAIN ms[j].calls : \E p \in DOMAIN GeminiContent(ms, j)[1].parts :
            GeminiContent(ms, j)[1].parts[p] = [kind |-> "functionCall", name |-> ms[j].calls[h].fn]
      BY <3>1, ContentFact
    <3> QED
      BY <3>1, <3>2
  <2> HIDE DEF at, contents, id
  <2>13. sent.body.contents[Place(i)].parts[1].name = ms[j].calls[k].fn
    BY <2>2, <2>4, <2>7, <2>8, <2>11
  <2>14. \E p \in DOMAIN sent.body.contents[at(j)].parts :
           sent.body.contents[at(j)].parts[p] = [kind |-> "functionCall", name |-> ms[j].calls[k].fn]
    BY <2>2, <2>9, <2>12
  <2>15. CalledFn(i, transcript[i].answers) = ms[j].calls[k].fn
    BY <2>1, <2>6 DEF id
  <2> QED
    BY <2>7, <2>10, <2>13, <2>14, <2>15
<1>4. ASSUME NEW i \in 1..sent.length, sent.provider = "ollama"
      PROVE  /\ sent.body[i].role = transcript[i].role
             /\ Len(sent.body[i].calls) = Len(transcript[i].calls)
  <2>1. i \in DOMAIN ms /\ transcript[i] = ms[i]
    BY <1>2, <1>4
  <2>2. sent.body[i] = [role |-> ms[i].role, parts |-> Parts(ms[i].content),
                        calls |-> [k \in DOMAIN ms[i].calls |-> ms[i].calls[k].fn]]
    BY <1>2, <1>4, <2>1 DEF Build, BuildOllamaRequest
  <2>3. PICK n \in Nat : DOMAIN ms[i].calls = 1..n /\ Len(ms[i].calls) = n
    <3>1. ms[i] \in Messages
      BY <2>1
    <3>2. ms[i].calls \in Seq(Calls)
      BY <3>1 DEF Messages
    <3> QED
      BY <3>2
  <2>4. Len([k \in DOMAIN ms[i].calls |-> ms[i].calls[k].fn]) = n
    BY <2>3
  <2> QED
    BY <2>1, <2>2, <2>3, <2>4
<1> QED
  BY <1>3, <1>4 DEF ToolResultsReachTheirCall

-----------------------------------------------------------------------------
(* Writing a message. *)

LEMMA AppendStays ==
  ASSUME TalkInv, ids' \in Nat, ids <= ids', NEW m \in Messages, transcript' = Append(transcript, m),
         m.role = "assistant" \/ m.calls = <<>>,
         \A k \in DOMAIN m.calls : ids < m.calls[k].id /\ m.calls[k].id <= ids',
         \A k, l \in DOMAIN m.calls : m.calls[k].id = m.calls[l].id => k = l,
         m.role = "tool" => \E j \in DOMAIN transcript : \E k \in DOMAIN transcript[j].calls :
                               transcript[j].calls[k].id = m.answers
  PROVE  Coherent(transcript)'
<1>1. PICK n \in Nat : DOMAIN transcript = 1..n /\ Len(transcript) = n
  BY DEF TalkInv, Coherent
<1>2. /\ transcript' \in Seq(Messages) /\ DOMAIN transcript' = 1..n+1
      /\ transcript'[n+1] = m /\ \A i \in 1..n : transcript'[i] = transcript[i]
  BY <1>1, AppendProperties DEF TalkInv, Coherent
<1>3. m.calls = <<>> => DOMAIN m.calls = {}
  OBVIOUS
<1>4. \A i \in 1..n+1 : i \in 1..n \/ i = n + 1
  BY <1>1
<1>5. CallsAreNumbered(transcript) /\ IdsNameOneCall(transcript) /\ ResultsFollowTheirCall(transcript)
      /\ ids \in Nat /\ transcript \in Seq(Messages)
  BY DEF TalkInv, Coherent
<1>6. \A i \in 1..n : \A k \in DOMAIN transcript[i].calls : transcript[i].calls[k].id \in Nat
  <2>1. ASSUME NEW i \in 1..n PROVE transcript[i].calls \in Seq(Calls)
    <3>1. transcript[i] \in Messages
      BY <1>1, <1>5
    <3> QED
      BY <3>1 DEF Messages
  <2>2. \A q \in Seq(Calls) : \A k \in DOMAIN q : q[k] \in Calls
    OBVIOUS
  <2> QED
    BY <2>1, <2>2 DEF Calls
<1>7. \A k \in DOMAIN m.calls : m.calls[k].id \in Nat
  <2>1. m.calls \in Seq(Calls)
    BY DEF Messages
  <2>2. \A k \in DOMAIN m.calls : m.calls[k] \in Calls
    BY <2>1
  <2> QED
    BY <2>2 DEF Calls
<1>8. ASSUME NEW i \in 1..n+1, NEW k \in DOMAIN transcript'[i].calls
      PROVE  transcript'[i].role = "assistant" /\ transcript'[i].calls[k].id <= ids'
  <2>1. CASE i \in 1..n
    <3>1. transcript[i].role = "assistant" /\ transcript[i].calls[k].id <= ids
      BY <1>1, <1>2, <1>5, <1>8, <2>1 DEF CallsAreNumbered
    <3> QED
      BY <1>2, <1>5, <1>6, <1>8, <2>1, <3>1
  <2>2. CASE i = n + 1
    BY <1>2, <1>3, <1>8, <2>2
  <2> QED
    BY <1>4, <2>1, <2>2
<1>9. ASSUME NEW i \in 1..n+1, NEW j \in 1..n+1, NEW k \in DOMAIN transcript'[i].calls,
             NEW l \in DOMAIN transcript'[j].calls, transcript'[i].calls[k].id = transcript'[j].calls[l].id
      PROVE  transcript'[i].calls[k] = transcript'[j].calls[l]
  <2>1. CASE i \in 1..n /\ j \in 1..n
    BY <1>1, <1>2, <1>5, <1>9, <2>1 DEF IdsNameOneCall
  <2>2. ASSUME NEW h \in 1..n, NEW p \in DOMAIN transcript[h].calls, NEW q \in DOMAIN m.calls
        PROVE  transcript[h].calls[p].id # m.calls[q].id
    <3>1. transcript[h].calls[p].id <= ids /\ ids < m.calls[q].id
      BY <1>1, <1>5 DEF CallsAreNumbered
    <3> QED
      BY <1>5, <1>6, <1>7, <3>1
  <2>3. CASE i \in 1..n /\ j = n + 1
    BY <1>2, <1>9, <2>2, <2>3
  <2>4. CASE i = n + 1 /\ j \in 1..n
    BY <1>2, <1>9, <2>2, <2>4
  <2>5. CASE i = n + 1 /\ j = n + 1
    BY <1>2, <1>9, <2>5
  <2> QED
    BY <1>4, <2>1, <2>3, <2>4, <2>5
<1>10. ASSUME NEW i \in 1..n+1, transcript'[i].role = "tool"
       PROVE  \E j \in 1..i-1 : \E k \in DOMAIN transcript'[j].calls :
                transcript'[j].calls[k].id = transcript'[i].answers
  <2>1. CASE i \in 1..n
    <3>1. PICK j \in 1..i-1 : \E k \in DOMAIN transcript[j].calls :
             transcript[j].calls[k].id = transcript[i].answers
      BY <1>1, <1>2, <1>5, <1>10, <2>1 DEF ResultsFollowTheirCall
    <3>2. j \in 1..n
      BY <2>1
    <3> QED
      BY <1>2, <2>1, <3>1, <3>2
  <2>2. CASE i = n + 1
    <3>1. PICK j \in 1..n : \E k \in DOMAIN transcript[j].calls : transcript[j].calls[k].id = m.answers
      BY <1>1, <1>2, <1>10, <2>2
    <3>2. j \in 1..i-1
      BY <1>1, <2>2
    <3> QED
      BY <1>2, <2>2, <3>1, <3>2
  <2> QED
    BY <1>4, <2>1, <2>2
<1>11. CallsAreNumbered(transcript)'
  BY <1>2, <1>8 DEF CallsAreNumbered
<1>12. IdsNameOneCall(transcript)'
  BY <1>2, <1>9 DEF IdsNameOneCall
<1>13. ResultsFollowTheirCall(transcript)'
  BY <1>2, <1>10 DEF ResultsFollowTheirCall
<1> QED
  BY <1>2, <1>11, <1>12, <1>13 DEF Coherent

LEMMA TalkStart == DialogueInit => TalkInv
<1> SUFFICES ASSUME DialogueInit PROVE TalkInv
  OBVIOUS
<1>1. transcript = <<>> /\ ids = 0 /\ sent = Silence
  BY DEF DialogueInit
<1>2. transcript \in Seq(Messages) /\ DOMAIN transcript = {}
  BY <1>1
<1> QED
  BY <1>1, <1>2 DEF TalkInv, Coherent, CallsAreNumbered, IdsNameOneCall, ResultsFollowTheirCall

LEMMA WriteOne ==
  ASSUME TalkInv, NEW role \in {"system", "user", "tool"}, NEW content \in Contents \cup {"text"},
         NEW answers \in Nat,
         role = "tool" => \E j \in DOMAIN transcript : \E k \in DOMAIN transcript[j].calls :
                             transcript[j].calls[k].id = answers,
         transcript' = Append(transcript, Message(role, content, <<>>, answers)),
         sent' = Silence, ids' = ids
  PROVE  TalkInv'
<1> DEFINE m == Message(role, content, <<>>, answers)
<1>1. m \in Messages /\ m.role = role /\ m.calls = <<>> /\ m.answers = answers
  <2>1. <<>> \in Seq(Calls)
    OBVIOUS
  <2> QED
    BY <2>1 DEF Message, Messages
<1>2. ids \in Nat
  BY DEF TalkInv
<1>3. DOMAIN m.calls = {}
  BY <1>1
<1> HIDE DEF m
<1>4. transcript' = Append(transcript, m)
  BY DEF m
<1>5. Coherent(transcript)'
  BY <1>1, <1>2, <1>3, <1>4, AppendStays
<1> QED
  BY <1>2, <1>5 DEF TalkInv

LEMMA AnswerStep == ASSUME TalkInv, NEW id \in Owed, AnswerCall(id, "text") PROVE TalkInv'
<1>1. PICK i \in DOMAIN transcript : id \in {c.id : c \in ToSet(transcript[i].calls)}
  BY DEF Owed
<1>2. PICK k \in DOMAIN transcript[i].calls : transcript[i].calls[k].id = id
  BY <1>1 DEF ToSet
<1>3. id \in Nat
  <2>1. transcript[i] \in Messages
    BY DEF TalkInv, Coherent
  <2>2. transcript[i].calls \in Seq(Calls)
    BY <2>1 DEF Messages
  <2>3. transcript[i].calls[k] \in Calls
    BY <2>2
  <2> QED
    BY <1>2, <2>3 DEF Calls
<1>4. /\ transcript' = Append(transcript, Message("tool", "text", <<>>, id))
      /\ sent' = Silence /\ ids' = ids
  BY DEF AnswerCall
<1>5. \E j \in DOMAIN transcript : \E p \in DOMAIN transcript[j].calls : transcript[j].calls[p].id = id
  BY <1>2
<1> QED
  BY <1>3, <1>4, <1>5, WriteOne

LEMMA AskStep ==
  ASSUME TalkInv, NEW role \in {"system", "user"}, NEW content \in Contents \cup {"text"}, Ask(role, content)
  PROVE  TalkInv'
<1>1. /\ transcript' = Append(transcript, Message(role, content, <<>>, 0))
      /\ sent' = Silence /\ ids' = ids
  BY DEF Ask
<1>2. role # "tool" /\ role \in {"system", "user", "tool"} /\ 0 \in Nat
  OBVIOUS
<1> QED
  BY <1>1, <1>2, WriteOne

LEMMA RejectStep == ASSUME TalkInv, NEW provider, Reject(provider) PROVE TalkInv'
<1>1. /\ transcript # <<>> /\ sent' = Silence /\ ids' = ids
      /\ transcript' = transcript \/ transcript' = Front(transcript)
  BY DEF Reject
<1>2. PICK n \in Nat : DOMAIN transcript = 1..n /\ Len(transcript) = n /\ n # 0
  BY <1>1 DEF TalkInv, Coherent
<1>3. /\ transcript \in Seq(Messages) /\ ids \in Nat
      /\ CallsAreNumbered(transcript) /\ IdsNameOneCall(transcript) /\ ResultsFollowTheirCall(transcript)
  BY DEF TalkInv, Coherent
<1>4. PICK l \in {n - 1, n} : /\ transcript' \in Seq(Messages) /\ DOMAIN transcript' = 1..l
                              /\ \A i \in 1..l : transcript'[i] = transcript[i]
  <2>1. CASE transcript' = transcript
    BY <1>2, <1>3, <2>1
  <2>2. CASE transcript' = Front(transcript)
    <3>1. transcript' = SubSeq(transcript, 1, n - 1)
      BY <1>2, <2>2 DEF Front
    <3>2. \A i \in 1..n-1 : transcript[i] \in Messages
      BY <1>2, <1>3
    <3>3. /\ transcript' \in Seq(Messages)
          /\ Len(transcript') = IF 1 <= n - 1 THEN (n - 1) - 1 + 1 ELSE 0
          /\ \A i \in 1..(n - 1) - 1 + 1 : transcript'[i] = transcript[1 + i - 1]
      BY <1>2, <3>1, <3>2, SubSeqProperties
    <3>4. \A i \in 1..n-1 : i \in 1..(n - 1) - 1 + 1 /\ 1 + i - 1 = i
      BY <1>2
    <3>5. DOMAIN transcript' = 1..n-1
      BY <1>2, <3>3
    <3> QED
      BY <3>3, <3>4, <3>5
  <2> QED
    BY <1>1, <2>1, <2>2
<1>5. \A i \in 1..l : i \in 1..n /\ i \in Nat /\ \A j \in 1..i-1 : j \in 1..l
  BY <1>2
<1>6. CallsAreNumbered(transcript)' /\ IdsNameOneCall(transcript)'
  BY <1>1, <1>2, <1>3, <1>4, <1>5 DEF CallsAreNumbered, IdsNameOneCall
<1>7. ResultsFollowTheirCall(transcript)'
  BY <1>2, <1>3, <1>4, <1>5 DEF ResultsFollowTheirCall
<1> QED
  BY <1>1, <1>3, <1>4, <1>6, <1>7 DEF TalkInv, Coherent

LEMMA ServeStep ==
  ASSUME TalkInv, NEW provider \in {"openai", "gemini", "ollama"}, Serve(provider)
  PROVE  TalkInv'
<1>1. PICK n \in 0..MaxCalls, text \in BOOLEAN : \E fns \in [1..n -> Tools] :
         transcript' = Append(transcript, Parsed(text, fns)) /\ ids' = ids + n
  BY DEF Serve
<1>2. PICK fns \in [1..n -> Tools] :
         transcript' = Append(transcript, Parsed(text, fns)) /\ ids' = ids + n
  BY <1>1
<1>3. ids \in Nat /\ n \in Nat /\ Coherent(transcript)
  BY DialogueAssumption DEF TalkInv
<1> DEFINE calls == [k \in 1..n |-> [id |-> ids + k, fn |-> fns[k]]]
           m == Parsed(text, fns)
<1>4. calls \in Seq(Calls) /\ DOMAIN calls = 1..n /\ \A k \in 1..n : calls[k].id = ids + k
  <2>1. calls \in [1..n -> Calls]
    BY <1>3 DEF Calls
  <2>2. \A k \in 1..n : calls[k].id = ids + k
    OBVIOUS
  <2> HIDE DEF calls
  <2> QED
    BY <1>3, <2>1, <2>2
<1>5. m.role = "assistant" /\ m.calls = calls /\ m \in Messages
  <2>1. m = [role |-> "assistant", content |-> IF text THEN "text" ELSE "none", calls |-> calls, answers |-> 0]
    BY DEF Parsed, Message
  <2> HIDE DEF m, calls
  <2> QED
    BY <1>4, <2>1 DEF Messages
<1> HIDE DEF calls, m
<1>6. transcript' = Append(transcript, m) /\ ids' \in Nat /\ ids <= ids' /\ m.role # "tool"
  BY <1>2, <1>3, <1>5 DEF m
<1>7. /\ \A k \in DOMAIN m.calls : ids < m.calls[k].id /\ m.calls[k].id <= ids'
      /\ \A k, l \in DOMAIN m.calls : m.calls[k].id = m.calls[l].id => k = l
  BY <1>2, <1>3, <1>4, <1>5
<1>8. Coherent(transcript)'
  BY <1>5, <1>6, <1>7, AppendStays
<1>10. \E ms \in Seq(Messages) : SentFrom(ms)'
  <2>1. CallsAreNumbered(transcript) /\ IdsNameOneCall(transcript) /\ ResultsFollowTheirCall(transcript)
        /\ transcript \in Seq(Messages)
    BY <1>3 DEF Coherent
  <2>2. PICK q \in Seq(Messages) : q = transcript
    BY <2>1
  <2>3. PICK size \in Nat : DOMAIN q = 1..size /\ Len(q) = size
    OBVIOUS
  <2>4. /\ Len(transcript') = size + 1
        /\ \A i \in 1..size : transcript'[i] = q[i]
    BY <1>5, <1>6, <2>2, <2>3, AppendProperties
  <2>5. sent' = [provider |-> provider, length |-> size, body |-> Build(provider, q)]
    BY <2>2, <2>3 DEF Serve
  <2>6. sent'.provider = provider /\ sent'.length = size /\ sent'.body = Build(provider, q)
    BY <2>5
  <2>7. ASSUME NEW i \in DOMAIN q, NEW k \in DOMAIN q[i].calls
        PROVE  q[i].role = "assistant" /\ q[i].calls[k].id <= ids'
    <3>1. q[i].role = "assistant" /\ q[i].calls[k].id <= ids
      BY <2>1, <2>2 DEF CallsAreNumbered
    <3>2. q[i].calls[k].id \in Nat
      <4>1. q[i] \in Messages
        OBVIOUS
      <4>2. q[i].calls \in Seq(Calls)
        BY <4>1 DEF Messages
      <4>3. q[i].calls[k] \in Calls
        BY <4>2
      <4> QED
        BY <4>3 DEF Calls
    <3> QED
      BY <1>3, <1>6, <3>1, <3>2
  <2>8. Coherent(q)'
    BY <2>1, <2>2, <2>7 DEF Coherent, CallsAreNumbered, IdsNameOneCall, ResultsFollowTheirCall
  <2>9. SentFrom(q)'
    BY <2>3, <2>4, <2>6, <2>8 DEF SentFrom
  <2> QED
    BY <2>9
<1> QED
  BY <1>6, <1>8, <1>10 DEF TalkInv

LEMMA DialogueStep == TalkInv /\ [DialogueNext]_dialogueVars => TalkInv'
<1> SUFFICES ASSUME TalkInv, [DialogueNext]_dialogueVars PROVE TalkInv'
  OBVIOUS
<1>1. ASSUME NEW provider \in {"openai", "gemini", "ollama"}, Serve(provider) \/ Reject(provider) PROVE TalkInv'
  BY <1>1, ServeStep, RejectStep
<1>2. ASSUME Ask("system", "text") PROVE TalkInv'
  BY <1>2, AskStep
<1>3. ASSUME NEW content \in Contents, Ask("user", content) PROVE TalkInv'
  BY <1>3, AskStep
<1>4. ASSUME NEW id \in Owed, AnswerCall(id, "text") PROVE TalkInv'
  BY <1>4, AnswerStep
<1>5. ASSUME UNCHANGED dialogueVars PROVE TalkInv'
  BY <1>5 DEF dialogueVars, TalkInv, Coherent, CallsAreNumbered, IdsNameOneCall, ResultsFollowTheirCall, SentFrom
<1> QED
  BY <1>1, <1>2, <1>3, <1>4, <1>5 DEF DialogueNext

(* Whichever providers served the turns before, a request to Gemini hands  *)
(* each tool result back under the name of the function whose call it      *)
(* answers, in its place after that call, and a request to Ollama keeps    *)
(* every message and call in its place.                                    *)
THEOREM ToolResultsReachTheirCallCorrect == DialogueSpec => []ToolResultsReachTheirCall
<1>1. DialogueInit => TalkInv
  BY TalkStart
<1>2. TalkInv /\ [DialogueNext]_dialogueVars => TalkInv'
  BY DialogueStep
<1>3. TalkInv => ToolResultsReachTheirCall
  BY TalkSuffices
<1> QED
  BY <1>1, <1>2, <1>3, PTL DEF DialogueSpec

-----------------------------------------------------------------------------
(* The rollups are exact, for any number of hours and rows, any length of  *)
(* a day from four hours on, any retention, and any lateness of rows and   *)
(* gap between runs that together stay within an hour.                     *)

SlackIsAnHour == \A s \in Slacks : s.lag + s.gap <= 1

HoursOf(d) == {h \in RollupHours : DayOf(h) = d}
(* No row is inserted for that hour any more at t; every hour of that day  *)
(* has left the look-back at t.                                            *)
Closed(h, t) == h + slack.lag < t
Over(d, t) == \A h \in HoursOf(d) : h < t - 2

-----------------------------------------------------------------------------
(* The inductive invariant.  A table's entry is exact once the last run    *)
(* that committed began after its last row could come, and so are the sums *)
(* of a run under way.  No run is so late that retention has deleted what  *)
(* it is to add up.                                                        *)

Run(j) ==
  [began |-> job[j].began, sums |-> job[j].sums,
   window |-> IF j = "hourly" THEN HourlyWindow(job[j].began) ELSE DailyWindow(job[j].began)]
Types ==
  /\ hour \in 0..LastHour /\ slack \in Slacks
  /\ inserted \in [RollupHours -> Nat] /\ requests \in [RollupHours -> Nat]
  /\ DOMAIN hourly = RollupHours /\ DOMAIN daily = RollupDays
  /\ lastRun \in [RollupJobs -> Nat]
  /\ DOMAIN job = RollupJobs /\ job = [j \in RollupJobs |-> job[j]]
RunsAreRecent ==
  \A j \in RollupJobs :
    /\ lastRun[j] <= hour /\ hour <= lastRun[j] + slack.gap + 1
    /\ job[j] # NoRun => job[j] = Run(j) /\ job[j].began \in lastRun[j]..hour
NothingIsMissing == \A h \in RollupHours : h >= hour - HoursPerDay => requests[h] = inserted[h]
HourlyIsExact == \A h \in RollupHours : Closed(h, lastRun["hourly"]) => hourly[h] = inserted[h]
HourlyRunIsExact ==
  job["hourly"] # NoRun /\ job["hourly"].sums # NoRun =>
    \A h \in job["hourly"].window : Closed(h, job["hourly"].began) => job["hourly"].sums[h] = inserted[h]
DailyIsExact ==
  \A d \in RollupDays : Over(d, lastRun["daily"]) => daily[d] = SumOver(inserted, HoursOf(d))
DailyRunIsExact ==
  job["daily"] # NoRun /\ job["daily"].sums # NoRun =>
    \A d \in job["daily"].window :
      Over(d, job["daily"].began) => job["daily"].sums[d] = SumOver(inserted, HoursOf(d))
JInv ==
  /\ Types /\ RunsAreRecent /\ NothingIsMissing
  /\ HourlyIsExact /\ HourlyRunIsExact /\ DailyIsExact /\ DailyRunIsExact

-----------------------------------------------------------------------------
(* Hours and days *)

LEMMA SlackFact ==
  ASSUME slack \in Slacks
  PROVE  /\ slack.lag \in Nat /\ slack.gap \in Nat
         /\ SlackIsAnHour => slack.lag + slack.gap <= 1
  BY JobsAssumption DEF SlackIsAnHour

LEMMA LengthFact == HoursPerDay \in Nat /\ HoursPerDay >= 4 /\ LastHour \in Nat
  BY JobsAssumption

LEMMA DivFact ==
  ASSUME NEW t \in Nat
  PROVE  /\ DayOf(t) \in Nat /\ DayOf(t) * HoursPerDay \in Nat
         /\ DayOf(t) * HoursPerDay <= t /\ t < DayOf(t) * HoursPerDay + HoursPerDay
<1>1. HoursPerDay \in Nat /\ HoursPerDay > 0
  BY LengthFact
<1>2. t \div HoursPerDay \in Nat
  BY <1>1
<1>3. (t \div HoursPerDay) * HoursPerDay \in Nat
  BY <1>1, <1>2
<1>4. (t \div HoursPerDay) * HoursPerDay <= t /\ t < (t \div HoursPerDay) * HoursPerDay + HoursPerDay
  BY <1>1
<1> QED
  BY <1>2, <1>3, <1>4 DEF DayOf

LEMMA ProductFact ==
  ASSUME NEW n \in Nat, NEW k \in Nat, n <= k, NEW h \in Nat
  PROVE  n * h <= k * h /\ n * h \in Nat /\ k * h \in Nat /\ (n + 1) * h = n * h + h
  OBVIOUS

(* The hours of a day before the day before t's are five hours back.       *)
LEMMA DaysBack ==
  ASSUME NEW t \in Nat, NEW h \in Nat, DayOf(h) < DayOf(t) - 1
  PROVE  h + 5 <= t
<1> DEFINE H == HoursPerDay
           a == DayOf(h)
           b == DayOf(t)
<1>1. H \in Nat /\ H >= 4 /\ a \in Nat /\ b \in Nat
  BY LengthFact, DivFact
<1>2. h < a * H + H /\ b * H <= t /\ a * H \in Nat /\ b * H \in Nat
  BY DivFact
<1>3. a + 1 + 1 <= b /\ a + 1 + 1 \in Nat
  BY <1>1
<1> HIDE DEF H, a, b
<1>4. (a + 1) * H = a * H + H /\ (a + 1) * H \in Nat
  BY <1>1, ProductFact
<1>5. (a + 1 + 1) * H = (a + 1) * H + H
  BY <1>1, ProductFact
<1>6. (a + 1 + 1) * H <= b * H
  BY <1>1, <1>3, ProductFact
<1>7. (a * H + H) + H <= t
  BY <1>1, <1>2, <1>4, <1>5, <1>6
<1> QED
  BY <1>1, <1>2, <1>7

(* A day that has begun only after t is not over at t. *)
LEMMA DaysAhead ==
  ASSUME NEW t \in Nat, NEW d \in RollupDays, d > DayOf(t)
  PROVE  ~Over(d, t)
<1> DEFINE H == HoursPerDay
           a == DayOf(t)
           b == LastHour \div H
           h == d * H
<1>1. H \in Nat /\ H >= 4 /\ a \in Nat /\ d \in Nat /\ d <= b /\ b \in Nat /\ LastHour \in Nat
  BY LengthFact, DivFact DEF RollupDays
<1>2. t < a * H + H /\ a * H \in Nat /\ b * H <= LastHour /\ b * H \in Nat
  BY <1>1, DivFact DEF DayOf
<1>3. h \in Nat /\ h <= b * H
  <2> HIDE DEF H, b
  <2> QED
    BY <1>1, ProductFact
<1>4. a * H + H <= h
  <2>1. a + 1 <= d /\ a + 1 \in Nat
    BY <1>1
  <2> HIDE DEF H, a
  <2>2. (a + 1) * H <= d * H /\ (a + 1) * H = a * H + H
    BY <1>1, <2>1, ProductFact
  <2> QED
    BY <2>2
<1>5. h \in RollupHours /\ t < h
  <2> HIDE DEF H, a, b, h
  <2>1. h <= LastHour
    BY <1>1, <1>2, <1>3
  <2>2. t < h
    BY <1>1, <1>2, <1>3, <1>4
  <2> QED
    BY <1>1, <1>3, <2>1, <2>2 DEF RollupHours
<1>6. DayOf(h) = d
  BY <1>1 DEF DayOf
<1>7. h \in HoursOf(d)
  BY <1>5, <1>6 DEF HoursOf
<1> HIDE DEF h
<1> QED
  BY <1>3, <1>5, <1>7 DEF Over

LEMMA HoursFact == ASSUME NEW d PROVE IsFiniteSet(HoursOf(d)) /\ HoursOf(d) \in SUBSET RollupHours
<1>1. IsFiniteSet(RollupHours) /\ HoursOf(d) \in SUBSET RollupHours
  BY FS_Interval, LengthFact DEF RollupHours, HoursOf
<1> QED
  BY <1>1, FS_Subset

LEMMA SumsAgree ==
  ASSUME NEW f, NEW g, NEW d, \A h \in HoursOf(d) : f[h] = g[h]
  PROVE  SumOver(f, HoursOf(d)) = SumOver(g, HoursOf(d))
<1>1. SumOn(f, HoursOf(d)) = SumOn(g, HoursOf(d))
  BY HoursFact, SumSame
<1> QED
  BY <1>1 DEF SumOver, SumOn

-----------------------------------------------------------------------------
(* The steps *)

LEMMA InitHolds == JobsInit => JInv
<1> SUFFICES ASSUME JobsInit PROVE JInv
  OBVIOUS
<1>1. /\ hour = 0 /\ slack \in Slacks /\ inserted = [h \in RollupHours |-> 0] /\ requests = inserted
      /\ hourly = inserted /\ daily = [d \in RollupDays |-> 0]
      /\ job = [j \in RollupJobs |-> NoRun] /\ lastRun = [j \in RollupJobs |-> 0]
  BY DEF JobsInit
<1>2. Types
  BY <1>1, LengthFact DEF Types
<1>3. RunsAreRecent
  BY <1>1, SlackFact DEF RunsAreRecent
<1>4. NothingIsMissing /\ HourlyIsExact
  BY <1>1 DEF NothingIsMissing, HourlyIsExact
<1>5. HourlyRunIsExact /\ DailyRunIsExact
  BY <1>1 DEF HourlyRunIsExact, DailyRunIsExact, RollupJobs
<1>6. ASSUME NEW d \in RollupDays PROVE daily[d] = SumOver(inserted, HoursOf(d))
  <2>1. SumOn(inserted, HoursOf(d)) = 0
    BY <1>1, HoursFact, SumZero
  <2> QED
    BY <1>1, <2>1 DEF SumOver, SumOn
<1> QED
  BY <1>2, <1>3, <1>4, <1>5, <1>6 DEF JInv, DailyIsExact

(* A row comes too early to change what is exact. *)
LEMMA InsertStep ==
  ASSUME SlackIsAnHour, JInv, NEW h \in RollupHours, InsertRow(h)
  PROVE  JInv'
<1>1. /\ h \in hour - slack.lag..hour /\ inserted' = [inserted EXCEPT ![h] = @ + 1]
      /\ requests' = [requests EXCEPT ![h] = @ + 1]
      /\ UNCHANGED <<hour, slack, hourly, daily, job, lastRun>>
  BY DEF InsertRow
<1>2. Types /\ RunsAreRecent /\ slack.lag \in Nat /\ slack.gap \in Nat /\ slack.lag + slack.gap <= 1 /\ hour \in Nat
  BY SlackFact, LengthFact DEF JInv, Types
<1>3. Types'
  BY <1>1, <1>2 DEF Types
<1>4. RunsAreRecent'
  BY <1>1, <1>2 DEF RunsAreRecent, Run
<1>5. NothingIsMissing'
  BY <1>1, <1>2 DEF JInv, NothingIsMissing, Types
<1>6. ASSUME NEW t \in Nat, t <= hour
      PROVE  /\ ~Closed(h, t)
             /\ \A k \in RollupHours : Closed(k, t) => inserted'[k] = inserted[k]
  <2>1. ~Closed(h, t)
    BY <1>1, <1>2, <1>6, LengthFact DEF Closed, RollupHours
  <2> QED
    BY <1>1, <1>2, <2>1 DEF Types
<1>7. ASSUME NEW t \in Nat, t <= hour, NEW d, Over(d, t)
      PROVE  SumOver(inserted', HoursOf(d)) = SumOver(inserted, HoursOf(d))
  <2>1. h \notin HoursOf(d)
    BY <1>1, <1>2, <1>7, LengthFact DEF Over, RollupHours
  <2>2. \A k \in HoursOf(d) : inserted'[k] = inserted[k]
    BY <1>1, <1>2, <2>1 DEF Types, HoursOf
  <2> QED
    BY <2>2, SumsAgree
<1>8. \A j \in RollupJobs : /\ lastRun[j] \in Nat /\ lastRun[j] <= hour
                            /\ job[j] # NoRun => job[j].began \in Nat /\ job[j].began <= hour
  BY <1>2 DEF Types, RunsAreRecent
<1>9. HourlyIsExact'
  <2>1. lastRun["hourly"] \in Nat /\ lastRun["hourly"] <= hour
    BY <1>8 DEF RollupJobs
  <2> QED
    BY <1>1, <1>6, <2>1 DEF JInv, HourlyIsExact, Closed
<1>10. HourlyRunIsExact'
  <2> SUFFICES ASSUME job["hourly"] # NoRun, job["hourly"].sums # NoRun,
                      NEW k \in job["hourly"].window, Closed(k, job["hourly"].began)
               PROVE  job["hourly"].sums[k] = inserted'[k]
    BY <1>1 DEF HourlyRunIsExact, Closed
  <2>1. job["hourly"].began \in Nat /\ job["hourly"].began <= hour
    BY <1>8 DEF RollupJobs
  <2>2. k \in RollupHours
    BY <1>2 DEF RunsAreRecent, Run, RollupJobs, HourlyWindow
  <2> QED
    BY <1>6, <2>1, <2>2 DEF JInv, HourlyRunIsExact
<1>11. DailyIsExact'
  <2> SUFFICES ASSUME NEW d \in RollupDays, Over(d, lastRun["daily"])
               PROVE  daily[d] = SumOver(inserted', HoursOf(d))
    BY <1>1 DEF DailyIsExact
  <2>1. lastRun["daily"] \in Nat /\ lastRun["daily"] <= hour
    BY <1>8 DEF RollupJobs
  <2> QED
    BY <1>7, <2>1 DEF JInv, DailyIsExact
<1>12. DailyRunIsExact'
  <2> SUFFICES ASSUME job["daily"] # NoRun, job["daily"].sums # NoRun,
                      NEW d \in job["daily"].window, Over(d, job["daily"].began)
               PROVE  job["daily"].sums[d] = SumOver(inserted', HoursOf(d))
    BY <1>1 DEF DailyRunIsExact
  <2>1. job["daily"].began \in Nat /\ job["daily"].began <= hour
    BY <1>8 DEF RollupJobs
  <2> QED
    BY <1>7, <2>1 DEF JInv, DailyRunIsExact
<1> QED
  BY <1>3, <1>4, <1>5, <1>9, <1>10, <1>11, <1>12 DEF JInv

(* The tables and the runs stay exact where only runs begin or end         *)
(* without a commit, or rows that no run reads any more are deleted.       *)
LEMMA QuietStep ==
  ASSUME JInv, UNCHANGED <<hour, slack, inserted, hourly, daily, lastRun>>,
         Types', RunsAreRecent', NothingIsMissing',
         \A j \in RollupJobs : job'[j] = job[j] \/ job'[j] = NoRun \/ job'[j].sums = NoRun
  PROVE  JInv'
<1>1. HourlyIsExact' /\ DailyIsExact'
  BY DEF JInv, HourlyIsExact, DailyIsExact, Closed
<1>2. HourlyRunIsExact' /\ DailyRunIsExact'
  BY DEF JInv, HourlyRunIsExact, DailyRunIsExact, Closed, RollupJobs
<1> QED
  BY <1>1, <1>2 DEF JInv

LEMMA RunStep ==
  ASSUME JInv, NEW j \in RollupJobs, Execute(j) \/ RollBack(j)
  PROVE  JInv'
<1>1. UNCHANGED <<hour, slack, inserted, requests, hourly, daily, lastRun>>
  BY DEF Execute, RollBack
<1>2. \/ job' = [job EXCEPT ![j] = NoRun]
      \/ job' = [job EXCEPT ![j] = [began |-> hour, sums |-> NoRun,
                   window |-> IF j = "hourly" THEN HourlyWindow(hour) ELSE DailyWindow(hour)]]
  BY DEF Execute, RollBack
<1>3. Types'
  BY <1>1, <1>2 DEF JInv, Types
<1>4. RunsAreRecent'
  <2> SUFFICES ASSUME NEW k \in RollupJobs
               PROVE  /\ lastRun[k] <= hour /\ hour <= lastRun[k] + slack.gap + 1
                      /\ job'[k] # NoRun => job'[k] = Run(k)' /\ job'[k].began \in lastRun[k]..hour
    BY <1>1 DEF RunsAreRecent
  <2>1. /\ lastRun[k] <= hour /\ hour <= lastRun[k] + slack.gap + 1 /\ lastRun[k] \in Nat /\ hour \in Nat
        /\ job[k] # NoRun => job[k] = Run(k) /\ job[k].began \in lastRun[k]..hour
    BY LengthFact DEF JInv, RunsAreRecent, Types
  <2>2. CASE k # j
    BY <1>2, <2>1, <2>2 DEF JInv, Types, Run
  <2>3. CASE k = j
    BY <1>2, <2>1, <2>3 DEF JInv, Types, Run
  <2> QED
    BY <2>2, <2>3
<1>5. NothingIsMissing'
  BY <1>1 DEF JInv, NothingIsMissing
<1>6. \A k \in RollupJobs : job'[k] = job[k] \/ job'[k] = NoRun \/ job'[k].sums = NoRun
  BY <1>2 DEF JInv, Types
<1> QED
  BY <1>1, <1>3, <1>4, <1>5, <1>6, QuietStep

(* Retention deletes rows a day old at least. *)
LEMMA RetentionStep == ASSUME JInv, EnforceRequests PROVE JInv'
<1>1. PICK days \in RetentionDays :
        requests' = [h \in RollupHours |-> IF h < hour - days * HoursPerDay THEN 0 ELSE requests[h]]
  BY DEF EnforceRequests
<1>2. UNCHANGED <<hour, slack, inserted, hourly, daily, job, lastRun>>
  BY DEF EnforceRequests
<1>3. days \in Nat /\ 1 <= days
  BY JobsAssumption
<1>4. 1 * HoursPerDay <= days * HoursPerDay /\ 1 * HoursPerDay = HoursPerDay /\ days * HoursPerDay \in Nat
  BY <1>3, LengthFact, ProductFact
<1>5. hour \in Nat /\ HoursPerDay \in Nat
  BY LengthFact DEF JInv, Types
<1>6. \A h \in RollupHours : h >= hour - HoursPerDay => requests'[h] = requests[h]
  <2> DEFINE n == days * HoursPerDay
  <2>1. n \in Nat /\ HoursPerDay <= n /\ requests' = [h \in RollupHours |-> IF h < hour - n THEN 0 ELSE requests[h]]
    BY <1>1, <1>4
  <2> HIDE DEF n
  <2> QED
    BY <1>5, <2>1, LengthFact DEF RollupHours
<1>7. NothingIsMissing'
  BY <1>2, <1>6 DEF JInv, NothingIsMissing
<1>8. Types'
  <2>1. requests' \in [RollupHours -> Nat]
    BY <1>1 DEF JInv, Types
  <2> QED
    BY <1>2, <2>1 DEF JInv, Types
<1>9. RunsAreRecent'
  BY <1>2 DEF JInv, RunsAreRecent, Run
<1> QED
  BY <1>2, <1>7, <1>8, <1>9, QuietStep

(* The hour goes on while both jobs have run recently. *)
LEMMA HourStep == ASSUME JInv, NextHour PROVE JInv'
<1>1. /\ hour < LastHour /\ hour' = hour + 1 /\ \A j \in RollupJobs : hour - lastRun[j] <= slack.gap
      /\ UNCHANGED <<slack, inserted, requests, hourly, daily, job, lastRun>>
  BY DEF NextHour
<1>2. hour \in 0..LastHour /\ slack.gap \in Nat /\ lastRun \in [RollupJobs -> Nat] /\ LastHour \in Nat
  BY SlackFact, LengthFact DEF JInv, Types
<1>3. Types'
  BY <1>1, <1>2 DEF JInv, Types
<1>4. RunsAreRecent'
  <2> SUFFICES ASSUME NEW j \in RollupJobs
               PROVE  /\ lastRun[j] <= hour' /\ hour' <= lastRun[j] + slack.gap + 1
                      /\ job[j] # NoRun => job[j] = Run(j) /\ job[j].began \in lastRun[j]..hour'
    BY <1>1 DEF RunsAreRecent, Run
  <2>1. lastRun[j] <= hour /\ (job[j] # NoRun => job[j] = Run(j) /\ job[j].began \in lastRun[j]..hour)
    BY DEF JInv, RunsAreRecent
  <2> QED
    BY <1>1, <1>2, <2>1
<1>5. NothingIsMissing'
  BY <1>1, <1>2, LengthFact DEF JInv, NothingIsMissing, RollupHours
<1>6. HourlyIsExact' /\ DailyIsExact' /\ HourlyRunIsExact' /\ DailyRunIsExact'
  BY <1>1 DEF JInv, HourlyIsExact, DailyIsExact, HourlyRunIsExact, DailyRunIsExact, Closed
<1> QED
  BY <1>3, <1>4, <1>5, <1>6 DEF JInv

(* What has left the look-back of both rollups is exact. *)
LEMMA SettledHour ==
  ASSUME SlackIsAnHour, JInv, NEW h \in RollupHours, h < hour - 2
  PROVE  hourly[h] = inserted[h]
<1>1. /\ slack.lag \in Nat /\ slack.gap \in Nat /\ slack.lag + slack.gap <= 1 /\ hour \in Nat /\ h \in Nat
  BY SlackFact, LengthFact DEF JInv, Types, RollupHours
<1>2. lastRun["hourly"] \in Nat /\ hour <= lastRun["hourly"] + slack.gap + 1
  BY DEF JInv, Types, RunsAreRecent, RollupJobs
<1>3. Closed(h, lastRun["hourly"])
  BY <1>1, <1>2 DEF Closed
<1> QED
  BY <1>3 DEF JInv, HourlyIsExact

(* A day before the day before t's was over when the daily job last began, *)
(* if that was in the two hours before t.                                  *)
LEMMA DayWasOver ==
  ASSUME NEW t \in Nat, NEW u \in Nat, t <= u + 2, NEW d, d < DayOf(t) - 1
  PROVE  Over(d, u)
<1> SUFFICES ASSUME NEW h \in HoursOf(d) PROVE h < u - 2
  BY DEF Over
<1>1. h \in Nat /\ DayOf(h) < DayOf(t) - 1
  BY LengthFact DEF HoursOf, RollupHours
<1>2. h + 5 <= t
  BY <1>1, DaysBack
<1> QED
  BY <1>1, <1>2

LEMMA RunFact ==
  ASSUME SlackIsAnHour, JInv, NEW j \in RollupJobs, job[j] # NoRun
  PROVE  /\ job[j] = Run(j) /\ job[j].began \in Nat /\ lastRun[j] \in Nat /\ hour \in Nat
         /\ lastRun[j] <= job[j].began /\ job[j].began <= hour /\ hour <= lastRun[j] + slack.gap + 1
         /\ hour <= lastRun[j] + 2 /\ slack.lag \in Nat /\ slack.gap \in Nat /\ slack.lag + slack.gap <= 1
<1>1. /\ job[j] = Run(j) /\ job[j].began \in lastRun[j]..hour /\ lastRun[j] \in Nat /\ hour \in Nat
      /\ hour <= lastRun[j] + slack.gap + 1
  BY LengthFact DEF JInv, Types, RunsAreRecent
<1>2. slack.lag \in Nat /\ slack.gap \in Nat /\ slack.lag + slack.gap <= 1
  BY SlackFact DEF JInv, Types
<1> QED
  BY <1>1, <1>2

(* Writing the sums of a run keeps the rest of it. *)
LEMMA SumsStep ==
  ASSUME JInv, NEW j \in RollupJobs, job[j] # NoRun, NEW sums, job' = [job EXCEPT ![j].sums = sums],
         UNCHANGED <<hour, slack, inserted, requests, hourly, daily, lastRun>>
  PROVE  /\ Types' /\ RunsAreRecent' /\ NothingIsMissing' /\ HourlyIsExact' /\ DailyIsExact'
         /\ job'[j] = [began |-> job[j].began, sums |-> sums, window |-> job[j].window]
         /\ \A k \in RollupJobs \ {j} : job'[k] = job[k]
<1>1. job[j] = Run(j) /\ job = [k \in RollupJobs |-> job[k]]
  BY DEF JInv, Types, RunsAreRecent
<1>2. job'[j] = [job[j] EXCEPT !.sums = sums] /\ \A k \in RollupJobs \ {j} : job'[k] = job[k]
  BY <1>1
<1>3. job'[j] = [began |-> job[j].began, sums |-> sums, window |-> job[j].window]
  BY <1>1, <1>2 DEF Run
<1>4. Types'
  BY <1>1 DEF JInv, Types
<1>5. RunsAreRecent'
  <2> SUFFICES ASSUME NEW k \in RollupJobs
               PROVE  /\ lastRun[k] <= hour /\ hour <= lastRun[k] + slack.gap + 1
                      /\ job'[k] # NoRun => job'[k] = Run(k)' /\ job'[k].began \in lastRun[k]..hour
    BY DEF RunsAreRecent
  <2>1. /\ lastRun[k] <= hour /\ hour <= lastRun[k] + slack.gap + 1
        /\ job[k] # NoRun => job[k] = Run(k) /\ job[k].began \in lastRun[k]..hour
    BY DEF JInv, RunsAreRecent
  <2>2. CASE k # j
    BY <1>2, <2>1, <2>2 DEF Run
  <2>3. CASE k = j
    BY <1>1, <1>3, <2>1, <2>3 DEF Run
  <2> QED
    BY <2>2, <2>3
<1>6. NothingIsMissing' /\ HourlyIsExact' /\ DailyIsExact'
  BY DEF JInv, NothingIsMissing, HourlyIsExact, DailyIsExact, Closed
<1> QED
  BY <1>2, <1>3, <1>4, <1>5, <1>6

LEMMA AggregateHourlyStep == ASSUME SlackIsAnHour, JInv, AggregateHourly PROVE JInv'
<1> DEFINE run == job["hourly"]
           sums == [h \in run.window |-> requests[h]]
<1>1. /\ run # NoRun /\ job' = [job EXCEPT !["hourly"].sums = sums]
      /\ UNCHANGED <<hour, slack, inserted, requests, hourly, daily, lastRun>>
  BY DEF AggregateHourly
<1>2. /\ Types' /\ RunsAreRecent' /\ NothingIsMissing' /\ HourlyIsExact' /\ DailyIsExact'
      /\ job'["hourly"] = [began |-> run.began, sums |-> sums, window |-> run.window]
      /\ job'["daily"] = job["daily"]
  BY <1>1, SumsStep DEF RollupJobs
<1>3. /\ run = Run("hourly") /\ run.began \in Nat /\ hour \in Nat /\ hour <= lastRun["hourly"] + 2
      /\ lastRun["hourly"] <= run.began /\ lastRun["hourly"] \in Nat
  BY <1>1, RunFact DEF RollupJobs
<1>4. ASSUME NEW h \in run.window PROVE sums[h] = inserted[h]
  <2>1. h \in RollupHours /\ h \in run.began - 2..run.began
    BY <1>3 DEF Run, HourlyWindow
  <2>2. h >= hour - HoursPerDay
    BY <1>3, <2>1, LengthFact DEF RollupHours
  <2> QED
    BY <2>1, <2>2 DEF JInv, NothingIsMissing
<1>5. HourlyRunIsExact'
  BY <1>1, <1>2, <1>4 DEF HourlyRunIsExact, Closed
<1>6. DailyRunIsExact'
  BY <1>1, <1>2 DEF JInv, DailyRunIsExact
<1> QED
  BY <1>2, <1>5, <1>6 DEF JInv

LEMMA AggregateDailyStep == ASSUME SlackIsAnHour, JInv, AggregateDaily PROVE JInv'
<1> DEFINE run == job["daily"]
           sums == [d \in run.window |-> SumOver(hourly, HoursOf(d))]
<1>1. /\ run # NoRun /\ job' = [job EXCEPT !["daily"].sums = sums]
      /\ UNCHANGED <<hour, slack, inserted, requests, hourly, daily, lastRun>>
  BY DEF AggregateDaily, HoursOf
<1>2. /\ Types' /\ RunsAreRecent' /\ NothingIsMissing' /\ HourlyIsExact' /\ DailyIsExact'
      /\ job'["daily"] = [began |-> run.began, sums |-> sums, window |-> run.window]
      /\ job'["hourly"] = job["hourly"]
  BY <1>1, SumsStep DEF RollupJobs
<1>3. run.began \in Nat /\ run.began <= hour /\ hour \in Nat
  BY <1>1, RunFact DEF RollupJobs
<1>4. ASSUME NEW d \in run.window, Over(d, run.began) PROVE sums[d] = SumOver(inserted, HoursOf(d))
  <2>1. ASSUME NEW h \in HoursOf(d) PROVE hourly[h] = inserted[h]
    <3>1. h \in RollupHours /\ h < hour - 2
      BY <1>3, <1>4, LengthFact DEF HoursOf, Over, RollupHours
    <3> QED
      BY <3>1, SettledHour
  <2> QED
    BY <2>1, SumsAgree
<1>5. DailyRunIsExact'
  BY <1>1, <1>2, <1>4 DEF DailyRunIsExact
<1>6. HourlyRunIsExact'
  BY <1>1, <1>2 DEF JInv, HourlyRunIsExact, Closed
<1> QED
  BY <1>2, <1>5, <1>6 DEF JInv

(* What a commit does not write was exact before it: no run is so long     *)
(* after the one before that its look-back leaves a gap.                   *)
LEMMA CommitStep ==
  ASSUME SlackIsAnHour, JInv, NEW j \in RollupJobs, CommitRollup(j)
  PROVE  JInv'
<1> DEFINE run == job[j]
<1>1. /\ run # NoRun /\ run.sums # NoRun
      /\ hourly' = IF j = "hourly" THEN Rewritten(hourly, run) ELSE hourly
      /\ daily' = IF j = "daily" THEN Rewritten(daily, run) ELSE daily
      /\ job' = [job EXCEPT ![j] = NoRun] /\ lastRun' = [lastRun EXCEPT ![j] = run.began]
      /\ UNCHANGED <<hour, slack, inserted, requests>>
  BY DEF CommitRollup
<1>2. /\ run = Run(j) /\ run.began \in Nat /\ lastRun[j] \in Nat /\ hour \in Nat
      /\ lastRun[j] <= run.began /\ run.began <= hour /\ hour <= lastRun[j] + slack.gap + 1
      /\ hour <= lastRun[j] + 2 /\ slack.lag \in Nat /\ slack.gap \in Nat /\ slack.lag + slack.gap <= 1
  BY <1>1, RunFact
<1>3. /\ job'[j] = NoRun /\ lastRun'[j] = run.began
      /\ \A k \in RollupJobs \ {j} : job'[k] = job[k] /\ lastRun'[k] = lastRun[k]
  BY <1>1 DEF JInv, Types
<1>4. Types'
  <2>1. DOMAIN hourly' = RollupHours /\ DOMAIN daily' = RollupDays
    BY <1>1 DEF JInv, Types, Rewritten
  <2>2. lastRun' \in [RollupJobs -> Nat]
    BY <1>1, <1>2 DEF JInv, Types
  <2>3. DOMAIN job' = RollupJobs /\ job' = [k \in RollupJobs |-> job'[k]]
    BY <1>1 DEF JInv, Types
  <2> QED
    BY <1>1, <2>1, <2>2, <2>3 DEF JInv, Types
<1>5. RunsAreRecent'
  <2> SUFFICES ASSUME NEW k \in RollupJobs
               PROVE  /\ lastRun'[k] <= hour /\ hour <= lastRun'[k] + slack.gap + 1
                      /\ job'[k] # NoRun => job'[k] = Run(k)' /\ job'[k].began \in lastRun'[k]..hour
    BY <1>1 DEF RunsAreRecent
  <2>1. CASE k = j
    BY <1>2, <1>3, <2>1
  <2>2. CASE k # j
    BY <1>3, <2>2 DEF JInv, RunsAreRecent, Run
  <2> QED
    BY <2>1, <2>2
<1>6. NothingIsMissing'
  BY <1>1 DEF JInv, NothingIsMissing
<1>7. HourlyRunIsExact' /\ DailyRunIsExact'
  <2>1. \A k \in RollupJobs : job'[k] = NoRun \/ job'[k] = job[k]
    BY <1>3
  <2> QED
    BY <1>1, <2>1 DEF JInv, HourlyRunIsExact, DailyRunIsExact, Closed, RollupJobs
<1>8. HourlyIsExact' /\ DailyIsExact'
  <2>1. CASE j = "hourly"
    <3>1. daily' = daily /\ lastRun'["daily"] = lastRun["daily"]
      BY <1>1, <1>3, <2>1 DEF RollupJobs
    <3>2. DailyIsExact'
      BY <1>1, <3>1 DEF JInv, DailyIsExact
    <3>3. ASSUME NEW h \in RollupHours, Closed(h, run.began) PROVE hourly'[h] = inserted[h]
      <4>1. h \in Nat /\ hourly'[h] = IF h \in run.window THEN run.sums[h] ELSE hourly[h]
        BY <1>1, <2>1, LengthFact DEF JInv, Types, Rewritten, RollupHours
      <4>2. CASE h \in run.window
        BY <1>1, <2>1, <3>3, <4>1, <4>2 DEF JInv, HourlyRunIsExact
      <4>3. CASE h \notin run.window
        <5>1. h \notin run.began - 2..run.began
          BY <1>2, <2>1, <4>3 DEF Run, HourlyWindow
        <5>2. h < run.began - 2
          BY <1>2, <3>3, <4>1, <5>1 DEF Closed
        <5>3. Closed(h, lastRun["hourly"])
          BY <1>2, <2>1, <4>1, <5>2 DEF Closed
        <5> QED
          BY <4>1, <4>3, <5>3 DEF JInv, HourlyIsExact
      <4> QED
        BY <4>2, <4>3
    <3>4. HourlyIsExact'
      BY <1>1, <1>3, <2>1, <3>3 DEF HourlyIsExact, Closed
    <3> QED
      BY <3>2, <3>4
  <2>2. CASE j = "daily"
    <3>1. hourly' = hourly /\ lastRun'["hourly"] = lastRun["hourly"]
      BY <1>1, <1>3, <2>2 DEF RollupJobs
    <3>2. HourlyIsExact'
      BY <1>1, <3>1 DEF JInv, HourlyIsExact, Closed
    <3>3. ASSUME NEW d \in RollupDays, Over(d, run.began)
          PROVE  daily'[d] = SumOver(inserted, HoursOf(d))
      <4>1. daily'[d] = IF d \in run.window THEN run.sums[d] ELSE daily[d]
        BY <1>1, <2>2 DEF JInv, Types, Rewritten
      <4>2. CASE d \in run.window
        BY <1>1, <2>2, <3>3, <4>1, <4>2 DEF JInv, DailyRunIsExact
      <4>3. CASE d \notin run.window
        <5>1. d \notin DayOf(run.began) - 1..DayOf(run.began)
          BY <1>2, <2>2, <4>3 DEF Run, DailyWindow
        <5>2. d \in Nat /\ DayOf(run.began) \in Nat
          <6>1. d \in Nat
            BY DEF RollupDays
          <6>2. run.began \in Nat
            BY <1>2
          <6> QED
            BY <6>1, <6>2, DivFact
        <5>3. ~(d > DayOf(run.began))
          BY <1>2, <3>3, DaysAhead
        <5>4. d < DayOf(run.began) - 1
          BY <5>1, <5>2, <5>3
        <5>5. Over(d, lastRun["daily"])
          <6>1. run.began <= lastRun["daily"] + 2 /\ lastRun["daily"] \in Nat
            BY <1>2, <2>2
          <6> QED
            BY <1>2, <5>4, <6>1, DayWasOver
        <5> QED
          BY <4>1, <4>3, <5>5 DEF JInv, DailyIsExact
      <4> QED
        BY <4>2, <4>3
    <3>4. DailyIsExact'
      BY <1>1, <1>3, <2>2, <3>3 DEF DailyIsExact
    <3> QED
      BY <3>2, <3>4
  <2> QED
    BY <2>1, <2>2 DEF RollupJobs
<1> QED
  BY <1>4, <1>5, <1>6, <1>7, <1>8 DEF JInv

LEMMA NextStep == SlackIsAnHour /\ JInv /\ [JobsNext]_jobVars => JInv'
<1> SUFFICES ASSUME SlackIsAnHour, JInv, [JobsNext]_jobVars PROVE JInv'
  OBVIOUS
<1>1. ASSUME UNCHANGED jobVars PROVE JInv'
  BY <1>1 DEF jobVars, JInv, Types, RunsAreRecent, Run, NothingIsMissing, HourlyIsExact, HourlyRunIsExact,
              DailyIsExact, DailyRunIsExact, Closed
<1> QED
  BY <1>1, InsertStep, RunStep, CommitStep, AggregateHourlyStep, AggregateDailyStep, RetentionStep, HourStep
     DEF JobsNext

LEMMA JInvSuffices == SlackIsAnHour /\ JInv => SettledHoursAreExact
<1> SUFFICES ASSUME SlackIsAnHour, JInv PROVE SettledHoursAreExact
  OBVIOUS
<1>1. \A h \in RollupHours : h < hour - 2 => hourly[h] = inserted[h]
  BY SettledHour
<1>2. ASSUME NEW d \in RollupDays, d < DayOf(hour) - 1
      PROVE  daily[d] = SumOver(inserted, {h \in RollupHours : DayOf(h) = d})
  <2>1. hour \in Nat /\ lastRun["daily"] \in Nat /\ hour <= lastRun["daily"] + slack.gap + 1
    BY LengthFact DEF JInv, Types, RunsAreRecent, RollupJobs
  <2>2. slack.gap \in Nat /\ slack.gap <= 1
    BY SlackFact DEF JInv, Types
  <2>3. hour <= lastRun["daily"] + 2
    BY <2>1, <2>2
  <2>4. Over(d, lastRun["daily"])
    BY <1>2, <2>1, <2>3, DayWasOver
  <2> QED
    BY <2>4 DEF JInv, DailyIsExact, HoursOf
<1> QED
  BY <1>1, <1>2 DEF SettledHoursAreExact

(* For any number of hours and rows: an hour that has left the look-back   *)
(* of rollup.hourly, and a day that has left that of rollup.daily, hold    *)
(* every row ever inserted for them, whichever runs failed, overlapped the *)
(* turn of the hour or read what another was about to replace, and         *)
(* whatever retention deleted, as long as rows are late and runs apart by  *)
(* an hour at most together.                                               *)
THEOREM SettledHoursAreExactCorrect ==
  ASSUME SlackIsAnHour PROVE JobsSpec => []SettledHoursAreExact
<1>1. SlackIsAnHour
  OBVIOUS
<1>2. JInv /\ [JobsNext]_jobVars => JInv'
  BY <1>1, NextStep
<1>3. JInv => SettledHoursAreExact
  BY <1>1, JInvSuffices
<1> QED
  BY <1>2, <1>3, InitHolds, PTL DEF JobsSpec
=============================================================================
