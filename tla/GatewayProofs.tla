---------------------------- MODULE GatewayProofs ----------------------------
(***************************************************************************)
(* Proofs about Gateway for any number of requests, models, documents and  *)
(* minutes: the pipeline's accounting, its rate limit, its cache and its   *)
(* budget counters.                                                        *)
(***************************************************************************)
EXTENDS Gateway, SumProofs, SequenceTheorems

-----------------------------------------------------------------------------
(* What the decisions can come to *)

Providers == {"openai", "gemini", "ollama"}
Periods == {"daily", "monthly"}
Keys == Models \X Bodies
Served == Models \cup {"unlisted"}
Highest == Max({Price[m] : m \in Models})

LEMMA HighestFact == Highest \in Nat /\ \A m \in Models : Price[m] \in 0..Highest
<1> DEFINE S == {Price[m] : m \in Models}
<1>1. \A m \in Models : Price[m] \in Nat
  BY GatewayAssumption
<1>2. S \in SUBSET Int /\ S # {}
  BY <1>1, GatewayAssumption
<1>3. IsFiniteSet(S)
  BY GatewayAssumption, FiniteImage
<1>4. Highest \in S /\ \A x \in S : x <= Highest
  BY <1>2, <1>3, MaxFact DEF Highest
<1> QED
  BY <1>1, <1>4

LEMMA PolicyFact ==
  /\ EmptyPolicy \in Documents
  /\ Len(Policies) \in Nat /\ Len(Policies) >= 1
  /\ \A v \in 0..Len(Policies) : PolicyAt(v) \in Documents
<1>1. EmptyPolicy \in Documents
  BY DEF EmptyPolicy, Documents
<1>2. Policies \in Seq(Documents) /\ Policies # <<>>
  BY GatewayAssumption
<1>3. Len(Policies) \in Nat /\ Len(Policies) >= 1 /\ \A v \in 1..Len(Policies) : Policies[v] \in Documents
  BY <1>2, LenProperties, EmptySeq
<1> QED
  BY <1>1, <1>3 DEF PolicyAt

LEMMA EvaluateFact ==
  ASSUME NEW doc \in Documents, NEW model \in Models, NEW d \in Evaluate(doc, model)
  PROVE  d.model \in Models
<1>1. doc.routing # Off => doc.routing.to \in Models
  BY DEF Documents
<1> DEFINE To(m, b) == [model |-> m, blocked |-> b]
           refused == doc.allowed # Off /\ model \notin doc.allowed
           ruled == doc.routing # Off /\ model = doc.routing.from
<1>2. CASE refused
  <2>1. Evaluate(doc, model) = {To(model, TRUE)}
    BY <1>2 DEF Evaluate
  <2> QED
    BY <2>1
<1>3. CASE ~refused /\ ruled
  <2>1. \A x \in Evaluate(doc, model) : x = To(doc.routing.to, FALSE) \/ x = To(model, FALSE)
    BY <1>3 DEF Evaluate
  <2> QED
    BY <1>1, <1>3, <2>1
<1>4. CASE ~refused /\ ~ruled
  <2>1. Evaluate(doc, model) = {To(model, FALSE)}
    BY <1>4 DEF Evaluate
  <2> QED
    BY <2>1
<1> QED
  BY <1>2, <1>3, <1>4

LEMMA ProviderFact ==
  ASSUME NEW model \in Models
  PROVE  ResolveProvider(model) \in Providers
  BY GatewayAssumption DEF ResolveProvider, Providers

LEMMA CostFact ==
  ASSUME NEW provider, NEW model, NEW usage \in 0..1
  PROVE  Cost(provider, model, usage) \in 0..Highest
<1>1. CASE model \in Models
  <2>1. Price[model] \in 0..Highest /\ Highest \in Nat
    BY <1>1, HighestFact
  <2>2. usage * Price[model] \in 0..Highest
    BY <2>1
  <2> QED
    BY <1>1, <2>1, <2>2 DEF Cost
<1>2. CASE model \notin Models
  BY <1>2, HighestFact DEF Cost
<1> QED
  BY <1>1, <1>2

LEMMA BucketFact ==
  /\ IsFiniteSet(Buckets)
  /\ \A period \in Periods, t \in 0..MaxMinute : Bucket(period, t) \in Buckets
<1> DEFINE Days == 0..(MaxMinute \div MinutesPerDay)
           Daily == {<<"daily", d>> : d \in Days}
<1>1. MaxMinute \in Nat /\ MinutesPerDay \in Nat /\ MinutesPerDay > 0
  BY GatewayAssumption
<1>2. \A t \in 0..MaxMinute : t \div MinutesPerDay \in Days
  BY <1>1
<1>3. IsFiniteSet(Days)
  BY <1>1, FS_Interval
<1>4. IsFiniteSet(Daily)
  <2> DEFINE f == [d \in Days |-> <<"daily", d>>]
  <2>1. Daily = {f[d] : d \in Days}
    OBVIOUS
  <2> HIDE DEF f, Daily, Days
  <2> QED
    BY <1>3, <2>1, FiniteImage
<1>5. IsFiniteSet(Buckets)
  <2>1. Buckets = Daily \cup {<<"monthly", 0>>}
    BY DEF Buckets
  <2> HIDE DEF Daily
  <2> QED
    BY <1>4, <2>1, FS_AddElement
<1> QED
  BY <1>2, <1>5 DEF Bucket, Buckets, Periods

LEMMA StreamFact ==
  ASSUME NEW provider \in Providers, NEW metered \in BOOLEAN, NEW e \in StreamEnds[provider][metered]
  PROVE  e.status \in {"ok", "timeout", "client_abort", "provider_error"} /\ e.usage \in 0..1
<1>1. PICK rd \in Reached(provider, metered) :
             \E t \in Turn(provider, metered, rd) : e \in StreamEnd(t)
  BY DEF StreamEnds, Providers
<1>2. PICK t \in Turn(provider, metered, rd) : e \in StreamEnd(t)
  BY <1>1
<1>3. rd \in Readers
  BY DEF Reached
<1>4. t.rd.usage \in 0..1 /\ t.out \in {"chunk", "eof", "error", "none"}
  <2>1. CASE rd.closed
    BY <1>3, <2>1 DEF Turn, Drain, Readers
  <2>2. CASE ~rd.closed
    <3>1. PICK ev \in Upstream(provider) : t = Read(provider, rd, ev)
      BY <2>2 DEF Turn
    <3>2. CASE provider = "openai"
      BY <1>3, <3>1, <3>2 DEF Upstream, Read, OpenAIRead, Readers
    <3>3. CASE provider = "gemini"
      BY <1>3, <3>1, <3>3 DEF Upstream, Read, GeminiRead, Readers
    <3>4. CASE provider = "ollama"
      BY <1>3, <3>1, <3>4 DEF Upstream, Read, OllamaRead, Readers
    <3> QED
      BY <3>2, <3>3, <3>4 DEF Providers
  <2> QED
    BY <2>1, <2>2
<1> QED
  BY <1>2, <1>4 DEF StreamEnd
-----------------------------------------------------------------------------
(* The types behind TypeOK, and what each request holds at each stage *)

Charges == Buckets \X Nat
Admissions == (0..MaxMinute) \X Int
Versions == 0..Len(Policies)
Stages == {"limit", "budget", "lookup", "call", "charge", "store"}
Routed == {"lookup", "call", "charge", "store"}
Sold == {"charge", "store"}

OkRecords ==
  [status : {"ok"}, cacheStatus : {"miss", "disabled"}, cost : 0..Highest, saved : {0},
   routed : Models, model : Served, usage : 0..1, key : Keys, version : Versions]
HitRecords ==
  [status : {"ok"}, cacheStatus : {"hit"}, cost : {0}, saved : 0..Highest,
   routed : Models, model : Served, usage : 0..1, key : Keys, version : Versions]
FailedRecords == [status : {"failed", "blocked"}, cost : 0..Highest, cacheStatus : {"bypass"}]
Records == OkRecords \cup HitRecords \cup FailedRecords
Entries == [model : Served, usage : 0..1, cost : 0..Highest, streamed : BOOLEAN, expires : Int]
Work == [rec : OkRecords, streamed : BOOLEAN]

Resting ==
  [phase : {"idle", "done"}, understood : BOOLEAN, admit : {None} \cup Admissions, checked : BOOLEAN,
   charged : {None} \cup Charges]
Holding ==
  [phase : Stages, in : Inputs, doc : Documents, version : Versions, model : Models,
   provider : Providers, key : {None} \cup Keys, work : {None} \cup Work,
   understood : {TRUE}, admit : {None} \cup Admissions, checked : BOOLEAN, charged : {None} \cup Charges]

(* What a handler knows at its stage. *)
Knows(j) ==
  /\ j.doc = PolicyAt(j.version)
  /\ j.phase = "limit" => j.doc.rate # Off /\ j.admit = None
  /\ j.phase \in {"budget", "charge"} => j.doc.budget # Off
  /\ j.phase # "store" => j.charged = None
  /\ j.phase = "store" => j.doc.ttl # Off
  /\ j.phase \in Routed => j.key = CacheKey(j.in, j.model)
  /\ j.phase \in Sold => /\ j.work \in Work /\ j.work.rec.key = j.key
                         /\ j.work.rec.routed = j.model /\ j.work.rec.version = j.version
  /\ j.phase = "charge" => j.work.rec.cost > 0
  /\ j.checked => j.phase \in Routed /\ j.doc.budget # Off /\ j.doc.budget.mode = "hard"

(* A request and its records. *)
Waiting(j, l) == j = Idle /\ l = <<>>
Working(j, l) == j \in Holding /\ Knows(j) /\ l = IF j.phase \in Sold THEN <<j.work.rec>> ELSE <<>>
Finished(j, l) ==
  /\ j \in Resting /\ j.phase = "done"
  /\ \/ l = <<>> /\ j = Done(Idle)
     \/ j.understood /\ \E rec \in Records : l = <<rec>>
RequestOK(j, l) == Waiting(j, l) \/ Working(j, l) \/ Finished(j, l)

Types ==
  /\ policy \in 1..Len(Policies) /\ now \in 0..MaxMinute /\ lost \in Nat /\ faults \in 0..MaxFaults
  /\ counter \in [0..MaxMinute -> Nat] /\ spend \in [Buckets -> Nat]
  /\ cache \in [Keys -> {None} \cup Entries]
  /\ job = [r \in Requests |-> job[r]] /\ log = [r \in Requests |-> log[r]]
RequestsOK == \A r \in Requests : RequestOK(job[r], log[r])

Base == Types /\ RequestsOK

(* A step of r leaves what the others hold, and their records, alone. *)
Only(r) ==
  /\ job' = [job EXCEPT ![r] = job'[r]] /\ log' = [log EXCEPT ![r] = log'[r]]
  /\ \A q \in Requests : q # r => job'[q] = job[q] /\ log'[q] = log[q]

LEMMA IdleFact == Idle \in Resting /\ Done(Idle) \in Resting /\ Idle.phase = "idle" /\ Done(Idle).phase = "done"
  BY DEF Idle, Done, Resting

LEMMA DoneFact ==
  ASSUME NEW j \in Holding
  PROVE  /\ Done(j) \in Resting /\ Done(j).phase = "done" /\ Done(j).understood
         /\ Done(j).admit = j.admit /\ Done(j).checked = j.checked /\ Done(j).charged = j.charged
  BY DEF Done, Resting, Holding

LEMMA FailedFact ==
  ASSUME NEW status \in {"failed", "blocked"}, NEW cost \in 0..Highest
  PROVE  Failed(status, cost) \in Records /\ Failed(status, cost).status # "ok"
         /\ Failed(status, cost).cacheStatus = "bypass"
<1>1. Failed(status, cost) \in FailedRecords
  BY DEF Failed, FailedRecords
<1> QED
  BY <1>1 DEF Records, FailedRecords

LEMMA AnsweredFact ==
  ASSUME NEW j \in Holding, j.phase = "call", Knows(j), NEW model \in Served, NEW usage \in 0..1
  PROVE  /\ Answered(j, model, usage) \in OkRecords
         /\ Answered(j, model, usage).key = j.key /\ Answered(j, model, usage).routed = j.model
         /\ Answered(j, model, usage).version = j.version
<1>1. j.key \in Keys /\ j.model \in Models /\ j.version \in Versions
  <2>1. j.in \in Inputs /\ j.model \in Models /\ j.version \in Versions
    BY DEF Holding
  <2>2. j.in.body \in Bodies
    BY <2>1, GatewayAssumption
  <2>3. j.key = <<j.model, j.in.body>>
    BY DEF Knows, Routed, CacheKey
  <2> QED
    BY <2>1, <2>2, <2>3 DEF Keys
<1>2. Cost(j.provider, model, usage) \in 0..Highest
  BY CostFact
<1> QED
  BY <1>1, <1>2 DEF Answered, OkRecords

LEMMA ReplayedFact ==
  ASSUME NEW j \in Holding, NEW e \in Entries, j.key \in Keys
  PROVE  Replayed(j, e) \in HitRecords
<1>1. j.model \in Models /\ j.version \in Versions
  BY DEF Holding
<1>2. e.model \in Served /\ e.usage \in 0..1 /\ e.cost \in 0..Highest
  BY DEF Entries
<1> QED
  BY <1>1, <1>2 DEF Replayed, HitRecords

(* A request that waits, that works and that is done are told by its phase. *)
LEMMA PhaseFact ==
  ASSUME NEW j, NEW l, RequestOK(j, l)
  PROVE  /\ j.phase = "idle" => Waiting(j, l)
         /\ j.phase \in Stages => Working(j, l)
         /\ j.phase = "done" => Finished(j, l)
         /\ j.phase \in Stages \cup {"idle", "done"}
<1>1. CASE Waiting(j, l)
  BY <1>1, IdleFact DEF Waiting, Stages
<1>2. CASE Working(j, l)
  BY <1>2 DEF Working, Holding, Stages
<1>3. CASE Finished(j, l)
  BY <1>3 DEF Finished, Stages
<1> QED
  BY <1>1, <1>2, <1>3 DEF RequestOK

(* Emptiness of the log and its one record. *)
LEMMA LogFact ==
  ASSUME NEW rec
  PROVE  /\ Append(<<>>, rec) = <<rec>> /\ Len(<<rec>>) = 1 /\ Len(<<>>) = 0
         /\ DOMAIN <<rec>> = {1} /\ <<rec>>[1] = rec
  OBVIOUS
-----------------------------------------------------------------------------
(* What one stage does *)

LEMMA Moved ==
  ASSUME Types, NEW r \in Requests, NEW x, NEW y,
         job' = [job EXCEPT ![r] = x], log' = [log EXCEPT ![r] = y]
  PROVE  Only(r) /\ job'[r] = x /\ log'[r] = y
  BY DEF Types, Only

LEMMA Kept ==
  ASSUME Types, NEW r \in Requests, NEW x, job' = [job EXCEPT ![r] = x], log' = log
  PROVE  Only(r) /\ job'[r] = x /\ log'[r] = log[r]
  BY DEF Types, Only

LEMMA Emitted ==
  ASSUME Types, NEW r \in Requests, NEW x, NEW rec,
         job' = [job EXCEPT ![r] = x], log' = [log EXCEPT ![r] = Append(<<>>, rec)]
  PROVE  Only(r) /\ job'[r] = x /\ log'[r] = <<rec>>
<1>1. Only(r) /\ job'[r] = x /\ log'[r] = Append(<<>>, rec)
  BY Moved
<1> QED
  BY <1>1, LogFact

LEMMA RefuseFact ==
  ASSUME Base, NEW r \in Requests, Refuse(r)
  PROVE  /\ Only(r) /\ Waiting(job[r], log[r]) /\ Finished(job'[r], log'[r])
         /\ job'[r] = Done(Idle) /\ log'[r] = <<>>
<1>1. Types /\ RequestOK(job[r], log[r]) /\ job[r].phase = "idle"
  BY DEF Base, RequestsOK, Refuse
<1>2. Waiting(job[r], log[r])
  BY <1>1, PhaseFact
<1>3. Only(r) /\ job'[r] = Done(Idle) /\ log'[r] = log[r]
  BY <1>1, Kept DEF Refuse
<1>4. Finished(job'[r], log'[r])
  BY <1>2, <1>3, IdleFact DEF Waiting, Finished
<1> QED
  BY <1>2, <1>3, <1>4 DEF Waiting

LEMMA StartFact ==
  ASSUME Base, NEW r \in Requests, Start(r)
  PROVE  /\ Only(r) /\ Waiting(job[r], log[r]) /\ RequestOK(job'[r], log'[r])
         /\ job'[r].admit = None /\ job'[r].checked = FALSE /\ job'[r].charged = None
         /\ job'[r].phase \notin Sold /\ faults' \in 0..MaxFaults
         /\ log'[r] = <<>> \/ log'[r] = <<Failed("blocked", 0)>>
<1>1. /\ Types /\ RequestOK(job[r], log[r]) /\ job[r].phase = "idle"
      /\ policy \in Versions /\ faults \in 0..MaxFaults /\ MaxFaults \in Nat
  BY PolicyFact, GatewayAssumption DEF Base, RequestsOK, Start, Types, Versions
<1>2. Waiting(job[r], log[r]) /\ log[r] = <<>>
  BY <1>1, PhaseFact DEF Waiting
<1>3. PICK in \in Inputs, v \in {0, policy}, hasKey \in BOOLEAN :
        /\ IF v = policy THEN UNCHANGED faults ELSE Fault
        /\ \E d \in Evaluate(PolicyAt(v), in.model) :
             LET provider == ResolveProvider(d.model)
                 j == [phase |-> AfterStart(PolicyAt(v)), in |-> in, doc |-> PolicyAt(v),
                       version |-> v, model |-> IF d.blocked THEN in.model ELSE d.model,
                       provider |-> IF d.blocked THEN "openai" ELSE provider, key |-> None,
                       work |-> None, understood |-> TRUE,
                       admit |-> None, checked |-> FALSE, charged |-> None]
             IN IF d.blocked \/ ~Usable(provider, hasKey)
                THEN Blocked(r, j)
                ELSE /\ job' = [job EXCEPT ![r] = [j EXCEPT !.key =
                                  IF j.phase \in {"lookup", "call"} THEN CacheKey(in, d.model) ELSE None]]
                     /\ UNCHANGED log
  BY DEF Start
<1> DEFINE doc == PolicyAt(v)
<1>4. v \in Versions /\ doc \in Documents /\ in.model \in Models /\ in.body \in Bodies
  BY <1>1, PolicyFact, GatewayAssumption DEF Versions
<1>5. faults' \in 0..MaxFaults
  BY <1>1, <1>3 DEF Fault
<1>6. AfterStart(doc) \in Stages \ Sold /\ (AfterStart(doc) = "limit" => doc.rate # Off)
      /\ (AfterStart(doc) = "budget" => doc.budget # Off)
  BY DEF AfterStart, AfterLimit, AfterBudget, Stages, Sold
<1> HIDE DEF doc
<1>7. PICK d \in Evaluate(doc, in.model) :
             LET provider == ResolveProvider(d.model)
                 j == [phase |-> AfterStart(doc), in |-> in, doc |-> doc,
                       version |-> v, model |-> IF d.blocked THEN in.model ELSE d.model,
                       provider |-> IF d.blocked THEN "openai" ELSE provider, key |-> None,
                       work |-> None, understood |-> TRUE,
                       admit |-> None, checked |-> FALSE, charged |-> None]
             IN IF d.blocked \/ ~Usable(provider, hasKey)
                THEN Blocked(r, j)
                ELSE /\ job' = [job EXCEPT ![r] = [j EXCEPT !.key =
                                  IF j.phase \in {"lookup", "call"} THEN CacheKey(in, d.model) ELSE None]]
                     /\ UNCHANGED log
  BY <1>3 DEF doc
<1>8. d.model \in Models /\ ResolveProvider(d.model) \in Providers
  BY <1>4, <1>7, EvaluateFact, ProviderFact
<1> DEFINE Made(key, model, provider) ==
                   [phase |-> AfterStart(doc), in |-> in, doc |-> doc,
                    version |-> v, model |-> model, provider |-> provider, key |-> key,
                    work |-> None, understood |-> TRUE, admit |-> None, checked |-> FALSE, charged |-> None]
<1>9. \A key \in {None} \cup Keys, model \in Models, provider \in Providers :
        Made(key, model, provider) \in Holding
  BY <1>4, <1>6 DEF Holding
<1>10. CASE d.blocked \/ ~Usable(ResolveProvider(d.model), hasKey)
  <2>1. PICK model \in Models, provider \in Providers : Blocked(r, Made(None, model, provider))
    BY <1>4, <1>7, <1>8, <1>10 DEF Providers
  <2> DEFINE j == Made(None, model, provider)
  <2>2. j \in Holding
    BY <1>9
  <2>3. j.admit = None /\ j.checked = FALSE /\ j.charged = None
    OBVIOUS
  <2> HIDE DEF Made
  <2>4. /\ Only(r) /\ job'[r] = Done(j) /\ log'[r] = Append(log[r], Failed("blocked", 0))
    BY <1>1, <2>1, Moved DEF Blocked, Types
  <2>5. log'[r] = <<Failed("blocked", 0)>> /\ Failed("blocked", 0) \in Records
    BY <1>2, <2>4, LogFact, FailedFact, HighestFact
  <2> QED
    BY <1>2, <1>5, <2>2, <2>3, <2>4, <2>5, DoneFact DEF RequestOK, Finished, Sold
<1>11. CASE ~(d.blocked \/ ~Usable(ResolveProvider(d.model), hasKey))
  <2> DEFINE key == IF AfterStart(doc) \in {"lookup", "call"} THEN CacheKey(in, d.model) ELSE None
             j == Made(key, d.model, ResolveProvider(d.model))
  <2>1. job' = [job EXCEPT ![r] = j] /\ UNCHANGED log
    BY <1>7, <1>11
  <2>2. key \in {None} \cup Keys
    BY <1>4, <1>8 DEF CacheKey, Keys
  <2>3. j \in Holding
    BY <1>8, <1>9, <2>2
  <2>4. Knows(j) /\ j.phase \notin Sold
    BY <1>6 DEF Knows, doc, Routed, Sold, Stages
  <2>5. j.admit = None /\ j.checked = FALSE /\ j.charged = None
    OBVIOUS
  <2> HIDE DEF j
  <2>6. Only(r) /\ job'[r] = j /\ log'[r] = log[r]
    BY <1>1, <2>1, Kept
  <2> QED
    BY <1>2, <1>5, <2>3, <2>4, <2>5, <2>6 DEF RequestOK, Working
<1> QED
  BY <1>10, <1>11
(* What a request that works holds. *)
LEMMA WorkFact ==
  ASSUME Base, NEW r \in Requests, job[r].phase \in Stages
  PROVE  /\ Types /\ Working(job[r], log[r]) /\ job[r] \in Holding /\ Knows(job[r])
         /\ job[r].doc \in Documents /\ job[r].in.model \in Models /\ job[r].in.body \in Bodies
         /\ job[r].model \in Models /\ job[r].provider \in Providers
         /\ job[r].phase \notin Sold => log[r] = <<>>
         /\ job[r].phase \in Sold => log[r] = <<job[r].work.rec>>
         /\ CacheKey(job[r].in, job[r].model) \in Keys
<1>1. Types /\ RequestOK(job[r], log[r])
  BY DEF Base, RequestsOK
<1>2. Working(job[r], log[r]) /\ job[r] \in Holding
  BY <1>1, PhaseFact DEF Working
<1>3. /\ job[r].doc \in Documents /\ job[r].in \in Inputs
      /\ job[r].model \in Models /\ job[r].provider \in Providers
  BY <1>2 DEF Holding
<1>4. job[r].in.model \in Models /\ job[r].in.body \in Bodies
  BY <1>3, GatewayAssumption
<1> QED
  BY <1>1, <1>2, <1>3, <1>4 DEF Working, CacheKey, Keys

LEMMA BlockedFact ==
  ASSUME Types, NEW r \in Requests, log[r] = <<>>, NEW j \in Holding, Blocked(r, j)
  PROVE  /\ Only(r) /\ job'[r] = Done(j) /\ log'[r] = <<Failed("blocked", 0)>>
         /\ Finished(job'[r], log'[r])
<1>1. Only(r) /\ job'[r] = Done(j) /\ log'[r] = Append(log[r], Failed("blocked", 0))
  BY Moved DEF Blocked, Types
<1>2. log'[r] = <<Failed("blocked", 0)>> /\ Failed("blocked", 0) \in Records
  BY <1>1, LogFact, FailedFact, HighestFact
<1> QED
  BY <1>1, <1>2, DoneFact DEF Finished

LEMMA RateLimitFact ==
  ASSUME Base, NEW r \in Requests, RateLimit(r)
  PROVE  /\ Only(r) /\ job[r].phase = "limit" /\ Working(job[r], log[r])
         /\ RequestOK(job'[r], log'[r]) /\ faults' \in 0..MaxFaults
         /\ job[r].admit = None /\ job[r].checked = FALSE /\ job'[r].checked = FALSE
         /\ job[r].charged = None /\ job'[r].charged = None
         /\ job'[r].phase \notin Sold
         /\ log'[r] = <<>> \/ log'[r] = <<Failed("blocked", 0)>>
         /\ counter' \in [0..MaxMinute -> Nat] /\ \A m \in 0..MaxMinute : counter'[m] >= counter[m]
         /\ \/ job'[r].admit = None
            \/ /\ job'[r].admit = <<now, job[r].doc.rate>> /\ job[r].doc.rate \in Int
               /\ counter'[now] = counter[now] + 1 /\ counter'[now] <= job[r].doc.rate
<1> DEFINE j == job[r]
           key == IF AfterLimit(j.doc) = "budget" THEN None ELSE CacheKey(j.in, j.model)
           passed == [j EXCEPT !.phase = AfterLimit(j.doc), !.key = key]
<1>1. /\ Types /\ Working(j, log[r]) /\ j \in Holding /\ Knows(j) /\ j.phase = "limit" /\ log[r] = <<>>
      /\ CacheKey(j.in, j.model) \in Keys
  BY WorkFact DEF RateLimit, Stages, Sold
<1>2. /\ j.doc.rate \in Int /\ j.admit = None /\ j.checked = FALSE /\ j.charged = None
      /\ now \in 0..MaxMinute /\ counter \in [0..MaxMinute -> Nat] /\ faults \in 0..MaxFaults
      /\ MaxFaults \in Nat /\ j.doc = PolicyAt(j.version)
  <2>1. j.doc.rate \in Int
    BY <1>1 DEF Holding, Documents, Knows
  <2> QED
    BY <1>1, <2>1, GatewayAssumption DEF Holding, Knows, Types, Routed
<1>3. /\ AfterLimit(j.doc) \in Stages \ (Sold \cup {"limit"})
      /\ AfterLimit(j.doc) = "budget" => j.doc.budget # Off
  BY DEF AfterLimit, AfterBudget, Stages, Sold
<1>4. passed \in Holding /\ passed.admit = None /\ passed.checked = FALSE /\ passed.charged = None
      /\ passed.phase \notin Sold
  BY <1>1, <1>2, <1>3 DEF Holding
<1>5. Knows(passed) /\ Knows([passed EXCEPT !.admit = <<now, j.doc.rate>>])
  BY <1>1, <1>2, <1>3 DEF Knows, Holding, Routed, Sold, Stages
<1>6. [passed EXCEPT !.admit = <<now, j.doc.rate>>] \in Holding
  BY <1>2, <1>4 DEF Holding, Admissions
<1>7. /\ [passed EXCEPT !.admit = <<now, j.doc.rate>>].admit = <<now, j.doc.rate>>
      /\ [passed EXCEPT !.admit = <<now, j.doc.rate>>].phase = passed.phase
      /\ [passed EXCEPT !.admit = <<now, j.doc.rate>>].checked = FALSE
      /\ [passed EXCEPT !.admit = <<now, j.doc.rate>>].charged = None
  BY <1>4 DEF Holding
<1>8. CASE /\ counter' = [counter EXCEPT ![now] = @ + 1]
           /\ Within(counter[now] + 1, j.doc.rate)
           /\ job' = [job EXCEPT ![r] = [passed EXCEPT !.admit = <<now, j.doc.rate>>]]
           /\ UNCHANGED log /\ UNCHANGED faults
  <2>1. Only(r) /\ job'[r] = [passed EXCEPT !.admit = <<now, j.doc.rate>>] /\ log'[r] = log[r]
    BY <1>1, <1>8, Kept
  <2>2. counter'[now] = counter[now] + 1 /\ counter[now] + 1 <= j.doc.rate /\ faults' = faults
        /\ counter' \in [0..MaxMinute -> Nat] /\ \A m \in 0..MaxMinute : counter'[m] >= counter[m]
    BY <1>2, <1>8 DEF Within
  <2>3. Working(job'[r], log'[r])
    BY <1>1, <1>4, <1>5, <1>6, <1>7, <2>1 DEF Working
  <2> HIDE DEF passed
  <2> QED
    BY <1>1, <1>2, <1>4, <1>7, <2>1, <2>2, <2>3 DEF RequestOK
<1>9. CASE /\ counter' = [counter EXCEPT ![now] = @ + 1] /\ UNCHANGED faults
           /\ Blocked(r, j)
  <2>1. Only(r) /\ job'[r] = Done(j) /\ log'[r] = <<Failed("blocked", 0)>> /\ Finished(job'[r], log'[r])
    BY <1>1, <1>9, BlockedFact
  <2>2. counter' \in [0..MaxMinute -> Nat] /\ \A m \in 0..MaxMinute : counter'[m] >= counter[m]
    BY <1>2, <1>9
  <2> QED
    BY <1>1, <1>2, <1>9, <2>1, <2>2, DoneFact DEF RequestOK, Sold
<1>10. CASE \E n \in 0..1 :
              /\ Fault
              /\ counter' = [counter EXCEPT ![now] = @ + n]
              /\ job' = [job EXCEPT ![r] = passed]
              /\ UNCHANGED log
  <2>1. Only(r) /\ job'[r] = passed /\ log'[r] = log[r]
    BY <1>1, <1>10, Kept
  <2>2. counter' \in [0..MaxMinute -> Nat] /\ \A m \in 0..MaxMinute : counter'[m] >= counter[m]
    BY <1>2, <1>10
  <2>3. faults' \in 0..MaxFaults
    BY <1>2, <1>10 DEF Fault
  <2>4. Working(job'[r], log'[r])
    BY <1>1, <1>4, <1>5, <2>1 DEF Working
  <2> HIDE DEF passed
  <2> QED
    BY <1>1, <1>2, <1>4, <2>1, <2>2, <2>3, <2>4 DEF RequestOK
<1> QED
  BY <1>8, <1>9, <1>10 DEF RateLimit

LEMMA CheckBudgetFact ==
  ASSUME Base, NEW r \in Requests, CheckBudget(r)
  PROVE  /\ Only(r) /\ job[r].phase = "budget" /\ Working(job[r], log[r])
         /\ RequestOK(job'[r], log'[r]) /\ faults' \in 0..MaxFaults
         /\ job[r].checked = FALSE /\ job'[r].admit = job[r].admit
         /\ job[r].charged = None /\ job'[r].charged = None
         /\ job'[r].phase \notin Sold
         /\ log'[r] = <<>> \/ log'[r] = <<Failed("blocked", 0)>>
         /\ job[r].doc.budget.limit \in Int /\ job[r].doc.budget.period \in Periods
         /\ \/ job'[r].checked = FALSE
            \/ /\ job'[r].checked = TRUE /\ job'[r].phase \in {"lookup", "call"}
               /\ job[r].doc.budget.mode = "hard" /\ job'[r].doc = job[r].doc
               /\ spend[Bucket(job[r].doc.budget.period, now)] < job[r].doc.budget.limit
<1> DEFINE j == job[r]
           passed == [j EXCEPT !.phase = AfterBudget(j.doc), !.key = CacheKey(j.in, j.model)]
           checked == [passed EXCEPT !.checked = j.doc.budget.mode = "hard"]
           b == Bucket(j.doc.budget.period, now)
<1>1. /\ Types /\ Working(j, log[r]) /\ j \in Holding /\ Knows(j) /\ j.phase = "budget" /\ log[r] = <<>>
      /\ CacheKey(j.in, j.model) \in Keys
  BY WorkFact DEF CheckBudget, Stages, Sold
<1>2. /\ j.doc.budget # Off /\ j.doc.budget.mode \in {"disabled", "soft", "hard"}
      /\ j.doc.budget.limit \in Int /\ j.doc.budget.period \in Periods
      /\ j.checked = FALSE /\ j.charged = None /\ faults \in 0..MaxFaults
      /\ MaxFaults \in Nat /\ j.doc = PolicyAt(j.version)
  <2>1. j.doc.budget # Off /\ j.doc \in Documents
    BY <1>1 DEF Holding, Knows
  <2>2. /\ j.doc.budget.mode \in {"disabled", "soft", "hard"}
        /\ j.doc.budget.limit \in Int /\ j.doc.budget.period \in Periods
    BY <2>1 DEF Documents, Periods
  <2> QED
    BY <1>1, <2>1, <2>2, GatewayAssumption DEF Holding, Knows, Types, Routed
<1>3. spend[b] \in Int
  BY <1>1, <1>2, BucketFact DEF Types
<1>4. AfterBudget(j.doc) \in {"lookup", "call"}
  BY DEF AfterBudget
<1>5. /\ passed \in Holding /\ passed.phase = AfterBudget(j.doc) /\ passed.admit = j.admit
      /\ passed.checked = FALSE /\ passed.charged = None /\ passed.doc = j.doc
  BY <1>1, <1>2, <1>4 DEF Holding, Stages
<1>6. /\ checked \in Holding /\ checked.phase = AfterBudget(j.doc) /\ checked.admit = j.admit
      /\ checked.checked = (j.doc.budget.mode = "hard") /\ checked.charged = None /\ checked.doc = j.doc
  <2> DEFINE hard == j.doc.budget.mode = "hard"
  <2>1. hard \in BOOLEAN /\ checked = [passed EXCEPT !.checked = hard]
    OBVIOUS
  <2> HIDE DEF hard, passed, checked
  <2>2. /\ checked \in Holding /\ checked.phase = passed.phase /\ checked.admit = passed.admit
        /\ checked.checked = hard /\ checked.charged = passed.charged /\ checked.doc = passed.doc
    BY <1>5, <2>1 DEF Holding
  <2> QED
    BY <1>5, <2>2 DEF hard
<1>7. Knows(passed) /\ Knows(checked)
  BY <1>1, <1>2, <1>4 DEF Knows, Holding, Routed, Sold, Stages
<1>8. CASE UNCHANGED faults /\ EvaluateBudget(j.doc.budget, spend[b]) /\ Blocked(r, j)
  <2>1. Only(r) /\ job'[r] = Done(j) /\ log'[r] = <<Failed("blocked", 0)>> /\ Finished(job'[r], log'[r])
    BY <1>1, <1>8, BlockedFact
  <2> QED
    BY <1>1, <1>2, <1>8, <2>1, DoneFact DEF RequestOK, Sold
<1>9. CASE /\ UNCHANGED faults /\ ~EvaluateBudget(j.doc.budget, spend[b])
           /\ job' = [job EXCEPT ![r] = checked] /\ UNCHANGED log
  <2>1. Only(r) /\ job'[r] = checked /\ log'[r] = log[r]
    BY <1>1, <1>9, Kept
  <2>2. j.doc.budget.mode = "hard" => spend[b] < j.doc.budget.limit
    BY <1>2, <1>3, <1>9 DEF EvaluateBudget
  <2> HIDE DEF checked
  <2>3. Working(job'[r], log'[r])
    BY <1>1, <1>4, <1>6, <1>7, <2>1 DEF Working, Sold
  <2>4. job'[r].checked = FALSE \/ j.doc.budget.mode = "hard"
    BY <1>6, <2>1
  <2>5. j.doc.budget.mode = "hard" => job'[r].checked = TRUE
    BY <1>6, <2>1
  <2> QED
    BY <1>1, <1>2, <1>4, <1>6, <1>9, <2>1, <2>2, <2>3, <2>4, <2>5 DEF RequestOK, Sold
<1>10. CASE Fault /\ job' = [job EXCEPT ![r] = passed] /\ UNCHANGED log
  <2>1. Only(r) /\ job'[r] = passed /\ log'[r] = log[r]
    BY <1>1, <1>10, Kept
  <2>2. faults' \in 0..MaxFaults
    BY <1>2, <1>10 DEF Fault
  <2> HIDE DEF passed
  <2>3. Working(job'[r], log'[r])
    BY <1>1, <1>4, <1>5, <1>7, <2>1 DEF Working, Sold
  <2> QED
    BY <1>1, <1>2, <1>4, <1>5, <2>1, <2>2, <2>3 DEF RequestOK, Sold
<1> QED
  BY <1>8, <1>9, <1>10 DEF CheckBudget
LEMMA LookupFact ==
  ASSUME Base, NEW r \in Requests, Lookup(r)
  PROVE  /\ Only(r) /\ job[r].phase = "lookup" /\ Working(job[r], log[r])
         /\ RequestOK(job'[r], log'[r]) /\ faults' \in 0..MaxFaults
         /\ job'[r].admit = job[r].admit /\ job'[r].checked = job[r].checked
         /\ job[r].charged = None /\ job'[r].charged = None /\ job[r].key \in Keys
         /\ \/ job'[r].phase = "call" /\ job'[r].doc = job[r].doc /\ log'[r] = <<>>
            \/ /\ job'[r].phase = "done" /\ cache[job[r].key] # None
               /\ log'[r] = <<Replayed(job[r], cache[job[r].key])>>
<1> DEFINE j == job[r]
           e == cache[j.key]
           called == [j EXCEPT !.phase = "call"]
<1>1. /\ Types /\ Working(j, log[r]) /\ j \in Holding /\ Knows(j) /\ j.phase = "lookup" /\ log[r] = <<>>
      /\ CacheKey(j.in, j.model) \in Keys
  BY WorkFact DEF Lookup, Stages, Sold
<1>2. j.key \in Keys /\ j.charged = None /\ faults \in 0..MaxFaults /\ MaxFaults \in Nat
  BY <1>1, GatewayAssumption DEF Knows, Routed, Types
<1>3. e # None => e \in Entries
  BY <1>1, <1>2 DEF Types
<1>4. CASE Fresh(e) /\ UNCHANGED faults /\ Finish(r, Replayed(j, e))
  <2>1. e # None
    BY <1>4 DEF Fresh
  <2>2. Replayed(j, e) \in Records
    BY <1>1, <1>2, <1>3, <2>1, ReplayedFact DEF Records
  <2>3. job' = [job EXCEPT ![r] = Done(j)] /\ log' = [log EXCEPT ![r] = Append(<<>>, Replayed(j, e))]
    BY <1>1, <1>4 DEF Finish, Types
  <2> HIDE DEF e
  <2>4. Only(r) /\ job'[r] = Done(j) /\ log'[r] = <<Replayed(j, e)>>
    BY <1>1, <2>3, Emitted
  <2>5. Finished(job'[r], log'[r]) /\ job'[r].phase = "done"
    BY <1>1, <2>2, <2>4, DoneFact DEF Finished
  <2> QED
    BY <1>1, <1>2, <1>4, <2>1, <2>4, <2>5, DoneFact DEF RequestOK, e
<1>5. CASE /\ IF Fresh(e) THEN Fault ELSE UNCHANGED faults
           /\ job' = [job EXCEPT ![r] = called] /\ UNCHANGED log
  <2>1. faults' \in 0..MaxFaults
    BY <1>2, <1>5 DEF Fault
  <2>2. /\ called \in Holding /\ called.phase = "call" /\ called.doc = j.doc /\ called.admit = j.admit
        /\ called.checked = j.checked /\ called.charged = None
    BY <1>1, <1>2 DEF Holding, Stages
  <2>3. Knows(called)
    BY <1>1 DEF Knows, Holding, Routed, Sold, Stages
  <2> HIDE DEF called
  <2>4. Only(r) /\ job'[r] = called /\ log'[r] = log[r]
    BY <1>1, <1>5, Kept
  <2>5. Working(job'[r], log'[r])
    BY <1>1, <2>2, <2>3, <2>4 DEF Working, Sold
  <2> QED
    BY <1>1, <1>2, <2>1, <2>2, <2>4, <2>5 DEF RequestOK
<1> QED
  BY <1>4, <1>5 DEF Lookup

(* How a call ends: a record of failure, or one of a sale that is still to *)
(* be charged where it cost something and there is a budget.               *)
Fails(r) == /\ job'[r].phase = "done" /\ \E rec \in FailedRecords : log'[r] = <<rec>>
Sells(r) ==
  \E rec \in OkRecords :
    /\ log'[r] = <<rec>> /\ rec.key = job[r].key /\ rec.routed = job[r].model
    /\ rec.version = job[r].version
    /\ IF job[r].doc.budget # Off /\ rec.cost > 0
       THEN job'[r].phase = "charge" /\ job'[r].doc = job[r].doc /\ job'[r].work.rec = rec
       ELSE job'[r].phase \in {"store", "done"}
Ends(r) ==
  /\ Only(r) /\ RequestOK(job'[r], log'[r])
  /\ job'[r].admit = job[r].admit /\ job'[r].checked = job[r].checked /\ job'[r].charged = None
  /\ Fails(r) \/ Sells(r)

LEMMA StoreOrDoneFact ==
  ASSUME NEW j \in Holding, Knows(j), j.phase = "call", j.charged = None,
         NEW rec \in OkRecords, rec.key = j.key, rec.routed = j.model, rec.version = j.version,
         NEW k \in Holding, NEW w \in Work, w.rec = rec,
         k = [j EXCEPT !.work = w]
  PROVE  /\ RequestOK(StoreOrDone(k), <<rec>>)
         /\ StoreOrDone(k).phase \in {"store", "done"}
         /\ StoreOrDone(k).admit = j.admit /\ StoreOrDone(k).checked = j.checked
         /\ StoreOrDone(k).charged = None
<1>1. /\ k.admit = j.admit /\ k.checked = j.checked /\ k.charged = None /\ k.work = w /\ k.doc = j.doc
      /\ k.phase = "call" /\ k.key = j.key /\ k.model = j.model /\ k.version = j.version /\ k.in = j.in
  BY DEF Holding
<1> DEFINE s == [k EXCEPT !.phase = "store"]
<1>2. CASE Caching(k.doc) /\ k.doc.ttl > 0
  <2>1. StoreOrDone(k) = s
    BY <1>2 DEF StoreOrDone
  <2>2. /\ s \in Holding /\ s.phase = "store" /\ s.admit = j.admit /\ s.checked = j.checked
        /\ s.charged = None /\ s.work = w /\ s.doc = j.doc /\ s.key = j.key /\ s.model = j.model
        /\ s.version = j.version /\ s.in = j.in
    BY <1>1 DEF Holding, Stages
  <2> HIDE DEF s
  <2>3. Knows(s)
    BY <1>1, <1>2, <2>2 DEF Knows, Routed, Sold, Caching
  <2>4. Working(s, <<rec>>)
    BY <2>2, <2>3 DEF Working, Sold
  <2> QED
    BY <2>1, <2>2, <2>4 DEF RequestOK
<1>3. CASE ~(Caching(k.doc) /\ k.doc.ttl > 0)
  <2>1. StoreOrDone(k) = Done(k)
    BY <1>3 DEF StoreOrDone
  <2>2. rec \in Records
    BY DEF Records
  <2>3. Finished(Done(k), <<rec>>)
    BY <2>2, DoneFact DEF Finished
  <2>4. /\ Done(k).phase = "done" /\ Done(k).admit = k.admit /\ Done(k).checked = k.checked
        /\ Done(k).charged = k.charged
    BY DoneFact
  <2>5. RequestOK(Done(k), <<rec>>)
    BY <2>3 DEF RequestOK
  <2> QED
    BY <1>1, <2>1, <2>4, <2>5
<1> QED
  BY <1>2, <1>3

LEMMA SuccessFact ==
  ASSUME Base, NEW r \in Requests, job[r].phase = "call",
         NEW rec \in OkRecords, rec.key = job[r].key, rec.routed = job[r].model,
         rec.version = job[r].version, NEW streamed, [rec |-> rec, streamed |-> streamed] \in Work,
         Success(r, rec, streamed)
  PROVE  Ends(r)
<1> DEFINE j == job[r]
           w == [rec |-> rec, streamed |-> streamed]
           k == [j EXCEPT !.work = w]
           c == [k EXCEPT !.phase = "charge"]
<1>1. /\ Types /\ Working(j, log[r]) /\ j \in Holding /\ Knows(j) /\ j.phase = "call" /\ log[r] = <<>>
  BY WorkFact DEF Stages, Sold
<1>2. j.charged = None
  BY <1>1 DEF Knows
<1>3. rec \in OkRecords /\ rec.key = j.key /\ rec.routed = j.model /\ rec.version = j.version
  OBVIOUS
<1>9. log' = [log EXCEPT ![r] = Append(<<>>, rec)]
  BY <1>1 DEF Success, Types
<1>4. job' = [job EXCEPT ![r] = IF k.doc.budget # Off /\ rec.cost > 0 THEN c ELSE StoreOrDone(k)]
  BY <1>1 DEF Success, Types
<1>5. w \in Work /\ w.rec = rec
  OBVIOUS
<1> HIDE DEF w
<1>6. /\ k \in Holding /\ k.admit = j.admit /\ k.checked = j.checked /\ k.charged = None
      /\ k.work = w /\ k.doc = j.doc /\ k.phase = "call" /\ k.key = j.key /\ k.model = j.model
      /\ k.version = j.version /\ k.in = j.in
  BY <1>1, <1>2, <1>5 DEF Holding
<1>7. CASE j.doc.budget # Off /\ rec.cost > 0
  <2>1. /\ c \in Holding /\ c.phase = "charge" /\ c.admit = j.admit /\ c.checked = j.checked
        /\ c.charged = None /\ c.work = w /\ c.doc = j.doc /\ c.key = j.key /\ c.model = j.model
        /\ c.version = j.version /\ c.in = j.in
    BY <1>6 DEF Holding, Stages
  <2>2. Only(r) /\ job'[r] = c /\ log'[r] = <<rec>>
    <3>1. job' = [job EXCEPT ![r] = c]
      BY <1>4, <1>6, <1>7
    <3> HIDE DEF c
    <3> QED
      BY <1>1, <1>9, <3>1, Emitted
  <2> HIDE DEF c, k
  <2>3. Knows(c)
    BY <1>1, <1>3, <1>5, <1>7, <2>1 DEF Knows, Routed, Sold
  <2>4. Working(c, <<rec>>)
    BY <1>5, <2>1, <2>3 DEF Working, Sold
  <2>5. Sells(r)
    BY <1>3, <1>5, <1>7, <2>1, <2>2 DEF Sells
  <2> QED
    BY <2>1, <2>2, <2>4, <2>5 DEF Ends, RequestOK
<1>8. CASE ~(j.doc.budget # Off /\ rec.cost > 0)
  <2> DEFINE s == StoreOrDone(k)
  <2>1. /\ RequestOK(s, <<rec>>) /\ s.phase \in {"store", "done"}
        /\ s.admit = j.admit /\ s.checked = j.checked /\ s.charged = None
    BY <1>1, <1>2, <1>3, <1>5, <1>6, StoreOrDoneFact
  <2>2. job' = [job EXCEPT ![r] = s]
    BY <1>4, <1>6, <1>8
  <2> HIDE DEF s
  <2>3. Only(r) /\ job'[r] = s /\ log'[r] = <<rec>>
    BY <1>1, <1>9, <2>2, Emitted
  <2>4. Sells(r)
    BY <1>3, <1>8, <2>1, <2>3 DEF Sells
  <2> QED
    BY <2>1, <2>3, <2>4 DEF Ends
<1> QED
  BY <1>7, <1>8

LEMMA FailureFact ==
  ASSUME Base, NEW r \in Requests, job[r].phase = "call",
         NEW rec \in FailedRecords, Finish(r, rec)
  PROVE  Ends(r)
<1> DEFINE j == job[r]
<1>1. /\ Types /\ Working(j, log[r]) /\ j \in Holding /\ Knows(j) /\ j.phase = "call" /\ log[r] = <<>>
  BY WorkFact DEF Stages, Sold
<1>2. j.charged = None
  BY <1>1 DEF Knows
<1>3. rec \in FailedRecords /\ rec \in Records
  BY DEF Records
<1>4. job' = [job EXCEPT ![r] = Done(j)] /\ log' = [log EXCEPT ![r] = Append(<<>>, rec)]
  BY <1>1 DEF Finish, Types
<1>5. Only(r) /\ job'[r] = Done(j) /\ log'[r] = <<rec>>
  BY <1>1, <1>4, Emitted
<1>6. Finished(job'[r], log'[r])
  BY <1>1, <1>3, <1>5, DoneFact DEF Finished
<1> QED
  BY <1>1, <1>2, <1>3, <1>5, <1>6, DoneFact DEF Ends, Fails, RequestOK

LEMMA CallFact ==
  ASSUME Base, NEW r \in Requests, CallUnary(r) \/ CallStream(r)
  PROVE  /\ Ends(r) /\ job[r].phase = "call" /\ Working(job[r], log[r])
         /\ job[r].charged = None /\ UNCHANGED <<policy, now, redis, lost, faults>>
<1>1. job[r].phase = "call" /\ UNCHANGED <<policy, now, redis, lost, faults>>
  BY DEF CallUnary, CallStream
<1>2. /\ Working(job[r], log[r]) /\ Knows(job[r]) /\ job[r] \in Holding
      /\ job[r].model \in Served /\ job[r].provider \in Providers
  BY <1>1, WorkFact DEF Stages, Served
<1>3. ASSUME NEW model \in Served, NEW usage \in 0..1, NEW rec, rec = Answered(job[r], model, usage)
      PROVE  /\ rec \in OkRecords /\ rec.key = job[r].key /\ rec.routed = job[r].model
             /\ rec.version = job[r].version
             /\ [rec |-> rec, streamed |-> TRUE] \in Work /\ [rec |-> rec, streamed |-> FALSE] \in Work
  <2>1. rec \in OkRecords /\ rec.key = job[r].key /\ rec.routed = job[r].model
        /\ rec.version = job[r].version
    BY <1>1, <1>2, <1>3, AnsweredFact
  <2> QED
    BY <2>1 DEF Work
<1>4. ASSUME NEW cost \in 0..Highest PROVE Failed("failed", cost) \in FailedRecords
  BY DEF Failed, FailedRecords
<1>5. ASSUME ProviderError(r) PROVE Ends(r)
  <2>1. PICK rec \in FailedRecords : Finish(r, rec)
    BY <1>4, <1>5, HighestFact DEF ProviderError
  <2> QED
    BY <1>1, <2>1, FailureFact
<1>6. ASSUME \E served \in {<<job[r].model, 0>>, <<job[r].model, 1>>, <<"unlisted", 1>>} :
             Success(r, Answered(job[r], served[1], served[2]), FALSE)
      PROVE  Ends(r)
  <2>1. PICK served \in {<<job[r].model, 0>>, <<job[r].model, 1>>, <<"unlisted", 1>>} :
             Success(r, Answered(job[r], served[1], served[2]), FALSE)
    BY <1>6
  <2>2. served[1] \in Served /\ served[2] \in 0..1
    BY <1>2, <2>1 DEF Served
  <2> DEFINE rec == Answered(job[r], served[1], served[2])
  <2>3. /\ rec \in OkRecords /\ rec.key = job[r].key /\ rec.routed = job[r].model
        /\ rec.version = job[r].version /\ [rec |-> rec, streamed |-> FALSE] \in Work
    BY <1>3, <2>2
  <2>4. Success(r, rec, FALSE)
    BY <2>1
  <2> HIDE DEF rec
  <2> QED
    BY <1>1, <2>3, <2>4, SuccessFact
<1>7. ASSUME \E e \in StreamEnds[job[r].provider][job[r].in.stream = "yes"] :
             EndStream(r, e.status, e.usage)
      PROVE  Ends(r)
  <2> DEFINE metered == job[r].in.stream = "yes"
  <2>1. metered \in BOOLEAN
    OBVIOUS
  <2> HIDE DEF metered
  <2>2. PICK e \in StreamEnds[job[r].provider][metered] : EndStream(r, e.status, e.usage)
    BY <1>7 DEF metered
  <2>3. e.usage \in 0..1
    BY <1>2, <2>1, StreamFact
  <2>4. CASE e.status = "ok"
    <3> DEFINE rec == Answered(job[r], job[r].model, e.usage)
    <3>1. /\ rec \in OkRecords /\ rec.key = job[r].key /\ rec.routed = job[r].model
          /\ rec.version = job[r].version /\ [rec |-> rec, streamed |-> TRUE] \in Work
      BY <1>2, <1>3, <2>3
    <3>2. Success(r, rec, TRUE)
      BY <2>2, <2>4 DEF EndStream
    <3> HIDE DEF rec
    <3> QED
      BY <1>1, <3>1, <3>2, SuccessFact
  <2>5. CASE e.status # "ok"
    <3> DEFINE cost == Cost(job[r].provider, job[r].model, e.usage)
               rec == Failed("failed", cost)
    <3>1. cost \in 0..Highest
      BY <2>3, CostFact
    <3>2. Finish(r, rec)
      BY <2>2, <2>5 DEF EndStream
    <3> HIDE DEF cost
    <3>3. rec \in FailedRecords
      BY <1>4, <3>1
    <3> HIDE DEF rec
    <3> QED
      BY <1>1, <3>2, <3>3, FailureFact
  <2> QED
    BY <2>4, <2>5
<1>8. Ends(r)
  BY <1>5, <1>6, <1>7 DEF CallUnary, CallStream
<1> QED
  BY <1>1, <1>2, <1>8 DEF Knows
LEMMA ChargeFact ==
  ASSUME Base, NEW r \in Requests, Charge(r)
  PROVE  /\ Only(r) /\ job[r].phase = "charge" /\ Working(job[r], log[r])
         /\ RequestOK(job'[r], log'[r]) /\ log'[r] = log[r] /\ faults' \in 0..MaxFaults
         /\ job'[r].admit = job[r].admit /\ job'[r].checked = job[r].checked
         /\ job'[r].phase \in {"store", "done"} /\ job[r].charged = None
         /\ job[r].doc.budget.period \in Periods /\ job[r].work.rec.cost \in 0..Highest
         /\ Bucket(job[r].doc.budget.period, now) \in Buckets
         /\ \/ /\ job'[r].charged = <<Bucket(job[r].doc.budget.period, now), job[r].work.rec.cost>>
               /\ spend' = [spend EXCEPT ![Bucket(job[r].doc.budget.period, now)] = @ + job[r].work.rec.cost]
               /\ lost' = lost
            \/ job'[r].charged = None /\ spend' = spend /\ lost' = lost + job[r].work.rec.cost
<1> DEFINE j == job[r]
           b == Bucket(j.doc.budget.period, now)
           cost == j.work.rec.cost
           k == [j EXCEPT !.charged = <<b, cost>>]
<1>1. /\ Types /\ Working(j, log[r]) /\ j \in Holding /\ Knows(j) /\ j.phase = "charge"
      /\ log[r] = <<j.work.rec>> /\ j.doc \in Documents
  BY WorkFact DEF Charge, Stages, Sold
<1>2. /\ j.doc.budget # Off /\ j.charged = None /\ j.work.rec \in OkRecords /\ j.work \in Work
      /\ j.key \in Keys
  BY <1>1, WorkFact DEF Knows, Work, Sold, Routed, Stages
<1>3. j.doc.budget.period \in Periods
  BY <1>1, <1>2 DEF Documents, Periods
<1>4. b \in Buckets /\ cost \in 0..Highest /\ faults \in 0..MaxFaults /\ MaxFaults \in Nat /\ Highest \in Nat
  BY <1>1, <1>2, <1>3, BucketFact, HighestFact, GatewayAssumption DEF Types, OkRecords
<1>5. ASSUME NEW x \in Holding, Knows(x) \/ x = k, x.phase = "charge", x.work = j.work,
             x.doc = j.doc, x.key = j.key, x.model = j.model, x.version = j.version, x.in = j.in,
             x.checked = j.checked, x.admit = j.admit
      PROVE  /\ RequestOK(StoreOrDone(x), log[r]) /\ StoreOrDone(x).phase \in {"store", "done"}
             /\ StoreOrDone(x).charged = x.charged /\ StoreOrDone(x).admit = j.admit
             /\ StoreOrDone(x).checked = j.checked
  <2> DEFINE s == [x EXCEPT !.phase = "store"]
  <2>1. CASE Caching(x.doc) /\ x.doc.ttl > 0
    <3>1. StoreOrDone(x) = s
      BY <2>1 DEF StoreOrDone
    <3>2. /\ s \in Holding /\ s.phase = "store" /\ s.admit = j.admit /\ s.checked = j.checked
          /\ s.charged = x.charged /\ s.work = j.work /\ s.doc = j.doc /\ s.key = j.key /\ s.model = j.model
          /\ s.version = j.version /\ s.in = j.in
      BY <1>5 DEF Holding, Stages
    <3> HIDE DEF s
    <3>3. Knows(s)
      BY <1>1, <1>5, <2>1, <3>2 DEF Knows, Routed, Sold, Caching
    <3>4. Working(s, log[r])
      BY <1>1, <3>2, <3>3 DEF Working, Sold
    <3> QED
      BY <3>1, <3>2, <3>4 DEF RequestOK
  <2>2. CASE ~(Caching(x.doc) /\ x.doc.ttl > 0)
    <3>1. StoreOrDone(x) = Done(x)
      BY <2>2 DEF StoreOrDone
    <3>2. Finished(Done(x), log[r])
      BY <1>1, <1>2, DoneFact DEF Finished, Records
    <3> QED
      BY <1>5, <3>1, <3>2, DoneFact DEF RequestOK
  <2> QED
    BY <2>1, <2>2
<1>6. CASE /\ spend' = [spend EXCEPT ![b] = @ + cost]
           /\ job' = [job EXCEPT ![r] = StoreOrDone(k)] /\ UNCHANGED <<lost, faults>> /\ log' = log
  <2>1. <<b, cost>> \in Charges
    BY <1>4 DEF Charges
  <2>2. /\ k \in Holding /\ k.phase = "charge" /\ k.work = j.work
        /\ k.doc = j.doc /\ k.key = j.key /\ k.model = j.model /\ k.version = j.version /\ k.in = j.in
        /\ k.checked = j.checked /\ k.admit = j.admit /\ k.charged = <<b, cost>>
    BY <1>1, <2>1 DEF Holding
  <2> DEFINE s == StoreOrDone(k)
  <2>3. /\ RequestOK(s, log[r]) /\ s.phase \in {"store", "done"}
        /\ s.charged = <<b, cost>> /\ s.admit = j.admit /\ s.checked = j.checked
    BY <1>5, <2>2
  <2>4. job' = [job EXCEPT ![r] = s]
    BY <1>6
  <2> HIDE DEF s
  <2>5. Only(r) /\ job'[r] = s /\ log'[r] = log[r]
    BY <1>1, <1>6, <2>4, Kept
  <2> QED
    BY <1>1, <1>2, <1>3, <1>4, <1>6, <2>3, <2>5
<1>7. CASE /\ Fault /\ lost' = lost + cost
           /\ job' = [job EXCEPT ![r] = StoreOrDone(j)] /\ UNCHANGED spend /\ log' = log
  <2> DEFINE s == StoreOrDone(j)
  <2>1. /\ RequestOK(s, log[r]) /\ s.phase \in {"store", "done"}
        /\ s.charged = None /\ s.admit = j.admit /\ s.checked = j.checked
    BY <1>1, <1>2, <1>5
  <2>2. job' = [job EXCEPT ![r] = s]
    BY <1>7
  <2> HIDE DEF s
  <2>3. Only(r) /\ job'[r] = s /\ log'[r] = log[r]
    BY <1>1, <1>7, <2>2, Kept
  <2>4. faults' \in 0..MaxFaults
    BY <1>4, <1>7 DEF Fault
  <2> QED
    BY <1>1, <1>2, <1>3, <1>4, <1>7, <2>1, <2>3, <2>4
<1> QED
  BY <1>6, <1>7 DEF Charge

LEMMA StoreFact ==
  ASSUME Base, NEW r \in Requests, Store(r)
  PROVE  /\ Only(r) /\ job[r].phase = "store" /\ Working(job[r], log[r])
         /\ Finished(job'[r], log'[r]) /\ log'[r] = log[r] /\ faults' \in 0..MaxFaults
         /\ job'[r] = Done(job[r])
         /\ job'[r].admit = job[r].admit /\ job'[r].checked = job[r].checked
         /\ job'[r].charged = job[r].charged
         /\ job[r].key \in Keys /\ job[r].work.rec \in OkRecords /\ log[r] = <<job[r].work.rec>>
         /\ job[r].work.rec.key = job[r].key /\ job[r].work.rec.routed = job[r].key[1]
         /\ \/ cache' = cache
            \/ \E e \in Entries : /\ cache' = [cache EXCEPT ![job[r].key] = e]
                                  /\ e.model = job[r].work.rec.model /\ e.cost = job[r].work.rec.cost
<1> DEFINE j == job[r]
           e == [model |-> j.work.rec.model, usage |-> j.work.rec.usage, cost |-> j.work.rec.cost,
                 streamed |-> j.work.streamed, expires |-> now + j.doc.ttl]
<1>1. /\ Types /\ Working(j, log[r]) /\ j \in Holding /\ Knows(j) /\ j.phase = "store"
      /\ log[r] = <<j.work.rec>> /\ j.doc \in Documents /\ j.key = CacheKey(j.in, j.model)
      /\ CacheKey(j.in, j.model) \in Keys
  BY WorkFact DEF Store, Stages, Sold, Knows, Routed
<1>2. /\ j.work.rec \in OkRecords /\ j.work.streamed \in BOOLEAN /\ j.doc.ttl \in Int
      /\ j.work.rec.key = j.key /\ j.work.rec.routed = j.model
      /\ faults \in 0..MaxFaults /\ MaxFaults \in Nat /\ now \in Int
  <2>1. j.work \in Work /\ j.doc.ttl # Off /\ j.work.rec.key = j.key /\ j.work.rec.routed = j.model
    BY <1>1 DEF Knows, Sold
  <2>2. faults \in 0..MaxFaults /\ MaxFaults \in Nat /\ now \in Int
    BY <1>1, GatewayAssumption DEF Types
  <2> QED
    BY <1>1, <2>1, <2>2 DEF Work, Documents
<1>3. e \in Entries /\ e.model = j.work.rec.model /\ e.cost = j.work.rec.cost
  BY <1>2 DEF Entries, OkRecords
<1>4. j.key[1] = j.model
  BY <1>1 DEF CacheKey
<1>5. /\ job' = [job EXCEPT ![r] = Done(j)] /\ log' = log
      /\ \/ cache' = [cache EXCEPT ![j.key] = e] /\ UNCHANGED faults
         \/ Fault /\ UNCHANGED cache
  BY DEF Store
<1> HIDE DEF e
<1>6. Only(r) /\ job'[r] = Done(j) /\ log'[r] = log[r]
  BY <1>1, <1>5, Kept
<1>7. Finished(job'[r], log'[r])
  BY <1>1, <1>2, <1>6, DoneFact DEF Finished, Records
<1>8. faults' \in 0..MaxFaults
  BY <1>2, <1>5 DEF Fault
<1> QED
  BY <1>1, <1>2, <1>3, <1>4, <1>5, <1>6, <1>7, <1>8, DoneFact
-----------------------------------------------------------------------------
(* Types and records *)

LEMMA BaseInit == ASSUME Init PROVE Base
<1>1. Types
  BY PolicyFact, GatewayAssumption DEF Init, Types, Keys
<1>2. ASSUME NEW r \in Requests PROVE RequestOK(job[r], log[r])
  BY DEF Init, RequestOK, Waiting
<1> QED
  BY <1>1, <1>2 DEF Base, RequestsOK

LEMMA OnlyFact ==
  ASSUME Base, NEW r \in Requests, Only(r), RequestOK(job'[r], log'[r])
  PROVE  RequestsOK' /\ job' = [q \in Requests |-> job'[q]] /\ log' = [q \in Requests |-> log'[q]]
<1>1. job' = [q \in Requests |-> job'[q]] /\ log' = [q \in Requests |-> log'[q]]
  BY DEF Base, Types, Only
<1>2. ASSUME NEW q \in Requests PROVE RequestOK(job'[q], log'[q])
  <2>1. q # r => RequestOK(job[q], log[q]) /\ job'[q] = job[q] /\ log'[q] = log[q]
    BY DEF Base, RequestsOK, Only
  <2> QED
    BY <2>1
<1> QED
  BY <1>1, <1>2 DEF RequestsOK

LEMMA BaseStep == ASSUME Base, [Next]_vars PROVE Base'
<1> USE DEF redis
<1>1. ASSUME NEW r \in Requests, Refuse(r) PROVE Base'
  <2>1. RequestsOK' /\ job' = [q \in Requests |-> job'[q]] /\ log' = [q \in Requests |-> log'[q]]
    BY <1>1, RefuseFact, OnlyFact DEF RequestOK
  <2> QED
    BY <1>1, <2>1 DEF Refuse, Base, Types
<1>2. ASSUME NEW r \in Requests, Start(r) PROVE Base'
  <2>1. RequestsOK' /\ job' = [q \in Requests |-> job'[q]] /\ log' = [q \in Requests |-> log'[q]]
        /\ faults' \in 0..MaxFaults
    BY <1>2, StartFact, OnlyFact
  <2>2. UNCHANGED <<policy, now, redis, lost>>
    BY <1>2 DEF Start
  <2> QED
    BY <2>1, <2>2 DEF Base, Types
<1>3. ASSUME NEW r \in Requests, RateLimit(r) PROVE Base'
  <2>1. /\ RequestsOK' /\ job' = [q \in Requests |-> job'[q]] /\ log' = [q \in Requests |-> log'[q]]
        /\ faults' \in 0..MaxFaults /\ counter' \in [0..MaxMinute -> Nat]
    BY <1>3, RateLimitFact, OnlyFact
  <2>2. UNCHANGED <<policy, now, spend, cache, lost>>
    BY <1>3 DEF RateLimit
  <2> QED
    BY <2>1, <2>2 DEF Base, Types
<1>4. ASSUME NEW r \in Requests, CheckBudget(r) PROVE Base'
  <2>1. RequestsOK' /\ job' = [q \in Requests |-> job'[q]] /\ log' = [q \in Requests |-> log'[q]]
        /\ faults' \in 0..MaxFaults
    BY <1>4, CheckBudgetFact, OnlyFact
  <2>2. UNCHANGED <<policy, now, redis, lost>>
    BY <1>4 DEF CheckBudget
  <2> QED
    BY <2>1, <2>2 DEF Base, Types
<1>5. ASSUME NEW r \in Requests, Lookup(r) PROVE Base'
  <2>1. RequestsOK' /\ job' = [q \in Requests |-> job'[q]] /\ log' = [q \in Requests |-> log'[q]]
        /\ faults' \in 0..MaxFaults
    BY <1>5, LookupFact, OnlyFact
  <2>2. UNCHANGED <<policy, now, redis, lost>>
    BY <1>5 DEF Lookup
  <2> QED
    BY <2>1, <2>2 DEF Base, Types
<1>6. ASSUME NEW r \in Requests, CallUnary(r) \/ CallStream(r) PROVE Base'
  <2>1. RequestsOK' /\ job' = [q \in Requests |-> job'[q]] /\ log' = [q \in Requests |-> log'[q]]
        /\ UNCHANGED <<policy, now, redis, lost, faults>>
    BY <1>6, CallFact, OnlyFact DEF Ends
  <2> QED
    BY <2>1 DEF Base, Types
<1>7. ASSUME NEW r \in Requests, Charge(r) PROVE Base'
  <2> DEFINE b == Bucket(job[r].doc.budget.period, now)
             cost == job[r].work.rec.cost
  <2>1. RequestsOK' /\ job' = [q \in Requests |-> job'[q]] /\ log' = [q \in Requests |-> log'[q]]
        /\ faults' \in 0..MaxFaults
    BY <1>7, ChargeFact, OnlyFact
  <2>2. UNCHANGED <<policy, now, counter, cache>>
    BY <1>7 DEF Charge
  <2>3. /\ b \in Buckets /\ cost \in 0..Highest
        /\ \/ spend' = [spend EXCEPT ![b] = @ + cost] /\ lost' = lost
           \/ spend' = spend /\ lost' = lost + cost
    BY <1>7, ChargeFact
  <2> HIDE DEF b, cost
  <2>4. cost \in Nat
    BY <2>3, HighestFact
  <2>5. spend' \in [Buckets -> Nat] /\ lost' \in Nat
    BY <2>3, <2>4 DEF Base, Types
  <2> QED
    BY <2>1, <2>2, <2>5 DEF Base, Types
<1>8. ASSUME NEW r \in Requests, Store(r) PROVE Base'
  <2>1. RequestsOK' /\ job' = [q \in Requests |-> job'[q]] /\ log' = [q \in Requests |-> log'[q]]
        /\ faults' \in 0..MaxFaults
    BY <1>8, StoreFact, OnlyFact DEF RequestOK
  <2>2. UNCHANGED <<policy, now, counter, spend, lost>>
    BY <1>8 DEF Store
  <2>3. cache' \in [Keys -> {None} \cup Entries]
    <3>1. /\ cache \in [Keys -> {None} \cup Entries] /\ job[r].key \in Keys
          /\ cache' = cache \/ \E e \in Entries : cache' = [cache EXCEPT ![job[r].key] = e]
      BY <1>8, StoreFact DEF Base, Types
    <3> QED
      BY <3>1
  <2> QED
    BY <2>1, <2>2, <2>3 DEF Base, Types
<1>9. CASE Publish
  BY <1>9, PolicyFact DEF Publish, Base, Types, RequestsOK
<1>10. CASE Tick
  BY <1>10, GatewayAssumption DEF Tick, Base, Types, RequestsOK
<1>11. CASE UNCHANGED vars
  BY <1>11 DEF vars, Base, Types, RequestsOK
<1> QED
  BY <1>1, <1>2, <1>3, <1>4, <1>5, <1>6, <1>7, <1>8, <1>9, <1>10, <1>11 DEF Next, Serve

LEMMA BaseAlways == Spec => []Base
<1>1. Init => Base
  BY BaseInit
<1>2. Base /\ [Next]_vars => Base'
  BY BaseStep
<1> QED
  BY <1>1, <1>2, PTL DEF Spec

(* Every variable of the pipeline keeps its type (Gateway's variables, and *)
(* what a handler holds), for any number of requests, models and documents.*)
THEOREM TypeCorrect == Spec => []TypeOK
<1>1. Base => TypeOK
  <2> SUFFICES ASSUME Base PROVE TypeOK
    OBVIOUS
  <2>1. Types
    BY DEF Base
  <2>2. ASSUME NEW r \in Requests
        PROVE  /\ job[r].phase \in {"idle", "limit", "budget", "lookup", "call", "charge", "store", "done"}
               /\ job[r].charged # None => job[r].charged \in Buckets \X Nat
    <3>1. RequestOK(job[r], log[r])
      BY DEF Base, RequestsOK
    <3>2. job[r] \in Resting \cup Holding
      BY <3>1, IdleFact DEF RequestOK, Waiting, Working, Finished
    <3>3. job[r].phase \in Stages \cup {"idle", "done"} /\ job[r].charged \in {None} \cup Charges
      BY <3>2 DEF Resting, Holding
    <3> QED
      BY <3>3 DEF Stages, Charges
  <2> QED
    BY <2>1, <2>2, PolicyFact DEF TypeOK, Types, Keys
<1> QED
  BY <1>1, BaseAlways, PTL

(* Whichever exit of handleChatCompletions a request takes once it was     *)
(* authenticated and parsed, it leaves exactly one usage record; a request *)
(* refused before that leaves none, and nothing of it was counted or       *)
(* charged.                                                                *)
THEOREM OneRecordPerRequestCorrect == Spec => []OneRecordPerRequest
<1>1. Base => OneRecordPerRequest
  <2> SUFFICES ASSUME Base, NEW r \in Requests
               PROVE  /\ Len(log[r]) <= 1
                      /\ job[r].phase \in {"charge", "store"} => Len(log[r]) = 1
                      /\ job[r].phase = "done" =>
                           IF job[r].understood THEN Len(log[r]) = 1
                           ELSE log[r] = <<>> /\ job[r].admit = None /\ job[r].charged = None
    BY DEF OneRecordPerRequest
  <2>1. RequestOK(job[r], log[r])
    BY DEF Base, RequestsOK
  <2>2. CASE Waiting(job[r], log[r])
    BY <2>2, LogFact DEF Waiting, Idle
  <2>3. CASE Working(job[r], log[r])
    <3>1. job[r].phase \in Stages /\ log[r] = IF job[r].phase \in Sold THEN <<job[r].work.rec>> ELSE <<>>
      BY <2>3 DEF Working, Holding
    <3>2. Len(log[r]) <= 1 /\ (job[r].phase \in Sold => Len(log[r]) = 1)
      BY <3>1, LogFact
    <3> QED
      BY <3>1, <3>2 DEF Sold, Stages
  <2>4. CASE Finished(job[r], log[r])
    <3>1. CASE log[r] = <<>> /\ job[r] = Done(Idle)
      BY <2>4, <3>1, LogFact DEF Finished, Done, Idle
    <3>2. CASE \E rec \in Records : log[r] = <<rec>>
      BY <2>4, <3>2, LogFact DEF Finished
    <3> QED
      BY <2>4, <3>1, <3>2 DEF Finished
  <2> QED
    BY <2>1, <2>2, <2>3, <2>4 DEF RequestOK
<1> QED
  BY <1>1, BaseAlways, PTL
-----------------------------------------------------------------------------
(* The rate limit *)

Admitted(jobs, a) == {q \in Requests : jobs[q].admit = a}

(* A minute's counter has counted each request that was admitted in it,    *)
(* and under each limit no more were admitted than it says.                *)
AdmissionsAreCounted ==
  \A m \in 0..MaxMinute, n \in Int : <<m, n>> # None =>
    /\ Cardinality(Admitted(job, <<m, n>>)) <= counter[m]
    /\ Admitted(job, <<m, n>>) # {} => Cardinality(Admitted(job, <<m, n>>)) <= n

LEMMA AdmittedFact ==
  ASSUME NEW jobs, NEW a
  PROVE  IsFiniteSet(Admitted(jobs, a)) /\ Cardinality(Admitted(jobs, a)) \in Nat
<1>1. Admitted(jobs, a) \in SUBSET Requests /\ IsFiniteSet(Requests)
  BY GatewayAssumption DEF Admitted
<1> QED
  BY <1>1, FS_Subset, FS_CardinalityType

LEMMA AdmissionsInit == ASSUME Init PROVE AdmissionsAreCounted
<1> SUFFICES ASSUME NEW m \in 0..MaxMinute, NEW n \in Int, <<m, n>> # None
             PROVE  /\ Cardinality(Admitted(job, <<m, n>>)) <= counter[m]
                    /\ Admitted(job, <<m, n>>) = {}
  BY DEF AdmissionsAreCounted
<1>1. Admitted(job, <<m, n>>) = {}
  BY DEF Init, Idle, Admitted
<1>2. counter[m] = 0
  BY DEF Init
<1> QED
  BY <1>1, <1>2, FS_EmptySet

(* Only the limiter admits. *)
LEMMA AdmissionsKept ==
  ASSUME Base, AdmissionsAreCounted, \A q \in Requests : job'[q].admit = job[q].admit,
         counter' \in [0..MaxMinute -> Nat], \A m \in 0..MaxMinute : counter'[m] >= counter[m]
  PROVE  AdmissionsAreCounted'
<1> SUFFICES ASSUME NEW m \in 0..MaxMinute, NEW n \in Int, <<m, n>> # None
             PROVE  /\ Cardinality(Admitted(job', <<m, n>>)) <= counter'[m]
                    /\ Admitted(job', <<m, n>>) # {} => Cardinality(Admitted(job', <<m, n>>)) <= n
  BY DEF AdmissionsAreCounted
<1>1. Admitted(job', <<m, n>>) = Admitted(job, <<m, n>>)
  BY DEF Admitted
<1>2. counter[m] \in Nat /\ counter'[m] \in Nat
  BY DEF Base, Types
<1>3. /\ Cardinality(Admitted(job, <<m, n>>)) <= counter[m]
      /\ Admitted(job, <<m, n>>) # {} => Cardinality(Admitted(job, <<m, n>>)) <= n
  BY DEF AdmissionsAreCounted
<1> QED
  BY <1>1, <1>2, <1>3, AdmittedFact

LEMMA AdmissionsStep == ASSUME Base, AdmissionsAreCounted, [Next]_vars PROVE AdmissionsAreCounted'
<1>1. counter \in [0..MaxMinute -> Nat] /\ now \in 0..MaxMinute
  BY DEF Base, Types
<1>2. ASSUME NEW r \in Requests, RateLimit(r) PROVE AdmissionsAreCounted'
  <2> DEFINE a == <<now, job[r].doc.rate>>
  <2>1. /\ Only(r) /\ job[r].admit = None
        /\ counter' \in [0..MaxMinute -> Nat] /\ \A m \in 0..MaxMinute : counter'[m] >= counter[m]
        /\ \/ job'[r].admit = None
           \/ /\ job'[r].admit = a /\ job[r].doc.rate \in Int
              /\ counter'[now] = counter[now] + 1 /\ counter'[now] <= job[r].doc.rate
    BY <1>2, RateLimitFact
  <2>2. CASE job'[r].admit = None
    BY <1>1, <2>1, <2>2, AdmissionsKept DEF Only
  <2>3. CASE /\ job'[r].admit = a /\ job[r].doc.rate \in Int
             /\ counter'[now] = counter[now] + 1 /\ counter'[now] <= job[r].doc.rate
    <3> SUFFICES ASSUME NEW m \in 0..MaxMinute, NEW n \in Int, <<m, n>> # None
                 PROVE  /\ Cardinality(Admitted(job', <<m, n>>)) <= counter'[m]
                        /\ Admitted(job', <<m, n>>) # {} => Cardinality(Admitted(job', <<m, n>>)) <= n
      BY DEF AdmissionsAreCounted
    <3> DEFINE old == Admitted(job, <<m, n>>)
    <3>1. /\ Cardinality(old) <= counter[m]
          /\ old # {} => Cardinality(old) <= n
          /\ counter[m] \in Nat /\ counter'[m] \in Nat /\ counter'[m] >= counter[m]
      BY <1>1, <2>1 DEF AdmissionsAreCounted
    <3>2. CASE a = <<m, n>>
      <4>1. Admitted(job', <<m, n>>) = old \cup {r} /\ r \notin old
        BY <2>1, <2>3, <3>2 DEF Admitted, Only
      <4>2. m = now /\ n = job[r].doc.rate
        BY <3>2
      <4>3. IsFiniteSet(old) /\ Cardinality(old) \in Nat
        BY AdmittedFact
      <4> HIDE DEF old
      <4>4. Cardinality(old \cup {r}) = Cardinality(old) + 1
        BY <4>1, <4>3, FS_AddElement
      <4>5. counter'[m] = counter[m] + 1 /\ counter'[m] <= n
        BY <2>3, <4>2
      <4>6. Cardinality(Admitted(job', <<m, n>>)) = Cardinality(old) + 1
        BY <4>1, <4>4
      <4>7. Cardinality(old) <= counter[m]
        BY <3>1
      <4> QED
        BY <3>1, <4>3, <4>5, <4>6, <4>7
    <3>3. CASE a # <<m, n>>
      <4>1. Admitted(job', <<m, n>>) = old
        BY <2>1, <2>3, <3>3 DEF Admitted, Only
      <4>2. Cardinality(old) \in Nat
        BY AdmittedFact
      <4> QED
        BY <3>1, <4>1, <4>2
    <3> QED
      BY <3>2, <3>3
  <2> QED
    BY <2>1, <2>2, <2>3
<1>3. ASSUME NEW r \in Requests, Only(r), job'[r].admit = job[r].admit, counter' = counter
      PROVE  AdmissionsAreCounted'
  <2>1. \A q \in Requests : job'[q].admit = job[q].admit
    BY <1>3 DEF Only
  <2>2. \A m \in 0..MaxMinute : counter'[m] >= counter[m]
    BY <1>1, <1>3
  <2> QED
    BY <1>1, <1>3, <2>1, <2>2, AdmissionsKept
<1>4. ASSUME NEW r \in Requests, Refuse(r) PROVE AdmissionsAreCounted'
  <2>1. Only(r) /\ job[r] = Idle /\ job'[r] = Done(Idle) /\ counter' = counter
    BY <1>4, RefuseFact DEF Waiting, Refuse, redis
  <2> QED
    BY <1>3, <2>1 DEF Done, Idle
<1>5. ASSUME NEW r \in Requests, Start(r) PROVE AdmissionsAreCounted'
  <2>1. Only(r) /\ Waiting(job[r], log[r]) /\ job'[r].admit = None
    BY <1>5, StartFact
  <2>2. counter' = counter
    BY <1>5 DEF Start, redis
  <2> QED
    BY <1>3, <2>1, <2>2 DEF Waiting, Idle
<1>6. ASSUME NEW r \in Requests, CheckBudget(r) PROVE AdmissionsAreCounted'
  <2>1. counter' = counter
    BY <1>6 DEF CheckBudget, redis
  <2> QED
    BY <1>3, <1>6, <2>1, CheckBudgetFact
<1>7. ASSUME NEW r \in Requests, Lookup(r) PROVE AdmissionsAreCounted'
  <2>1. counter' = counter
    BY <1>7 DEF Lookup, redis
  <2> QED
    BY <1>3, <1>7, <2>1, LookupFact
<1>8. ASSUME NEW r \in Requests, CallUnary(r) \/ CallStream(r) PROVE AdmissionsAreCounted'
  BY <1>3, <1>8, CallFact DEF Ends, redis
<1>9. ASSUME NEW r \in Requests, Charge(r) PROVE AdmissionsAreCounted'
  <2>1. counter' = counter
    BY <1>9 DEF Charge
  <2> QED
    BY <1>3, <1>9, <2>1, ChargeFact
<1>10. ASSUME NEW r \in Requests, Store(r) PROVE AdmissionsAreCounted'
  <2>1. counter' = counter
    BY <1>10 DEF Store
  <2> QED
    BY <1>3, <1>10, <2>1, StoreFact
<1>11. CASE Publish \/ Tick \/ UNCHANGED vars
  <2>1. job' = job /\ counter' = counter
    BY <1>11 DEF Publish, Tick, vars, redis
  <2> QED
    BY <2>1 DEF AdmissionsAreCounted
<1> QED
  BY <1>2, <1>4, <1>5, <1>6, <1>7, <1>8, <1>9, <1>10, <1>11 DEF Next, Serve

(* RateLimiter.Allow admits in a minute no more requests under a limit     *)
(* than the limit, however requests interleave, whatever policies are      *)
(* published meanwhile and whatever other requests Redis failed.           *)
THEOREM AdmittedWithinLimitCorrect == Spec => []AdmittedWithinLimit
<1>1. Init => Base /\ AdmissionsAreCounted
  BY BaseInit, AdmissionsInit
<1>2. Base /\ AdmissionsAreCounted /\ [Next]_vars => Base' /\ AdmissionsAreCounted'
  BY BaseStep, AdmissionsStep
<1>3. Base /\ AdmissionsAreCounted => AdmittedWithinLimit
  <2> SUFFICES ASSUME Base, AdmissionsAreCounted, NEW r \in Requests, job[r].admit # None
               PROVE  Cardinality({q \in Requests : job[q].admit = job[r].admit}) <= job[r].admit[2]
    BY DEF AdmittedWithinLimit
  <2>1. job[r].admit \in Admissions
    <3>1. job[r] \in Resting \cup Holding
      BY IdleFact DEF Base, RequestsOK, RequestOK, Waiting, Working, Finished
    <3> QED
      BY <3>1 DEF Resting, Holding
  <2>2. PICK m \in 0..MaxMinute, n \in Int : job[r].admit = <<m, n>>
    BY <2>1 DEF Admissions
  <2>3. r \in Admitted(job, <<m, n>>)
    BY <2>2 DEF Admitted
  <2>4. Cardinality(Admitted(job, <<m, n>>)) <= n
    BY <2>2, <2>3 DEF AdmissionsAreCounted
  <2> QED
    BY <2>2, <2>4 DEF Admitted
<1> QED
  BY <1>1, <1>2, <1>3, PTL DEF Spec
-----------------------------------------------------------------------------
(* The cache *)

(* A call that was paid for has this key, went to the key's model, was     *)
(* answered by this one and cost this much.                                *)
Paid(logs, key, model, cost) ==
  \E q \in Requests : \E k \in DOMAIN logs[q] :
    /\ logs[q][k].status = "ok" /\ logs[q][k].cacheStatus # "hit"
    /\ logs[q][k].key = key /\ logs[q][k].routed = key[1]
    /\ logs[q][k].model = model /\ logs[q][k].cost = cost

EntriesArePaid == \A key \in Keys : cache[key] # None => Paid(log, key, cache[key].model, cache[key].cost)
HitsArePaid ==
  \A r \in Requests : \A i \in DOMAIN log[r] : log[r][i].cacheStatus = "hit" =>
    /\ log[r][i].routed = log[r][i].key[1]
    /\ Paid(log, log[r][i].key, log[r][i].model, log[r][i].saved)
CacheIsPaid == EntriesArePaid /\ HitsArePaid

LogsGrow == \A q \in Requests : log'[q] = log[q] \/ log[q] = <<>>

LEMMA PaidGrows ==
  ASSUME LogsGrow, NEW key, NEW model, NEW cost, Paid(log, key, model, cost)
  PROVE  Paid(log', key, model, cost)
<1>1. PICK q \in Requests : \E k \in DOMAIN log[q] :
        /\ log[q][k].status = "ok" /\ log[q][k].cacheStatus # "hit"
        /\ log[q][k].key = key /\ log[q][k].routed = key[1]
        /\ log[q][k].model = model /\ log[q][k].cost = cost
  BY DEF Paid
<1>2. log[q] # <<>>
  BY <1>1
<1>3. log'[q] = log[q]
  BY <1>2 DEF LogsGrow
<1> QED
  BY <1>1, <1>3 DEF Paid

(* Steps that leave the cache alone and add no hit. *)
LEMMA PaidKept ==
  ASSUME CacheIsPaid, LogsGrow, cache' = cache,
         \A q \in Requests : log'[q] = log[q] \/ \A i \in DOMAIN log'[q] : log'[q][i].cacheStatus # "hit"
  PROVE  CacheIsPaid'
<1>1. EntriesArePaid'
  BY PaidGrows DEF CacheIsPaid, EntriesArePaid
<1>2. ASSUME NEW r \in Requests, NEW i \in DOMAIN log'[r], log'[r][i].cacheStatus = "hit"
      PROVE  /\ log'[r][i].routed = log'[r][i].key[1]
             /\ Paid(log', log'[r][i].key, log'[r][i].model, log'[r][i].saved)
  <2>1. log'[r] = log[r]
    BY <1>2
  <2>2. /\ log[r][i].routed = log[r][i].key[1]
        /\ Paid(log, log[r][i].key, log[r][i].model, log[r][i].saved)
    BY <1>2, <2>1 DEF CacheIsPaid, HitsArePaid
  <2>3. Paid(log', log[r][i].key, log[r][i].model, log[r][i].saved)
    BY <2>2, PaidGrows
  <2> QED
    BY <2>1, <2>2, <2>3
<1> QED
  BY <1>1, <1>2 DEF CacheIsPaid, HitsArePaid

(* One request gets its record, which is not a hit, or nothing happens. *)
LEMMA PaidUnlessHit ==
  ASSUME CacheIsPaid, NEW r \in Requests, Only(r), cache' = cache,
         \/ log'[r] = log[r]
         \/ log[r] = <<>> /\ \E rec : log'[r] = <<rec>> /\ rec.cacheStatus # "hit"
  PROVE  CacheIsPaid'
<1>1. LogsGrow
  BY DEF LogsGrow, Only
<1>2. ASSUME NEW q \in Requests
      PROVE  log'[q] = log[q] \/ \A i \in DOMAIN log'[q] : log'[q][i].cacheStatus # "hit"
  <2>1. q # r => log'[q] = log[q]
    BY DEF Only
  <2>2. CASE \E rec : log'[r] = <<rec>> /\ rec.cacheStatus # "hit"
    <3>1. PICK rec : log'[r] = <<rec>> /\ rec.cacheStatus # "hit"
      BY <2>2
    <3>2. \A i \in DOMAIN log'[r] : log'[r][i].cacheStatus # "hit"
      BY <3>1, LogFact
    <3> QED
      BY <2>1, <3>2
  <2> QED
    BY <2>1, <2>2
<1> QED
  BY <1>1, <1>2, PaidKept

LEMMA PaidInit == ASSUME Init PROVE CacheIsPaid
<1>1. EntriesArePaid
  BY DEF Init, EntriesArePaid, Keys
<1>2. HitsArePaid
  BY DEF Init, HitsArePaid
<1> QED
  BY <1>1, <1>2 DEF CacheIsPaid

LEMMA PaidStep == ASSUME Base, CacheIsPaid, [Next]_vars PROVE CacheIsPaid'
<1> DEFINE no == Failed("blocked", 0)
<1>1. no.cacheStatus = "bypass"
  BY DEF Failed
<1> HIDE DEF no
<1>2. ASSUME NEW r \in Requests, Refuse(r) PROVE CacheIsPaid'
  <2>1. Only(r) /\ log'[r] = log[r] /\ cache' = cache
    BY <1>2, RefuseFact DEF Waiting, Refuse, redis
  <2> QED
    BY <2>1, PaidUnlessHit
<1>3. ASSUME NEW r \in Requests, Start(r) PROVE CacheIsPaid'
  <2>1. Only(r) /\ log[r] = <<>> /\ (log'[r] = <<>> \/ log'[r] = <<no>>)
    BY <1>3, StartFact DEF Waiting, no
  <2>2. cache' = cache
    BY <1>3 DEF Start, redis
  <2> QED
    BY <1>1, <2>1, <2>2, PaidUnlessHit
<1>4. ASSUME NEW r \in Requests, RateLimit(r) PROVE CacheIsPaid'
  <2>1. Only(r) /\ log[r] = <<>> /\ (log'[r] = <<>> \/ log'[r] = <<no>>)
    BY <1>4, RateLimitFact DEF Working, Sold, no
  <2>2. cache' = cache
    BY <1>4 DEF RateLimit
  <2> QED
    BY <1>1, <2>1, <2>2, PaidUnlessHit
<1>5. ASSUME NEW r \in Requests, CheckBudget(r) PROVE CacheIsPaid'
  <2>1. Only(r) /\ log[r] = <<>> /\ (log'[r] = <<>> \/ log'[r] = <<no>>)
    BY <1>5, CheckBudgetFact DEF Working, Sold, no
  <2>2. cache' = cache
    BY <1>5 DEF CheckBudget, redis
  <2> QED
    BY <1>1, <2>1, <2>2, PaidUnlessHit
<1>6. ASSUME NEW r \in Requests, Lookup(r) PROVE CacheIsPaid'
  <2> DEFINE j == job[r]
             e == cache[j.key]
             rec == Replayed(j, e)
  <2>1. /\ Only(r) /\ log[r] = <<>> /\ j.key \in Keys /\ j.phase = "lookup" /\ j \in Holding /\ Knows(j)
        /\ \/ log'[r] = <<>>
           \/ log'[r] = <<rec>> /\ e # None
    BY <1>6, LookupFact DEF Working, Sold
  <2>2. cache' = cache
    BY <1>6 DEF Lookup, redis
  <2>3. CASE log'[r] = <<>>
    BY <2>1, <2>2, <2>3, PaidUnlessHit
  <2>4. CASE log'[r] = <<rec>> /\ e # None
    <3>1. LogsGrow
      BY <2>1 DEF LogsGrow, Only
    <3>2. EntriesArePaid'
      BY <2>2, <3>1, PaidGrows DEF CacheIsPaid, EntriesArePaid
    <3>3. j.key[1] = j.model
      BY <2>1 DEF Knows, Routed, CacheKey
    <3>4. rec.key = j.key /\ rec.routed = j.model /\ rec.model = e.model /\ rec.saved = e.cost
      BY DEF Replayed
    <3>5. Paid(log', rec.key, rec.model, rec.saved)
      BY <2>1, <2>4, <3>1, <3>4, PaidGrows DEF CacheIsPaid, EntriesArePaid
    <3> HIDE DEF rec, j, e
    <3>6. ASSUME NEW q \in Requests, NEW i \in DOMAIN log'[q], log'[q][i].cacheStatus = "hit"
          PROVE  /\ log'[q][i].routed = log'[q][i].key[1]
                 /\ Paid(log', log'[q][i].key, log'[q][i].model, log'[q][i].saved)
      <4>1. CASE q = r
        <5>1. log'[q][i] = rec
          BY <2>4, <3>6, <4>1, LogFact
        <5> QED
          BY <3>3, <3>4, <3>5, <5>1
      <4>2. CASE q # r
        <5>1. log'[q] = log[q]
          BY <2>1, <4>2 DEF Only
        <5>2. /\ log[q][i].routed = log[q][i].key[1]
              /\ Paid(log, log[q][i].key, log[q][i].model, log[q][i].saved)
          BY <3>6, <5>1 DEF CacheIsPaid, HitsArePaid
        <5>3. Paid(log', log[q][i].key, log[q][i].model, log[q][i].saved)
          BY <3>1, <5>2, PaidGrows
        <5> QED
          BY <5>1, <5>2, <5>3
      <4> QED
        BY <4>1, <4>2
    <3> QED
      BY <3>2, <3>6 DEF CacheIsPaid, HitsArePaid
  <2> QED
    BY <2>1, <2>3, <2>4
<1>7. ASSUME NEW r \in Requests, CallUnary(r) \/ CallStream(r) PROVE CacheIsPaid'
  <2>1. Ends(r) /\ log[r] = <<>> /\ cache' = cache
    BY <1>7, CallFact DEF Working, Sold, redis
  <2>2. \E rec \in FailedRecords \cup OkRecords : log'[r] = <<rec>>
    BY <2>1 DEF Ends, Fails, Sells
  <2>3. \A rec \in FailedRecords \cup OkRecords : rec.cacheStatus # "hit"
    BY DEF FailedRecords, OkRecords
  <2> QED
    BY <2>1, <2>2, <2>3, PaidUnlessHit DEF Ends
<1>8. ASSUME NEW r \in Requests, Charge(r) PROVE CacheIsPaid'
  <2>1. cache' = cache
    BY <1>8 DEF Charge
  <2> QED
    BY <1>8, <2>1, ChargeFact, PaidUnlessHit
<1>9. ASSUME NEW r \in Requests, Store(r) PROVE CacheIsPaid'
  <2> DEFINE key0 == job[r].key
             rec == job[r].work.rec
  <2>1. /\ Only(r) /\ log'[r] = log[r] /\ key0 \in Keys /\ rec \in OkRecords /\ log[r] = <<rec>>
        /\ rec.key = key0 /\ rec.routed = key0[1]
        /\ \/ cache' = cache
           \/ \E e \in Entries : /\ cache' = [cache EXCEPT ![key0] = e]
                                 /\ e.model = rec.model /\ e.cost = rec.cost
    BY <1>9, StoreFact
  <2>2. CASE cache' = cache
    BY <2>1, <2>2, PaidUnlessHit
  <2>3. CASE \E e \in Entries : /\ cache' = [cache EXCEPT ![key0] = e]
                                /\ e.model = rec.model /\ e.cost = rec.cost
    <3>1. PICK e \in Entries : /\ cache' = [cache EXCEPT ![key0] = e]
                               /\ e.model = rec.model /\ e.cost = rec.cost
      BY <2>3
    <3>2. \A q \in Requests : log'[q] = log[q]
      BY <2>1 DEF Only
    <3>3. LogsGrow
      BY <3>2 DEF LogsGrow
    <3>4. rec.status = "ok" /\ rec.cacheStatus # "hit"
      BY <2>1 DEF OkRecords
    <3> HIDE DEF key0, rec
    <3>5. Paid(log', key0, e.model, e.cost)
      <4>1. log'[r] = <<rec>>
        BY <2>1
      <4>2. 1 \in DOMAIN log'[r] /\ log'[r][1] = rec
        BY <4>1, LogFact
      <4> QED
        BY <2>1, <3>1, <3>4, <4>2 DEF Paid
    <3>6. ASSUME NEW key \in Keys, cache'[key] # None
          PROVE  Paid(log', key, cache'[key].model, cache'[key].cost)
      <4>1. CASE key = key0
        <5>1. cache'[key] = e
          BY <2>1, <3>1, <4>1 DEF Base, Types
        <5> QED
          BY <3>5, <4>1, <5>1
      <4>2. CASE key # key0
        <5>1. cache'[key] = cache[key]
          BY <3>1, <4>2 DEF Base, Types
        <5>2. Paid(log, key, cache[key].model, cache[key].cost)
          BY <3>6, <5>1 DEF CacheIsPaid, EntriesArePaid
        <5>3. Paid(log', key, cache[key].model, cache[key].cost)
          BY <3>3, <5>2, PaidGrows
        <5> QED
          BY <5>1, <5>3
      <4> QED
        BY <4>1, <4>2
    <3>7. ASSUME NEW q \in Requests, NEW i \in DOMAIN log'[q], log'[q][i].cacheStatus = "hit"
          PROVE  /\ log'[q][i].routed = log'[q][i].key[1]
                 /\ Paid(log', log'[q][i].key, log'[q][i].model, log'[q][i].saved)
      <4>1. log'[q] = log[q]
        BY <3>2
      <4>2. /\ log[q][i].routed = log[q][i].key[1]
            /\ Paid(log, log[q][i].key, log[q][i].model, log[q][i].saved)
        BY <3>7, <4>1 DEF CacheIsPaid, HitsArePaid
      <4>3. Paid(log', log[q][i].key, log[q][i].model, log[q][i].saved)
        BY <3>3, <4>2, PaidGrows
      <4> QED
        BY <4>1, <4>2, <4>3
    <3> QED
      BY <3>6, <3>7 DEF CacheIsPaid, EntriesArePaid, HitsArePaid
  <2> QED
    BY <2>1, <2>2, <2>3
<1>10. CASE Publish \/ Tick \/ UNCHANGED vars
  <2>1. log' = log /\ cache' = cache
    BY <1>10 DEF Publish, Tick, vars, redis
  <2> QED
    BY <2>1 DEF CacheIsPaid, EntriesArePaid, HitsArePaid
<1> QED
  BY <1>2, <1>3, <1>4, <1>5, <1>6, <1>7, <1>8, <1>9, <1>10 DEF Next, Serve

(* serveFromCache replays only what a call by the routed model, with the   *)
(* same cache key, was paid for, and the saving it records is its cost.    *)
THEOREM HitsReplayPaidAnswersCorrect == Spec => []HitsReplayPaidAnswers
<1>1. Init => Base /\ CacheIsPaid
  BY BaseInit, PaidInit
<1>2. Base /\ CacheIsPaid /\ [Next]_vars => Base' /\ CacheIsPaid'
  BY BaseStep, PaidStep
<1>3. Base /\ CacheIsPaid => HitsReplayPaidAnswers
  <2> SUFFICES ASSUME CacheIsPaid, NEW r \in Requests, NEW i \in DOMAIN log[r],
                      log[r][i].cacheStatus = "hit"
               PROVE  \E q \in Requests : \E k \in Bought(q) :
                        /\ log[q][k].key = log[r][i].key /\ log[q][k].routed = log[r][i].routed
                        /\ log[q][k].model = log[r][i].model /\ log[q][k].cost = log[r][i].saved
    BY DEF HitsReplayPaidAnswers
  <2>1. /\ log[r][i].routed = log[r][i].key[1]
        /\ Paid(log, log[r][i].key, log[r][i].model, log[r][i].saved)
    BY DEF CacheIsPaid, HitsArePaid
  <2> QED
    BY <2>1 DEF Paid, Bought
<1> QED
  BY <1>1, <1>2, <1>3, PTL DEF Spec
-----------------------------------------------------------------------------
(* The budget counters and the records *)

LEMMA CostsFact == ASSUME NEW f PROVE Costs(f) = SumOn(f, DOMAIN f)
  BY DEF Costs, FoldFunction, SumOn

Due(j) == IF j.phase = "charge" THEN j.work.rec.cost ELSE 0
BudgetedIn(l) == {i \in DOMAIN l : /\ l[i].status = "ok" /\ l[i].cacheStatus # "hit"
                                   /\ PolicyAt(l[i].version).budget # Off}
Owed(l) == SumOn([i \in BudgetedIn(l) |-> l[i].cost], BudgetedIn(l))

DueOf(jobs) == [r \in Requests |-> Due(jobs[r])]
OwedOf(logs) == [r \in Requests |-> Owed(logs[r])]
Balance ==
  SumOn(spend, Buckets) + lost + SumOn(DueOf(job), Requests) = SumOn(OwedOf(log), Requests)

LEMMA OwedNothing ==
  /\ Owed(<<>>) = 0
  /\ \A rec : rec.status # "ok" \/ rec.cacheStatus = "hit" => Owed(<<rec>>) = 0
<1>1. BudgetedIn(<<>>) = {}
  BY DEF BudgetedIn
<1>2. ASSUME NEW rec, rec.status # "ok" \/ rec.cacheStatus = "hit" PROVE BudgetedIn(<<rec>>) = {}
  BY <1>2, LogFact DEF BudgetedIn
<1> QED
  BY <1>1, <1>2, SumEmpty DEF Owed

LEMMA OwedSale ==
  ASSUME NEW rec \in OkRecords
  PROVE  /\ rec.cost \in Nat
         /\ Owed(<<rec>>) = IF PolicyAt(rec.version).budget # Off THEN rec.cost ELSE 0
<1>1. rec.status = "ok" /\ rec.cacheStatus # "hit" /\ rec.cost \in Nat
  BY HighestFact DEF OkRecords
<1>2. CASE PolicyAt(rec.version).budget # Off
  <2> DEFINE f == [i \in {1} |-> rec.cost]
  <2>1. BudgetedIn(<<rec>>) = {1}
    BY <1>1, <1>2, LogFact DEF BudgetedIn
  <2>2. [i \in {1} |-> <<rec>>[i].cost] = f
    BY LogFact
  <2>3. Owed(<<rec>>) = SumOn(f, {1})
    BY <2>1, <2>2 DEF Owed
  <2>4. f[1] = rec.cost
    OBVIOUS
  <2> HIDE DEF f
  <2>5. IsFiniteSet({1}) /\ {1} \ {1} = {}
    BY FS_Singleton
  <2>9. \A x \in {1} : f[x] \in Int
    BY <1>1, <2>4
  <2>6. SumOn(f, {1}) = f[1] + SumOn(f, {1} \ {1})
    BY <2>5, <2>9, SumRemove
  <2>7. SumOn(f, {1} \ {1}) = 0
    BY <2>5, SumEmpty
  <2>8. Owed(<<rec>>) = rec.cost
    BY <1>1, <2>3, <2>4, <2>6, <2>7
  <2> QED
    BY <1>1, <1>2, <2>8
<1>3. CASE ~(PolicyAt(rec.version).budget # Off)
  <2>1. BudgetedIn(<<rec>>) = {}
    BY <1>1, <1>3, LogFact DEF BudgetedIn
  <2> QED
    BY <1>1, <1>3, <2>1, SumEmpty DEF Owed
<1> QED
  BY <1>2, <1>3

LEMMA AmountsFact ==
  ASSUME NEW j, NEW l, RequestOK(j, l)
  PROVE  Due(j) \in Nat /\ Owed(l) \in Nat
<1>1. CASE Waiting(j, l)
  BY <1>1, OwedNothing DEF Waiting, Idle, Due
<1>2. CASE Working(j, l)
  <2>1. CASE j.phase \in Sold
    <3>1. l = <<j.work.rec>> /\ j.work.rec \in OkRecords
      BY <1>2, <2>1 DEF Working, Knows, Work
    <3>2. j.work.rec.cost \in Nat /\ Owed(l) \in Nat
      BY <3>1, OwedSale
    <3> QED
      BY <3>2 DEF Due
  <2>2. CASE j.phase \notin Sold
    BY <1>2, <2>2, OwedNothing DEF Working, Due, Sold
  <2> QED
    BY <2>1, <2>2
<1>3. CASE Finished(j, l)
  <2>1. Due(j) = 0
    BY <1>3 DEF Finished, Due
  <2>2. ASSUME NEW rec \in Records PROVE Owed(<<rec>>) \in Nat
    <3>1. CASE rec \in OkRecords
      BY <3>1, OwedSale
    <3>2. CASE rec \in HitRecords \cup FailedRecords
      <4>1. rec.status # "ok" \/ rec.cacheStatus = "hit"
        BY <3>2 DEF HitRecords, FailedRecords
      <4> QED
        BY <4>1, OwedNothing
    <3> QED
      BY <2>2, <3>1, <3>2 DEF Records
  <2> QED
    BY <1>3, <2>1, <2>2, OwedNothing DEF Finished
<1> QED
  BY <1>1, <1>2, <1>3 DEF RequestOK

(* What a step of r makes of the two sums over all requests. *)
LEMMA AmountsMove ==
  ASSUME Base, NEW r \in Requests, Only(r), RequestOK(job'[r], log'[r])
  PROVE  /\ SumOn(DueOf(job'), Requests) = SumOn(DueOf(job), Requests) + (Due(job'[r]) - Due(job[r]))
         /\ SumOn(OwedOf(log'), Requests) = SumOn(OwedOf(log), Requests) + (Owed(log'[r]) - Owed(log[r]))
         /\ {SumOn(DueOf(job), Requests), SumOn(OwedOf(log), Requests), SumOn(spend, Buckets)} \subseteq Int
         /\ {Due(job[r]), Due(job'[r]), Owed(log[r]), Owed(log'[r]), lost} \subseteq Int
<1> DEFINE d == DueOf(job)
           dd == DueOf(job')
           o == OwedOf(log)
           oo == OwedOf(log')
<1>1. ASSUME NEW q \in Requests
      PROVE  /\ d[q] \in Nat /\ dd[q] \in Nat /\ o[q] \in Nat /\ oo[q] \in Nat
             /\ q # r => d[q] = dd[q] /\ o[q] = oo[q]
  <2>1. RequestOK(job[q], log[q])
    BY DEF Base, RequestsOK
  <2>2. RequestOK(job'[q], log'[q])
    BY <2>1 DEF Only
  <2>3. d[q] = Due(job[q]) /\ dd[q] = Due(job'[q]) /\ o[q] = Owed(log[q]) /\ oo[q] = Owed(log'[q])
    BY DEF DueOf, OwedOf
  <2> QED
    BY <2>1, <2>2, <2>3, AmountsFact DEF Only
<1>2. /\ d[r] = Due(job[r]) /\ dd[r] = Due(job'[r]) /\ o[r] = Owed(log[r]) /\ oo[r] = Owed(log'[r])
  BY DEF DueOf, OwedOf
<1>3. SumOn(spend, Buckets) \in Int /\ lost \in Int
  <2>1. \A b \in Buckets : spend[b] \in Int
    BY DEF Base, Types
  <2> QED
    BY <2>1, BucketFact, SumInt DEF Base, Types
<1>4. IsFiniteSet(Requests)
  BY GatewayAssumption
<1> HIDE DEF d, dd, o, oo
<1>5. SumOn(dd, Requests) = SumOn(d, Requests) + (dd[r] - d[r]) /\ SumOn(d, Requests) \in Int
  BY <1>1, <1>4, SumChange, SumInt
<1>6. SumOn(oo, Requests) = SumOn(o, Requests) + (oo[r] - o[r]) /\ SumOn(o, Requests) \in Int
  BY <1>1, <1>4, SumChange, SumInt
<1> QED
  BY <1>1, <1>2, <1>3, <1>5, <1>6 DEF d, dd, o, oo

(* A step that owes as much more as it has to charge. *)
LEMMA BalanceKept ==
  ASSUME Base, Balance, NEW r \in Requests, Only(r), RequestOK(job'[r], log'[r]),
         spend' = spend, lost' = lost, Due(job'[r]) - Due(job[r]) = Owed(log'[r]) - Owed(log[r])
  PROVE  Balance'
<1> DEFINE D == SumOn(DueOf(job), Requests)
           DD == SumOn(DueOf(job'), Requests)
           O == SumOn(OwedOf(log), Requests)
           OO == SumOn(OwedOf(log'), Requests)
           S == SumOn(spend, Buckets)
           x == Due(job'[r]) - Due(job[r])
           y == Owed(log'[r]) - Owed(log[r])
<1>1. /\ DD = D + x /\ OO = O + y /\ x = y
      /\ D \in Int /\ O \in Int /\ S \in Int /\ lost \in Int /\ x \in Int /\ y \in Int
  BY AmountsMove
<1>2. S + lost + D = O
  BY DEF Balance
<1> HIDE DEF D, DD, O, OO, S, x, y
<1>3. S + lost + DD = OO
  BY <1>1, <1>2
<1>4. S + lost' + DD = OO
  BY <1>3
<1> QED
  BY <1>4 DEF Balance, S, DD, OO

LEMMA BalanceInit == ASSUME Init PROVE Balance
<1>1. \A b \in Buckets : spend[b] = 0
  BY DEF Init
<1>2. \A r \in Requests : DueOf(job)[r] = 0 /\ OwedOf(log)[r] = 0
  BY OwedNothing DEF Init, DueOf, OwedOf, Due, Idle
<1>3. IsFiniteSet(Requests) /\ IsFiniteSet(Buckets)
  BY GatewayAssumption, BucketFact
<1>4. SumOn(spend, Buckets) = 0
  BY <1>1, <1>3, SumZero
<1>5. SumOn(DueOf(job), Requests) = 0
  BY <1>2, <1>3, SumZero
<1>6. SumOn(OwedOf(log), Requests) = 0
  BY <1>2, <1>3, SumZero
<1>7. lost = 0
  BY DEF Init
<1> QED
  BY <1>4, <1>5, <1>6, <1>7 DEF Balance

LEMMA BalanceStep == ASSUME Base, Balance, [Next]_vars PROVE Balance'
<1> DEFINE no == Failed("blocked", 0)
<1>1. no.status # "ok"
  BY DEF Failed
<1> HIDE DEF no
<1>2. ASSUME NEW r \in Requests, Only(r), RequestOK(job'[r], log'[r]),
             spend' = spend, lost' = lost, job[r].phase \notin Sold, job'[r].phase \notin Sold,
             Owed(log[r]) = 0, Owed(log'[r]) = 0
      PROVE  Balance'
  BY <1>2, BalanceKept DEF Due, Sold
<1>3. ASSUME NEW r \in Requests, Refuse(r) PROVE Balance'
  <2>1. /\ Only(r) /\ RequestOK(job'[r], log'[r]) /\ job[r] = Idle /\ job'[r] = Done(Idle)
        /\ log[r] = <<>> /\ log'[r] = <<>>
    BY <1>3, RefuseFact DEF RequestOK, Waiting
  <2>2. spend' = spend /\ lost' = lost
    BY <1>3 DEF Refuse, redis
  <2> QED
    BY <1>2, <2>1, <2>2, OwedNothing, IdleFact DEF Sold
<1>4. ASSUME NEW r \in Requests, Start(r) PROVE Balance'
  <2>1. /\ Only(r) /\ RequestOK(job'[r], log'[r]) /\ job[r] = Idle /\ job'[r].phase \notin Sold
        /\ log[r] = <<>> /\ (log'[r] = <<>> \/ log'[r] = <<no>>)
    BY <1>4, StartFact DEF Waiting, no
  <2>2. spend' = spend /\ lost' = lost
    BY <1>4 DEF Start, redis
  <2> QED
    BY <1>1, <1>2, <2>1, <2>2, OwedNothing, IdleFact DEF Sold
<1>5. ASSUME NEW r \in Requests, RateLimit(r) PROVE Balance'
  <2>1. /\ Only(r) /\ RequestOK(job'[r], log'[r]) /\ job[r].phase \notin Sold /\ job'[r].phase \notin Sold
        /\ log[r] = <<>> /\ (log'[r] = <<>> \/ log'[r] = <<no>>)
    BY <1>5, RateLimitFact DEF Working, Sold, no
  <2>2. spend' = spend /\ lost' = lost
    BY <1>5 DEF RateLimit
  <2> QED
    BY <1>1, <1>2, <2>1, <2>2, OwedNothing
<1>6. ASSUME NEW r \in Requests, CheckBudget(r) PROVE Balance'
  <2>1. /\ Only(r) /\ RequestOK(job'[r], log'[r]) /\ job[r].phase \notin Sold /\ job'[r].phase \notin Sold
        /\ log[r] = <<>> /\ (log'[r] = <<>> \/ log'[r] = <<no>>)
    BY <1>6, CheckBudgetFact DEF Working, Sold, no
  <2>2. spend' = spend /\ lost' = lost
    BY <1>6 DEF CheckBudget, redis
  <2> QED
    BY <1>1, <1>2, <2>1, <2>2, OwedNothing
<1>7. ASSUME NEW r \in Requests, Lookup(r) PROVE Balance'
  <2> DEFINE rec == Replayed(job[r], cache[job[r].key])
  <2>1. /\ Only(r) /\ RequestOK(job'[r], log'[r]) /\ job[r].phase \notin Sold /\ job'[r].phase \notin Sold
        /\ log[r] = <<>> /\ (log'[r] = <<>> \/ log'[r] = <<rec>>)
    BY <1>7, LookupFact DEF Working, Sold
  <2>2. rec.cacheStatus = "hit"
    BY DEF Replayed
  <2>3. spend' = spend /\ lost' = lost
    BY <1>7 DEF Lookup, redis
  <2> HIDE DEF rec
  <2> QED
    BY <1>2, <2>1, <2>2, <2>3, OwedNothing
<1>8. ASSUME NEW r \in Requests, CallUnary(r) \/ CallStream(r) PROVE Balance'
  <2>1. /\ Ends(r) /\ Only(r) /\ RequestOK(job'[r], log'[r]) /\ spend' = spend /\ lost' = lost
        /\ job[r].phase = "call" /\ log[r] = <<>> /\ job[r].doc = PolicyAt(job[r].version)
    BY <1>8, CallFact DEF Ends, Working, Knows, Sold, redis
  <2>2. Due(job[r]) = 0 /\ Owed(log[r]) = 0
    BY <2>1, OwedNothing DEF Due
  <2>3. CASE Fails(r)
    <3>1. PICK rec \in FailedRecords : log'[r] = <<rec>>
      BY <2>3 DEF Fails
    <3>2. rec.status # "ok"
      BY DEF FailedRecords
    <3>3. Owed(log'[r]) = 0
      BY <3>1, <3>2, OwedNothing
    <3>4. Due(job'[r]) = 0
      BY <2>3 DEF Fails, Due
    <3> QED
      BY <2>1, <2>2, <3>3, <3>4, BalanceKept
  <2>4. CASE Sells(r)
    <3>1. PICK rec \in OkRecords :
            /\ log'[r] = <<rec>> /\ rec.version = job[r].version
            /\ IF job[r].doc.budget # Off /\ rec.cost > 0
               THEN job'[r].phase = "charge" /\ job'[r].work.rec = rec
               ELSE job'[r].phase \in {"store", "done"}
      BY <2>4 DEF Sells
    <3>2. /\ rec.cost \in Nat
          /\ Owed(log'[r]) = IF job[r].doc.budget # Off THEN rec.cost ELSE 0
      BY <2>1, <3>1, OwedSale
    <3>3. CASE job[r].doc.budget # Off /\ rec.cost > 0
      <4>1. Due(job'[r]) = rec.cost
        BY <3>1, <3>3 DEF Due
      <4> QED
        BY <2>1, <2>2, <3>2, <3>3, <4>1, BalanceKept
    <3>4. CASE ~(job[r].doc.budget # Off /\ rec.cost > 0)
      <4>1. Due(job'[r]) = 0
        BY <3>1, <3>4 DEF Due
      <4>2. Owed(log'[r]) = 0
        BY <3>2, <3>4
      <4> QED
        BY <2>1, <2>2, <4>1, <4>2, BalanceKept
    <3> QED
      BY <3>3, <3>4
  <2> QED
    BY <2>1, <2>3, <2>4 DEF Ends
<1>9. ASSUME NEW r \in Requests, Charge(r) PROVE Balance'
  <2> DEFINE b == Bucket(job[r].doc.budget.period, now)
             cost == job[r].work.rec.cost
             D == SumOn(DueOf(job), Requests)
             DD == SumOn(DueOf(job'), Requests)
             O == SumOn(OwedOf(log), Requests)
             OO == SumOn(OwedOf(log'), Requests)
             S == SumOn(spend, Buckets)
             SS == SumOn(spend', Buckets)
  <2>1. /\ Only(r) /\ RequestOK(job'[r], log'[r]) /\ job[r].phase = "charge" /\ log'[r] = log[r]
        /\ job'[r].phase \in {"store", "done"} /\ b \in Buckets /\ cost \in 0..Highest
        /\ \/ spend' = [spend EXCEPT ![b] = @ + cost] /\ lost' = lost
           \/ spend' = spend /\ lost' = lost + cost
    BY <1>9, ChargeFact
  <2>2. Due(job[r]) = cost /\ Due(job'[r]) = 0 /\ cost \in Int
    BY <2>1, HighestFact DEF Due
  <2>3. /\ DD = D - cost /\ OO = O /\ D \in Int /\ O \in Int /\ S \in Int /\ lost \in Int
    BY <2>1, <2>2, AmountsMove
  <2>4. S + lost + D = O
    BY DEF Balance
  <2> HIDE DEF D, DD, O, OO, b, cost
  <2>5. SS + lost' = S + lost + cost
    <3>1. CASE spend' = [spend EXCEPT ![b] = @ + cost] /\ lost' = lost
      <4>1. /\ \A x \in Buckets : spend[x] \in Int /\ spend'[x] \in Int
            /\ \A x \in Buckets \ {b} : spend[x] = spend'[x]
            /\ spend'[b] - spend[b] = cost
        BY <2>1, <2>2, <3>1 DEF Base, Types
      <4>2. SS = S + (spend'[b] - spend[b])
        BY <2>1, <4>1, BucketFact, SumChange
      <4> HIDE DEF S, SS
      <4> QED
        BY <2>2, <2>3, <3>1, <4>1, <4>2
    <3>2. CASE spend' = spend /\ lost' = lost + cost
      <4>1. SS = S
        BY <3>2
      <4> HIDE DEF S, SS
      <4> QED
        BY <2>2, <2>3, <3>2, <4>1
    <3> QED
      BY <2>1, <3>1, <3>2
  <2>6. SS \in Int /\ lost' \in Int
    <3>1. \A x \in Buckets : spend'[x] \in Int
      BY <2>1, <2>2 DEF Base, Types
    <3>2. SS \in Int
      BY <3>1, BucketFact, SumInt
    <3>3. lost' \in Int
      BY <2>1, <2>2, <2>3
    <3> QED
      BY <3>2, <3>3
  <2> HIDE DEF S, SS
  <2>7. SS + lost' + DD = OO
    BY <2>2, <2>3, <2>4, <2>5, <2>6
  <2> QED
    BY <2>7 DEF Balance, SS, DD, OO
<1>10. ASSUME NEW r \in Requests, Store(r) PROVE Balance'
  <2>1. /\ Only(r) /\ RequestOK(job'[r], log'[r]) /\ job[r].phase = "store" /\ job'[r].phase = "done"
        /\ log'[r] = log[r]
    BY <1>10, StoreFact DEF RequestOK, Finished
  <2>2. spend' = spend /\ lost' = lost
    BY <1>10 DEF Store
  <2>3. Due(job[r]) = 0 /\ Due(job'[r]) = 0
    BY <2>1 DEF Due
  <2>4. Owed(log'[r]) - Owed(log[r]) = 0
    BY <2>1, AmountsMove
  <2> QED
    BY <2>1, <2>2, <2>3, <2>4, BalanceKept
<1>11. CASE Publish \/ Tick \/ UNCHANGED vars
  <2>1. job' = job /\ log' = log /\ spend' = spend /\ lost' = lost
    BY <1>11 DEF Publish, Tick, vars, redis
  <2> QED
    BY <2>1 DEF Balance
<1> QED
  BY <1>3, <1>4, <1>5, <1>6, <1>7, <1>8, <1>9, <1>10, <1>11 DEF Next, Serve

(* BudgetGuard's counters and the usage records agree: what the buckets    *)
(* hold, what is about to be charged and what Redis lost is the cost of    *)
(* the calls that succeeded under a policy with a budget; no hit, failed   *)
(* call or aborted stream is ever charged.                                 *)
THEOREM SpendIsTheCostOfFinishedCallsCorrect == Spec => []SpendIsTheCostOfFinishedCalls
<1>1. Init => Base /\ Balance
  BY BaseInit, BalanceInit
<1>2. Base /\ Balance /\ [Next]_vars => Base' /\ Balance'
  BY BaseStep, BalanceStep
<1>3. Base /\ Balance => SpendIsTheCostOfFinishedCalls
  <2> SUFFICES ASSUME Base, Balance PROVE SpendIsTheCostOfFinishedCalls
    OBVIOUS
  <2> DEFINE due == [r \in Requests |-> IF job[r].phase = "charge" THEN job[r].work.rec.cost ELSE 0]
             owed == [r \in Requests |-> Costs([i \in Budgeted(r) |-> log[r][i].cost])]
  <2>1. due = DueOf(job)
    BY DEF DueOf, Due
  <2>2. owed = OwedOf(log)
    <3>1. ASSUME NEW r \in Requests PROVE Costs([i \in Budgeted(r) |-> log[r][i].cost]) = Owed(log[r])
      <4>1. Budgeted(r) = BudgetedIn(log[r])
        BY DEF Budgeted, Bought, BudgetedIn
      <4> QED
        BY <4>1, CostsFact DEF Owed
    <3> QED
      BY <3>1 DEF OwedOf
  <2>3. DOMAIN spend = Buckets /\ DOMAIN DueOf(job) = Requests /\ DOMAIN OwedOf(log) = Requests
    BY DEF Base, Types, DueOf, OwedOf
  <2>4. /\ Costs(spend) = SumOn(spend, Buckets)
        /\ Costs(DueOf(job)) = SumOn(DueOf(job), Requests)
        /\ Costs(OwedOf(log)) = SumOn(OwedOf(log), Requests)
    BY <2>3, CostsFact
  <2>5. Costs(spend) + lost + Costs(DueOf(job)) = Costs(OwedOf(log))
    BY <2>4 DEF Balance
  <2>6. SpendIsTheCostOfFinishedCalls <=> Costs(spend) + lost + Costs(due) = Costs(owed)
    BY DEF SpendIsTheCostOfFinishedCalls
  <2> HIDE DEF due, owed
  <2> QED
    BY <2>1, <2>2, <2>5, <2>6
<1> QED
  BY <1>1, <1>2, <1>3, PTL DEF Spec
-----------------------------------------------------------------------------
(* How far a hard budget is overspent *)

(* What of one request's charge counts towards a bucket. *)
Share(j, b, checked) ==
  IF j.charged # None /\ j.charged[1] = b /\ j.checked = checked THEN j.charged[2] ELSE 0
ShareOf(jobs, b, checked) == [r \in Requests |-> Share(jobs[r], b, checked)]
Charged(jobs, b, checked) == SumOn(ShareOf(jobs, b, checked), Requests)

(* The requests that passed a hard budget of that period and may charge.   *)
Pending(jobs, period) ==
  {r \in Requests : /\ jobs[r].checked = TRUE /\ jobs[r].phase \in {"lookup", "call", "charge"}
                    /\ jobs[r].doc.budget.period = period}
LiveOf(jobs) == {r \in Requests : jobs[r].phase \notin {"idle", "done"}}

Limit == Max(HardLimits)
Bound == Limit - 1 + MaxInFlight * Highest

SpendIsCharged == \A b \in Buckets : spend[b] = Charged(job, b, TRUE) + Charged(job, b, FALSE)
TomorrowIsEmpty ==
  \A d \in 0..(MaxMinute \div MinutesPerDay) : d > now \div MinutesPerDay => spend[<<"daily", d>>] = 0
InFlight == Cardinality(Live) <= MaxInFlight
LimitWasMet == \A r \in Requests : job[r].checked = TRUE => Limit \in Int /\ Limit >= 1
ChargedWithin == \A b \in Buckets : Charged(job, b, TRUE) > 0 => Charged(job, b, TRUE) <= Bound
(* Even if all that were let through are yet to charge what a call can     *)
(* cost at most, the period's bucket stays within the bound.               *)
PendingWithin ==
  \A period \in Periods : Pending(job, period) # {} =>
    Charged(job, Bucket(period, now), TRUE) + Cardinality(Pending(job, period)) * Highest <= Bound
Overspend ==
  /\ SpendIsCharged /\ TomorrowIsEmpty /\ InFlight /\ LimitWasMet
  /\ ChargedWithin /\ PendingWithin

LEMMA LimitFact ==
  ASSUME NEW v \in Versions, PolicyAt(v).budget # Off, PolicyAt(v).budget.mode = "hard"
  PROVE  Limit \in Int /\ PolicyAt(v).budget.limit <= Limit
<1> DEFINE Hard == {i \in 1..Len(Policies) : Policies[i].budget # Off /\ Policies[i].budget.mode = "hard"}
           limits == [i \in Hard |-> Policies[i].budget.limit]
<1>1. v \in 1..Len(Policies) /\ PolicyAt(v) = Policies[v]
  BY PolicyFact DEF PolicyAt, EmptyPolicy, Versions
<1>2. IsFiniteSet(Hard)
  <2>1. IsFiniteSet(1..Len(Policies))
    BY PolicyFact, FS_Interval
  <2> QED
    BY <2>1, FS_Subset
<1>3. DOMAIN Policies = 1..Len(Policies)
  BY GatewayAssumption, LenProperties
<1>4. HardLimits = {limits[i] : i \in Hard}
  BY <1>3 DEF HardLimits
<1>5. ASSUME NEW i \in Hard PROVE limits[i] \in Int
  <2>1. Policies[i] \in Documents
    BY PolicyFact DEF PolicyAt
  <2> QED
    BY <2>1 DEF Documents
<1>6. v \in Hard /\ limits[v] = PolicyAt(v).budget.limit
  BY <1>1
<1> HIDE DEF Hard, limits
<1>7. HardLimits \in SUBSET Int /\ HardLimits # {} /\ IsFiniteSet(HardLimits)
  BY <1>2, <1>4, <1>5, <1>6, FiniteImage
<1>8. Limit \in HardLimits /\ \A x \in HardLimits : x <= Limit
  BY <1>7, MaxFact DEF Limit
<1> QED
  BY <1>4, <1>6, <1>7, <1>8

(* A request that has read a hard budget knows of a limit. *)
LEMMA CheckedFact ==
  ASSUME Base, LimitWasMet, NEW r \in Requests, job[r].checked = TRUE, job[r].phase \in Stages
  PROVE  Limit \in Int /\ Limit >= 1 /\ Bound \in Int /\ job[r].doc.budget.period \in Periods
         /\ job[r].doc.budget # Off
<1>1. /\ Working(job[r], log[r]) /\ job[r] \in Holding /\ Knows(job[r]) /\ job[r].doc \in Documents
  BY WorkFact
<1>2. /\ job[r].doc = PolicyAt(job[r].version) /\ job[r].version \in Versions
      /\ job[r].doc.budget # Off /\ job[r].doc.budget.mode = "hard"
  BY <1>1 DEF Knows, Holding
<1>3. Limit \in Int /\ Limit >= 1
  BY <1>2, LimitFact DEF LimitWasMet
<1>4. job[r].doc.budget.period \in Periods
  BY <1>1, <1>2 DEF Documents, Periods
<1>5. Bound \in Int
  <2>1. MaxInFlight \in Nat /\ Highest \in Nat
    BY GatewayAssumption, HighestFact
  <2>2. MaxInFlight * Highest \in Int
    BY <2>1
  <2> QED
    BY <1>3, <2>2 DEF Bound
<1> QED
  BY <1>2, <1>3, <1>4, <1>5

LEMMA ShareFact ==
  ASSUME NEW j, NEW l, RequestOK(j, l), NEW b, NEW checked
  PROVE  Share(j, b, checked) \in Nat
<1>1. j \in Resting \cup Holding
  BY IdleFact DEF RequestOK, Waiting, Working, Finished
<1>2. j.charged \in {None} \cup Charges
  BY <1>1 DEF Resting, Holding
<1>3. CASE j.charged \in Charges
  <2>1. j.charged[2] \in Nat
    BY <1>3 DEF Charges
  <2> QED
    BY <2>1 DEF Share
<1>4. CASE j.charged = None
  BY <1>4 DEF Share
<1> QED
  BY <1>2, <1>3, <1>4

LEMMA ChargedFact ==
  ASSUME RequestsOK, NEW b, NEW checked
  PROVE  Charged(job, b, checked) \in Nat
<1> DEFINE f == ShareOf(job, b, checked)
<1>1. \A r \in Requests : f[r] \in Nat
  BY ShareFact DEF ShareOf, RequestsOK
<1> HIDE DEF f
<1>2. SumOn(f, Requests) \in Nat
  BY <1>1, GatewayAssumption, SumNat
<1> QED
  BY <1>2 DEF Charged, f

LEMMA ChargedKept ==
  ASSUME NEW b, NEW checked, \A q \in Requests : Share(job'[q], b, checked) = Share(job[q], b, checked)
  PROVE  Charged(job', b, checked) = Charged(job, b, checked)
<1>1. ShareOf(job', b, checked) = ShareOf(job, b, checked)
  BY DEF ShareOf
<1> QED
  BY <1>1 DEF Charged

LEMMA LiveFact ==
  ASSUME NEW jobs, NEW period
  PROVE  /\ IsFiniteSet(LiveOf(jobs)) /\ IsFiniteSet(Pending(jobs, period))
         /\ Cardinality(LiveOf(jobs)) \in Nat /\ Cardinality(Pending(jobs, period)) \in Nat
         /\ Cardinality(Pending(jobs, period)) <= Cardinality(LiveOf(jobs))
<1>1. LiveOf(jobs) \in SUBSET Requests /\ Pending(jobs, period) \in SUBSET LiveOf(jobs)
      /\ IsFiniteSet(Requests)
  BY GatewayAssumption DEF LiveOf, Pending
<1>2. IsFiniteSet(LiveOf(jobs))
  BY <1>1, FS_Subset
<1> QED
  BY <1>1, <1>2, FS_Subset, FS_CardinalityType

LEMMA TimesFact ==
  ASSUME NEW n \in Nat, NEW k \in Nat, n <= k, NEW h \in Nat
  PROVE  /\ n * h <= k * h /\ n * h \in Nat /\ k * h \in Nat
         /\ (n + 1) * h = n * h + h
  OBVIOUS

LEMMA InFlightKept ==
  ASSUME Base, InFlight, NEW r \in Requests, Only(r),
         \/ Cardinality(Live) < MaxInFlight
         \/ job[r].phase \notin {"idle", "done"}
  PROVE  InFlight'
<1> DEFINE old == LiveOf(job)
           new == LiveOf(job')
<1>1. Live = old /\ Live' = new
  BY DEF Live, LiveOf
<1>2. new \in SUBSET (old \cup {r})
  BY DEF LiveOf, Only
<1>3. IsFiniteSet(old) /\ IsFiniteSet(new) /\ Cardinality(old) \in Nat /\ Cardinality(new) \in Nat
  BY LiveFact
<1>4. MaxInFlight \in Nat
  BY GatewayAssumption
<1>5. CASE job[r].phase \notin {"idle", "done"}
  <2>1. old \cup {r} = old
    BY <1>5 DEF LiveOf
  <2> HIDE DEF old, new
  <2>2. Cardinality(new) <= Cardinality(old)
    BY <1>2, <1>3, <2>1, FS_Subset
  <2> QED
    BY <1>1, <1>3, <1>4, <2>2 DEF InFlight
<1>6. CASE Cardinality(Live) < MaxInFlight
  <2> HIDE DEF old, new
  <2>3. /\ IsFiniteSet(old \cup {r})
        /\ Cardinality(old \cup {r}) = IF r \in old THEN Cardinality(old) ELSE Cardinality(old) + 1
    BY <1>3, FS_AddElement
  <2>1. /\ IsFiniteSet(old \cup {r}) /\ Cardinality(old \cup {r}) <= Cardinality(old) + 1
        /\ Cardinality(old \cup {r}) \in Nat
    BY <1>3, <2>3
  <2>2. Cardinality(new) <= Cardinality(old \cup {r})
    BY <1>2, <2>1, FS_Subset
  <2> QED
    BY <1>1, <1>3, <1>4, <1>6, <2>1, <2>2 DEF InFlight
<1> QED
  BY <1>5, <1>6

(* Pending requests that become fewer. *)
LEMMA PendingFewer ==
  ASSUME Base, LimitWasMet, PendingWithin, NEW period \in Periods,
         Pending(job', period) \in SUBSET Pending(job, period), Pending(job', period) # {}
  PROVE  /\ Charged(job, Bucket(period, now), TRUE) + Cardinality(Pending(job', period)) * Highest <= Bound
         /\ Bound \in Int
<1> DEFINE c == Charged(job, Bucket(period, now), TRUE)
           n == Cardinality(Pending(job', period))
           k == Cardinality(Pending(job, period))
<1>1. n \in Nat /\ k \in Nat /\ n <= k
  <2>1. IsFiniteSet(Pending(job, period)) /\ n \in Nat /\ k \in Nat
    BY LiveFact
  <2> QED
    BY <2>1, FS_Subset
<1>2. c \in Nat
  BY ChargedFact DEF Base
<1>3. c + k * Highest <= Bound
  BY DEF PendingWithin
<1>4. Bound \in Int
  <2>1. PICK r \in Requests : job[r].checked = TRUE /\ job[r].phase \in Stages
    BY DEF Pending, Stages
  <2> QED
    BY <2>1, CheckedFact
<1> HIDE DEF c, n, k
<1>5. n * Highest <= k * Highest /\ n * Highest \in Nat /\ k * Highest \in Nat
  BY <1>1, HighestFact, TimesFact
<1>6. c + n * Highest <= Bound
  BY <1>2, <1>3, <1>4, <1>5
<1> QED
  BY <1>4, <1>6 DEF c, n

(* A step that charges nothing and lets no request past a hard budget. *)
LEMMA OverspendKept ==
  ASSUME Base, Overspend, NEW r \in Requests, Only(r), spend' = spend, now' = now,
         job'[r].charged = job[r].charged,
         job'[r].checked = job[r].checked \/ job[r].charged = None,
         job'[r].checked = TRUE => job[r].checked = TRUE,
         \A period \in Periods : r \in Pending(job', period) => r \in Pending(job, period),
         InFlight'
  PROVE  Overspend'
<1>1. ASSUME NEW b, NEW checked PROVE Charged(job', b, checked) = Charged(job, b, checked)
  <2>1. ASSUME NEW q \in Requests PROVE Share(job'[q], b, checked) = Share(job[q], b, checked)
    <3>1. CASE q = r
      BY <3>1 DEF Share
    <3>2. CASE q # r
      BY <3>2 DEF Only
    <3> QED
      BY <3>1, <3>2
  <2> QED
    BY <2>1, ChargedKept
<1>2. SpendIsCharged'
  BY <1>1 DEF Overspend, SpendIsCharged
<1>3. TomorrowIsEmpty'
  BY DEF Overspend, TomorrowIsEmpty
<1>4. LimitWasMet'
  BY DEF Overspend, LimitWasMet, Only
<1>5. ChargedWithin'
  BY <1>1 DEF Overspend, ChargedWithin
<1>6. ASSUME NEW period \in Periods, Pending(job', period) # {}
      PROVE  Charged(job', Bucket(period, now'), TRUE) + Cardinality(Pending(job', period)) * Highest <= Bound
  <2>1. Pending(job', period) \in SUBSET Pending(job, period)
    <3>1. ASSUME NEW q \in Pending(job', period), q # r PROVE q \in Pending(job, period)
      BY <3>1 DEF Pending, Only
    <3> QED
      BY <3>1
  <2>2. Charged(job, Bucket(period, now), TRUE) + Cardinality(Pending(job', period)) * Highest <= Bound
    BY <1>6, <2>1, PendingFewer DEF Overspend
  <2> QED
    BY <1>1, <2>2
<1> QED
  BY <1>2, <1>3, <1>4, <1>5, <1>6 DEF Overspend, PendingWithin

LEMMA OverspendInit == ASSUME Init PROVE Overspend
<1>1. \A r \in Requests : job[r] = Idle
  BY DEF Init
<1>2. ASSUME NEW b, NEW checked PROVE Charged(job, b, checked) = 0
  <2> DEFINE f == ShareOf(job, b, checked)
  <2>1. \A r \in Requests : f[r] = 0
    BY <1>1 DEF ShareOf, Share, Idle
  <2> HIDE DEF f
  <2>2. SumOn(f, Requests) = 0
    BY <2>1, GatewayAssumption, SumZero
  <2> QED
    BY <2>2 DEF Charged, f
<1>9. ASSUME NEW b \in Buckets
      PROVE  /\ spend[b] = Charged(job, b, TRUE) + Charged(job, b, FALSE)
             /\ ~(Charged(job, b, TRUE) > 0)
  <2> DEFINE c == Charged(job, b, TRUE)
             f == Charged(job, b, FALSE)
  <2>1. c = 0 /\ f = 0 /\ spend[b] = 0
    BY <1>2 DEF Init
  <2> HIDE DEF c, f
  <2>2. spend[b] = c + f /\ ~(c > 0)
    BY <2>1
  <2> QED
    BY <2>2 DEF c, f
<1>3. SpendIsCharged
  BY <1>9 DEF SpendIsCharged
<1>4. TomorrowIsEmpty
  BY DEF Init, TomorrowIsEmpty, Buckets
<1>5. InFlight
  <2>1. Live = {}
    BY <1>1 DEF Live, Idle
  <2> QED
    BY <2>1, FS_EmptySet, GatewayAssumption DEF InFlight
<1>6. LimitWasMet
  BY <1>1 DEF LimitWasMet, Idle
<1>7. ChargedWithin
  BY <1>9 DEF ChargedWithin
<1>8. \A period \in Periods : Pending(job, period) = {}
  BY <1>1 DEF Pending, Idle
<1> QED
  BY <1>3, <1>4, <1>5, <1>6, <1>7, <1>8 DEF Overspend, PendingWithin

(* A hard budget that is not used up lets a request through. *)
LEMMA OverspendChecked ==
  ASSUME Base, Overspend, NEW r \in Requests, CheckBudget(r), job'[r].checked = TRUE
  PROVE  Overspend'
<1> DEFINE here == job[r].doc.budget.period
           limit == job[r].doc.budget.limit
<1>1. /\ Only(r) /\ job[r].phase = "budget" /\ Working(job[r], log[r])
      /\ job[r].charged = None /\ job'[r].charged = None /\ job'[r].phase \in {"lookup", "call"}
      /\ job[r].doc.budget.mode = "hard" /\ job'[r].doc = job[r].doc
      /\ spend[Bucket(here, now)] < limit /\ limit \in Int /\ here \in Periods
  BY CheckBudgetFact
<1>2. spend' = spend /\ now' = now
  BY DEF CheckBudget, redis
<1>3. /\ job[r].doc = PolicyAt(job[r].version) /\ job[r].version \in Versions /\ job[r].doc.budget # Off
      /\ now \in 0..MaxMinute /\ spend \in [Buckets -> Nat]
  BY <1>1 DEF Working, Knows, Holding, Base, Types
<1>4. Limit \in Int /\ limit <= Limit
  BY <1>1, <1>3, LimitFact
<1>5. Bucket(here, now) \in Buckets
  BY <1>1, <1>3, BucketFact
<1>6. spend[Bucket(here, now)] \in Nat
  BY <1>3, <1>5
<1>7. Limit >= 1 /\ spend[Bucket(here, now)] <= Limit - 1
  BY <1>1, <1>4, <1>6
<1>8. ASSUME NEW b, NEW checked PROVE Charged(job', b, checked) = Charged(job, b, checked)
  <2>1. ASSUME NEW q \in Requests PROVE Share(job'[q], b, checked) = Share(job[q], b, checked)
    <3>1. CASE q = r
      BY <1>1, <3>1 DEF Share
    <3>2. CASE q # r
      BY <1>1, <3>2 DEF Only
    <3> QED
      BY <3>1, <3>2
  <2> QED
    BY <2>1, ChargedKept
<1>9. SpendIsCharged'
  BY <1>2, <1>8 DEF Overspend, SpendIsCharged
<1>10. TomorrowIsEmpty'
  BY <1>2 DEF Overspend, TomorrowIsEmpty
<1>11. LimitWasMet'
  BY <1>4, <1>7 DEF LimitWasMet
<1>12. ChargedWithin'
  BY <1>8 DEF Overspend, ChargedWithin
<1>13. InFlight'
  BY <1>1, InFlightKept DEF Overspend
<1>14. ASSUME NEW period \in Periods, Pending(job', period) # {}
      PROVE  Charged(job', Bucket(period, now'), TRUE) + Cardinality(Pending(job', period)) * Highest <= Bound
  <2> DEFINE c == Charged(job, Bucket(period, now), TRUE)
             n == Cardinality(Pending(job', period))
  <2>1. CASE period = here
    <3> DEFINE b == Bucket(here, now)
               f == Charged(job, b, FALSE)
    <3>1. spend[b] = c + f
      BY <1>5, <2>1 DEF Overspend, SpendIsCharged
    <3>2. c \in Nat /\ f \in Nat
      BY ChargedFact DEF Base
    <3>3. c <= Limit - 1
      <4>1. spend[b] <= Limit - 1
        BY <1>7
      <4> HIDE DEF b, c, f
      <4> QED
        BY <1>4, <3>1, <3>2, <4>1
    <3>4. Cardinality(Live') <= MaxInFlight /\ Live' = LiveOf(job')
      BY <1>13 DEF InFlight, Live, LiveOf
    <3>5. n \in Nat /\ n <= MaxInFlight
      <4>1. n \in Nat /\ n <= Cardinality(LiveOf(job')) /\ Cardinality(LiveOf(job')) \in Nat
        BY LiveFact
      <4> QED
        BY <3>4, <4>1, GatewayAssumption
    <3> HIDE DEF n, c
    <3>6. n * Highest <= MaxInFlight * Highest /\ n * Highest \in Nat /\ MaxInFlight * Highest \in Nat
      BY <3>5, HighestFact, GatewayAssumption, TimesFact
    <3>7. c + n * Highest <= Bound
      BY <1>4, <3>2, <3>3, <3>6 DEF Bound
    <3> QED
      BY <1>2, <1>8, <3>7 DEF c, n
  <2>2. CASE period # here
    <3>1. Pending(job', period) \in SUBSET Pending(job, period)
      <4>1. r \notin Pending(job', period)
        BY <1>1, <2>2 DEF Pending
      <4>2. ASSUME NEW q \in Pending(job', period) PROVE q \in Pending(job, period)
        BY <1>1, <4>1, <4>2 DEF Pending, Only
      <4> QED
        BY <4>2
    <3>2. c + n * Highest <= Bound
      BY <1>14, <3>1, PendingFewer DEF Overspend
    <3> QED
      BY <1>2, <1>8, <3>2
  <2> QED
    BY <2>1, <2>2
<1> QED
  BY <1>9, <1>10, <1>11, <1>12, <1>13, <1>14 DEF Overspend, PendingWithin

(* A charge: what it adds to the buckets, the pending requests it leaves.  *)
LEMMA OverspendCharge ==
  ASSUME Base, Overspend, NEW r \in Requests, Charge(r)
  PROVE  Overspend'
<1> DEFINE here == job[r].doc.budget.period
           b0 == Bucket(here, now)
           cost == job[r].work.rec.cost
           C(b, c) == Charged(job, b, c)
           CC(b, c) == Charged(job', b, c)
<1>1. /\ Only(r) /\ job[r].phase = "charge" /\ Working(job[r], log[r]) /\ RequestOK(job'[r], log'[r])
      /\ job'[r].checked = job[r].checked /\ job'[r].phase \in {"store", "done"} /\ job[r].charged = None
      /\ here \in Periods /\ cost \in 0..Highest /\ b0 \in Buckets
      /\ \/ job'[r].charged = <<b0, cost>> /\ spend' = [spend EXCEPT ![b0] = @ + cost]
         \/ job'[r].charged = None /\ spend' = spend
  BY ChargeFact
<1>2. /\ now' = now /\ job[r].checked \in BOOLEAN /\ spend \in [Buckets -> Nat] /\ Highest \in Nat
      /\ cost \in Nat
  BY <1>1, HighestFact DEF Charge, Working, Holding, Base, Types
<1>3. InFlight'
  BY <1>1, InFlightKept DEF Overspend
<1>4. \A period \in Periods : Pending(job', period) = Pending(job, period) \ {r}
  <2> SUFFICES ASSUME NEW period \in Periods, NEW q \in Requests
               PROVE  q \in Pending(job', period) <=> q \in Pending(job, period) \ {r}
    BY DEF Pending
  <2>1. CASE q = r
    BY <1>1, <2>1 DEF Pending
  <2>2. CASE q # r
    BY <1>1, <2>2 DEF Pending, Only
  <2> QED
    BY <2>1, <2>2
<1>5. CASE job'[r].charged = None /\ spend' = spend
  BY <1>1, <1>2, <1>3, <1>4, <1>5, OverspendKept
<1>6. CASE job'[r].charged = <<b0, cost>> /\ spend' = [spend EXCEPT ![b0] = @ + cost]
  <2> DEFINE Added(b, c) == IF b = b0 /\ job[r].checked = c THEN cost ELSE 0
  <2>1. ASSUME NEW b, NEW c PROVE CC(b, c) = C(b, c) + Added(b, c) /\ C(b, c) \in Nat
    <3> DEFINE f == ShareOf(job, b, c)
               g == ShareOf(job', b, c)
    <3>1. \A q \in Requests : f[q] \in Int /\ g[q] \in Int
      <4>1. ASSUME NEW q \in Requests PROVE f[q] \in Int /\ g[q] \in Int
        <5>1. RequestOK(job[q], log[q]) /\ RequestOK(job'[q], log'[q])
          BY <1>1 DEF Base, RequestsOK, Only
        <5>2. Share(job[q], b, c) \in Nat /\ Share(job'[q], b, c) \in Nat
          BY <5>1, ShareFact
        <5> QED
          BY <5>2 DEF ShareOf
      <4> QED
        BY <4>1
    <3>2. \A q \in Requests \ {r} : f[q] = g[q]
      BY <1>1 DEF ShareOf, Only
    <3>3. f[r] = 0 /\ g[r] = Added(b, c)
      <4>1. <<b0, cost>> # None
        BY <1>1, <1>2, NoneIsNoCharge
      <4>2. Share(job[r], b, c) = 0
        BY <1>1 DEF Share
      <4>3. Share(job'[r], b, c) = Added(b, c)
        BY <1>1, <1>6, <4>1 DEF Share
      <4> QED
        BY <4>2, <4>3 DEF ShareOf
    <3> HIDE DEF f, g, Added
    <3>4. SumOn(g, Requests) = SumOn(f, Requests) + (g[r] - f[r])
      BY <3>1, <3>2, GatewayAssumption, SumChange
    <3>5. SumOn(f, Requests) \in Int /\ g[r] \in Int
      BY <3>1, GatewayAssumption, SumInt
    <3>6. SumOn(g, Requests) = SumOn(f, Requests) + Added(b, c)
      BY <3>3, <3>4, <3>5
    <3>7. Charged(job, b, c) \in Nat
      BY ChargedFact DEF Base
    <3> QED
      BY <3>6, <3>7 DEF Charged, f, g
  <2>2. ASSUME NEW b, b # b0 \/ job[r].checked = FALSE
        PROVE  CC(b, TRUE) = C(b, TRUE) /\ C(b, TRUE) \in Nat
    <3>1. CC(b, TRUE) = C(b, TRUE) + Added(b, TRUE) /\ C(b, TRUE) \in Nat
      BY <2>1
    <3>2. Added(b, TRUE) = 0
      BY <2>2
    <3> DEFINE c == C(b, TRUE)
               cc == CC(b, TRUE)
               a == Added(b, TRUE)
    <3>3. cc = c + a /\ c \in Nat /\ a = 0
      BY <3>1, <3>2
    <3> HIDE DEF c, cc, a
    <3>4. cc = c /\ c \in Nat
      BY <3>3
    <3> QED
      BY <3>4 DEF c, cc
  <2>3. ASSUME job[r].checked = TRUE
        PROVE  CC(b0, TRUE) = C(b0, TRUE) + cost /\ C(b0, TRUE) \in Nat
    <3>1. CC(b0, TRUE) = C(b0, TRUE) + Added(b0, TRUE) /\ C(b0, TRUE) \in Nat
      BY <2>1
    <3>2. Added(b0, TRUE) = cost
      BY <2>3
    <3> QED
      BY <3>1, <3>2
  <2>4. SpendIsCharged'
    <3> SUFFICES ASSUME NEW b \in Buckets PROVE spend'[b] = CC(b, TRUE) + CC(b, FALSE)
      BY DEF SpendIsCharged
    <3>1. spend[b] = C(b, TRUE) + C(b, FALSE) /\ spend[b] \in Nat
      BY <1>2 DEF Overspend, SpendIsCharged
    <3>2. /\ CC(b, TRUE) = C(b, TRUE) + Added(b, TRUE) /\ C(b, TRUE) \in Nat
          /\ CC(b, FALSE) = C(b, FALSE) + Added(b, FALSE) /\ C(b, FALSE) \in Nat
      BY <2>1
    <3>3. spend'[b] = spend[b] + (IF b = b0 THEN cost ELSE 0)
      <4>1. spend[b] \in Nat /\ spend'[b] = IF b = b0 THEN spend[b] + cost ELSE spend[b]
        BY <1>2, <1>6
      <4> QED
        BY <1>2, <4>1
    <3>4. /\ Added(b, TRUE) + Added(b, FALSE) = IF b = b0 THEN cost ELSE 0
          /\ Added(b, TRUE) \in Nat /\ Added(b, FALSE) \in Nat
      BY <1>2
    <3> DEFINE c == C(b, TRUE)
               cc == CC(b, TRUE)
               f == C(b, FALSE)
               ff == CC(b, FALSE)
               a == Added(b, TRUE)
               z == Added(b, FALSE)
               more == IF b = b0 THEN cost ELSE 0
    <3>5. /\ spend[b] = c + f /\ cc = c + a /\ ff = f + z
          /\ c \in Nat /\ f \in Nat /\ a \in Nat /\ z \in Nat
          /\ spend'[b] = spend[b] + more /\ a + z = more
      BY <3>1, <3>2, <3>3, <3>4
    <3> HIDE DEF c, cc, f, ff, a, z, more
    <3>6. spend'[b] = cc + ff
      BY <3>5
    <3> QED
      BY <3>6 DEF cc, ff
  <2>5. TomorrowIsEmpty'
    <3> SUFFICES ASSUME NEW d \in 0..(MaxMinute \div MinutesPerDay), d > now \div MinutesPerDay
                 PROVE  spend'[<<"daily", d>>] = 0
      BY <1>2 DEF TomorrowIsEmpty
    <3>1. <<"daily", d>> \in Buckets /\ spend[<<"daily", d>>] = 0
      BY DEF Overspend, TomorrowIsEmpty, Buckets
    <3>2. <<"daily", d>> # b0
      <4>1. d # now \div MinutesPerDay
        <5>1. now \div MinutesPerDay \in Int
          BY GatewayAssumption DEF Base, Types
        <5> QED
          BY <5>1
      <4> QED
        BY <1>1, <4>1 DEF Bucket, Periods
    <3> QED
      BY <1>2, <1>6, <3>1, <3>2
  <2>6. LimitWasMet'
    BY <1>1 DEF Overspend, LimitWasMet, Only
  <2>7. ASSUME job[r].checked = TRUE
        PROVE  /\ CC(b0, TRUE) <= Bound
               /\ CC(b0, TRUE) + Cardinality(Pending(job', here)) * Highest <= Bound
    <3> DEFINE c == C(b0, TRUE)
               cc == CC(b0, TRUE)
               P == Pending(job, here)
               k == Cardinality(Pending(job', here))
    <3>1. cc = c + cost /\ c \in Nat
      BY <2>3, <2>7
    <3>2. r \in P
      BY <1>1, <2>7 DEF Pending
    <3>3. c + Cardinality(P) * Highest <= Bound
      BY <1>1, <3>2 DEF Overspend, PendingWithin
    <3>4. IsFiniteSet(P) /\ Cardinality(P) \in Nat /\ Pending(job', here) = P \ {r} /\ k \in Nat
      BY <1>1, <1>4, LiveFact
    <3>5. Bound \in Int
      BY <1>1, <2>7, CheckedFact DEF Overspend, Stages
    <3> HIDE DEF P, c, cc
    <3>6. Cardinality(P \ {r}) = Cardinality(P) - 1
      BY <3>2, <3>4, FS_RemoveElement
    <3>7. Cardinality(P) = k + 1
      BY <3>4, <3>6
    <3> HIDE DEF k
    <3>8. (k + 1) * Highest = k * Highest + Highest /\ k * Highest \in Nat
      BY <1>2, <3>4, TimesFact
    <3>9. c + (k * Highest + Highest) <= Bound
      BY <3>3, <3>7, <3>8
    <3>10. cc <= Bound /\ cc + k * Highest <= Bound
      BY <1>1, <1>2, <3>1, <3>5, <3>8, <3>9
    <3> QED
      BY <3>10 DEF cc, k
  <2>8. ChargedWithin'
    <3> SUFFICES ASSUME NEW b \in Buckets, CC(b, TRUE) > 0 PROVE CC(b, TRUE) <= Bound
      BY DEF ChargedWithin
    <3>1. CASE b = b0 /\ job[r].checked = TRUE
      BY <2>7, <3>1
    <3>2. CASE ~(b = b0 /\ job[r].checked = TRUE)
      <4>1. CC(b, TRUE) = C(b, TRUE)
        BY <1>2, <2>2, <3>2
      <4> QED
        BY <4>1 DEF Overspend, ChargedWithin
    <3> QED
      BY <3>1, <3>2
  <2>9. PendingWithin'
    <3> SUFFICES ASSUME NEW period \in Periods, Pending(job', period) # {}
                 PROVE  CC(Bucket(period, now), TRUE) + Cardinality(Pending(job', period)) * Highest <= Bound
      BY <1>2 DEF PendingWithin
    <3>1. CASE period = here /\ job[r].checked = TRUE
      BY <2>7, <3>1
    <3>2. CASE ~(period = here /\ job[r].checked = TRUE)
      <4>1. period # here => Bucket(period, now) # b0
        BY DEF Bucket
      <4>2. CC(Bucket(period, now), TRUE) = C(Bucket(period, now), TRUE)
        BY <1>2, <2>2, <3>2, <4>1
      <4>3. Pending(job', period) \in SUBSET Pending(job, period)
        BY <1>4
      <4>4. C(Bucket(period, now), TRUE) + Cardinality(Pending(job', period)) * Highest <= Bound
        BY <4>3, PendingFewer DEF Overspend
      <4> QED
        BY <4>2, <4>4
    <3> QED
      BY <3>1, <3>2
  <2> QED
    BY <1>3, <2>4, <2>5, <2>6, <2>8, <2>9 DEF Overspend
<1> QED
  BY <1>1, <1>5, <1>6

(* A new day begins with an empty bucket. *)
LEMMA OverspendTick == ASSUME Base, Overspend, Tick PROVE Overspend'
<1>1. /\ now' = now + 1 /\ now' \in 0..MaxMinute /\ now \in 0..MaxMinute /\ job' = job /\ spend' = spend
      /\ MinutesPerDay \in Nat /\ MinutesPerDay > 0 /\ MaxMinute \in Nat /\ spend \in [Buckets -> Nat]
  BY GatewayAssumption DEF Tick, redis, Base, Types
<1>2. /\ now \div MinutesPerDay \in Int /\ now' \div MinutesPerDay \in 0..(MaxMinute \div MinutesPerDay)
      /\ now' \div MinutesPerDay >= now \div MinutesPerDay
  <2>1. now \div MinutesPerDay \in Int
    BY <1>1
  <2>2. now' \div MinutesPerDay \in 0..(MaxMinute \div MinutesPerDay)
    BY <1>1
  <2>3. now' \div MinutesPerDay >= now \div MinutesPerDay
    BY <1>1
  <2> QED
    BY <2>1, <2>2, <2>3
<1>3. TomorrowIsEmpty'
  <2> SUFFICES ASSUME NEW d \in 0..(MaxMinute \div MinutesPerDay), d > now' \div MinutesPerDay
               PROVE  spend[<<"daily", d>>] = 0
    BY <1>1 DEF TomorrowIsEmpty
  <2>1. d > now \div MinutesPerDay
    <3> DEFINE x == now \div MinutesPerDay
               y == now' \div MinutesPerDay
    <3>1. x \in Int /\ y \in Int /\ y >= x /\ d > y /\ d \in Int
      BY <1>2
    <3> HIDE DEF x, y
    <3>2. d > x
      BY <3>1
    <3> QED
      BY <3>2 DEF x
  <2> QED
    BY <2>1 DEF Overspend, TomorrowIsEmpty
<1>4. ASSUME NEW period \in Periods, Pending(job, period) # {}
      PROVE  Charged(job, Bucket(period, now'), TRUE) + Cardinality(Pending(job, period)) * Highest <= Bound
  <2> DEFINE b == Bucket(period, now')
             n == Cardinality(Pending(job, period))
             c == Charged(job, b, TRUE)
             f == Charged(job, b, FALSE)
  <2>1. CASE b = Bucket(period, now)
    BY <1>4, <2>1 DEF Overspend, PendingWithin
  <2>2. CASE b # Bucket(period, now)
    <3>1. period = "daily" /\ now' \div MinutesPerDay # now \div MinutesPerDay
      BY <2>2 DEF Bucket, Periods
    <3>2. spend[b] = 0 /\ b \in Buckets
      <4> DEFINE x == now \div MinutesPerDay
                 y == now' \div MinutesPerDay
      <4>1. x \in Int /\ y \in 0..(MaxMinute \div MinutesPerDay) /\ y >= x /\ y # x
        BY <1>2, <3>1
      <4>2. b = <<"daily", y>>
        BY <3>1 DEF Bucket
      <4>3. y > x
        <5> HIDE DEF x, y
        <5>1. y \in Int
          BY <4>1
        <5> QED
          BY <4>1, <5>1
      <4>4. spend[<<"daily", y>>] = 0
        BY <4>1, <4>3 DEF Overspend, TomorrowIsEmpty
      <4> QED
        BY <4>1, <4>2, <4>4 DEF Buckets
    <3>3. c + f = 0 /\ c \in Nat /\ f \in Nat
      BY <3>2, ChargedFact DEF Overspend, SpendIsCharged, Base
    <3>4. c = 0
      <4> HIDE DEF c, f
      <4> QED
        BY <3>3
    <3>5. Limit \in Int /\ Limit >= 1
      <4>1. PICK r \in Requests : job[r].checked = TRUE /\ job[r].phase \in Stages
        BY <1>4 DEF Pending, Stages
      <4> QED
        BY <4>1, CheckedFact DEF Overspend
    <3>6. n \in Nat /\ n <= MaxInFlight
      <4>1. n \in Nat /\ n <= Cardinality(LiveOf(job)) /\ Cardinality(LiveOf(job)) \in Nat
        BY LiveFact
      <4>2. Cardinality(LiveOf(job)) <= MaxInFlight
        BY DEF Overspend, InFlight, Live, LiveOf
      <4> QED
        BY <4>1, <4>2, GatewayAssumption
    <3> HIDE DEF n, c, f
    <3>7. n * Highest <= MaxInFlight * Highest /\ n * Highest \in Nat /\ MaxInFlight * Highest \in Nat
      BY <3>6, HighestFact, GatewayAssumption, TimesFact
    <3>8. c + n * Highest <= Bound
      BY <3>4, <3>5, <3>7 DEF Bound
    <3> QED
      BY <3>8 DEF c, n
  <2> QED
    BY <2>1, <2>2
<1>5. SpendIsCharged' /\ InFlight' /\ LimitWasMet' /\ ChargedWithin'
  BY <1>1 DEF Overspend, SpendIsCharged, InFlight, Live, LimitWasMet, ChargedWithin
<1> QED
  BY <1>1, <1>3, <1>4, <1>5 DEF Overspend, PendingWithin

LEMMA OverspendStep == ASSUME Base, Overspend, [Next]_vars PROVE Overspend'
<1>1. ASSUME NEW r \in Requests, Only(r), spend' = spend, now' = now,
             job[r].charged = None, job'[r].charged = None,
             job'[r].checked = TRUE => job[r].checked = TRUE,
             \A period \in Periods : r \in Pending(job', period) => r \in Pending(job, period),
             Cardinality(Live) < MaxInFlight \/ job[r].phase \notin {"idle", "done"}
      PROVE  Overspend'
  <2>1. InFlight'
    BY <1>1, InFlightKept DEF Overspend
  <2> QED
    BY <1>1, <2>1, OverspendKept
<1>2. ASSUME NEW r \in Requests, Refuse(r) PROVE Overspend'
  <2>1. Only(r) /\ job[r] = Idle /\ job'[r] = Done(Idle) /\ spend' = spend /\ now' = now
        /\ Cardinality(Live) < MaxInFlight
    BY <1>2, RefuseFact DEF Waiting, Refuse, redis
  <2>2. /\ job[r].charged = None /\ job'[r].charged = None /\ job'[r].checked = FALSE
        /\ \A period \in Periods : r \notin Pending(job', period)
    BY <2>1 DEF Idle, Done, Pending
  <2> QED
    BY <1>1, <2>1, <2>2
<1>3. ASSUME NEW r \in Requests, Start(r) PROVE Overspend'
  <2>1. Only(r) /\ job[r] = Idle /\ job'[r].checked = FALSE /\ job'[r].charged = None
        /\ spend' = spend /\ now' = now /\ Cardinality(Live) < MaxInFlight
    BY <1>3, StartFact DEF Waiting, Start, redis
  <2>2. job[r].charged = None /\ \A period \in Periods : r \notin Pending(job', period)
    BY <2>1 DEF Idle, Pending
  <2> QED
    BY <1>1, <2>1, <2>2
<1>4. ASSUME NEW r \in Requests, RateLimit(r) PROVE Overspend'
  <2>1. Only(r) /\ job[r].phase = "limit" /\ job'[r].checked = FALSE
        /\ job[r].charged = None /\ job'[r].charged = None /\ spend' = spend /\ now' = now
    BY <1>4, RateLimitFact DEF RateLimit
  <2>2. \A period \in Periods : r \notin Pending(job', period)
    BY <2>1 DEF Pending
  <2> QED
    BY <1>1, <2>1, <2>2
<1>5. ASSUME NEW r \in Requests, CheckBudget(r) PROVE Overspend'
  <2>1. Only(r) /\ job[r].phase = "budget" /\ job'[r].checked \in BOOLEAN
        /\ job[r].charged = None /\ job'[r].charged = None /\ spend' = spend /\ now' = now
    BY <1>5, CheckBudgetFact DEF CheckBudget, redis
  <2>2. CASE job'[r].checked = TRUE
    BY <1>5, <2>2, OverspendChecked
  <2>3. CASE job'[r].checked = FALSE
    <3>1. \A period \in Periods : r \notin Pending(job', period)
      BY <2>3 DEF Pending
    <3> QED
      BY <1>1, <2>1, <2>3, <3>1
  <2> QED
    BY <2>1, <2>2, <2>3
<1>6. ASSUME NEW r \in Requests, Lookup(r) PROVE Overspend'
  <2>1. /\ Only(r) /\ job[r].phase = "lookup" /\ job'[r].checked = job[r].checked
        /\ job[r].charged = None /\ job'[r].charged = None /\ spend' = spend /\ now' = now
        /\ \/ job'[r].phase = "call" /\ job'[r].doc = job[r].doc
           \/ job'[r].phase = "done"
    BY <1>6, LookupFact DEF Lookup, redis
  <2>2. \A period \in Periods : r \in Pending(job', period) => r \in Pending(job, period)
    BY <2>1 DEF Pending
  <2> QED
    BY <1>1, <2>1, <2>2
<1>7. ASSUME NEW r \in Requests, CallUnary(r) \/ CallStream(r) PROVE Overspend'
  <2>1. /\ Ends(r) /\ job[r].phase = "call" /\ job[r].charged = None
        /\ spend' = spend /\ now' = now
    BY <1>7, CallFact DEF redis
  <2>2. /\ Only(r) /\ job'[r].checked = job[r].checked /\ job'[r].charged = None
        /\ \/ job'[r].phase \in {"store", "done"}
           \/ job'[r].phase = "charge" /\ job'[r].doc = job[r].doc
    BY <2>1 DEF Ends, Fails, Sells
  <2>3. \A period \in Periods : r \in Pending(job', period) => r \in Pending(job, period)
    BY <2>1, <2>2 DEF Pending
  <2> QED
    BY <1>1, <2>1, <2>2, <2>3
<1>8. ASSUME NEW r \in Requests, Store(r) PROVE Overspend'
  <2>1. /\ Only(r) /\ job[r].phase = "store" /\ job'[r] = Done(job[r]) /\ spend' = spend /\ now' = now
        /\ job'[r].checked = job[r].checked /\ job'[r].charged = job[r].charged
    BY <1>8, StoreFact DEF Store
  <2>2. \A period \in Periods : r \notin Pending(job', period)
    BY <2>1 DEF Pending, Done
  <2>3. InFlight'
    BY <2>1, InFlightKept DEF Overspend
  <2> QED
    BY <2>1, <2>2, <2>3, OverspendKept
<1>9. ASSUME UNCHANGED <<now, spend, job>> PROVE Overspend'
  BY <1>9 DEF Overspend, SpendIsCharged, TomorrowIsEmpty, InFlight, Live, LimitWasMet, ChargedWithin,
              PendingWithin
<1> QED
  BY <1>2, <1>3, <1>4, <1>5, <1>6, <1>7, <1>8, <1>9, OverspendCharge, OverspendTick
     DEF Next, Serve, Publish, redis, vars

LEMMA ChargedToFact ==
  ASSUME Base, NEW b, NEW checked
  PROVE  ChargedTo(b, checked) = Charged(job, b, checked)
<1> DEFINE T == {q \in Requests : /\ job[q].charged # None /\ job[q].charged[1] = b
                                  /\ job[q].checked = checked}
           f == [r \in T |-> job[r].charged[2]]
           g == ShareOf(job, b, checked)
<1>1. ChargedTo(b, checked) = SumOn(f, T)
  <2>1. Costs(f) = SumOn(f, DOMAIN f) /\ DOMAIN f = T
    BY CostsFact
  <2> HIDE DEF f
  <2>2. Costs(f) = SumOn(f, T)
    BY <2>1
  <2> QED
    BY <2>2 DEF ChargedTo, f
<1>2. \A r \in T : f[r] \in Int /\ g[r] = f[r]
  <2>1. ASSUME NEW r \in T PROVE f[r] \in Int /\ g[r] = f[r]
    <3>1. Share(job[r], b, checked) = job[r].charged[2]
      BY DEF Share
    <3>2. Share(job[r], b, checked) \in Nat
      BY ShareFact DEF Base, RequestsOK
    <3> QED
      BY <3>1, <3>2 DEF ShareOf
  <2> QED
    BY <2>1
<1>3. \A r \in Requests \ T : g[r] = 0
  BY DEF ShareOf, Share
<1>4. T \in SUBSET Requests /\ IsFiniteSet(Requests)
  BY GatewayAssumption
<1> HIDE DEF T, f, g
<1>5. SumOn(f, T) = SumOn(g, Requests)
  BY <1>2, <1>3, <1>4, SumWithin
<1> QED
  BY <1>1, <1>5 DEF Charged, g

(* For every number of requests, every sequence of published policies and  *)
(* every price list: a hard budget is overspent by no more than what       *)
(* MaxInFlight calls can cost, beside what was charged for requests whose  *)
(* budget was not read, though BudgetGuard.Blocked only reads and          *)
(* RecordSpend adds once the cost of the call is known.                    *)
THEOREM OverspendIsBoundedCorrect == Spec => []OverspendIsBounded
<1>1. Init => Base /\ Overspend
  BY BaseInit, OverspendInit
<1>2. Base /\ Overspend /\ [Next]_vars => Base' /\ Overspend'
  BY BaseStep, OverspendStep
<1>3. Base /\ Overspend => OverspendIsBounded
  <2> SUFFICES ASSUME Base, Overspend, NEW b \in Buckets, ChargedTo(b, TRUE) > 0
               PROVE  spend[b] <= Max(HardLimits) - 1 + MaxInFlight * Max({Price[m] : m \in Models})
                                    + ChargedTo(b, FALSE)
    BY DEF OverspendIsBounded
  <2> DEFINE c == Charged(job, b, TRUE)
             f == Charged(job, b, FALSE)
             bound == Bound
  <2>1. ChargedTo(b, TRUE) = c /\ ChargedTo(b, FALSE) = f
    BY ChargedToFact
  <2>2. spend[b] = c + f /\ c \in Nat /\ f \in Nat
    BY ChargedFact DEF Base, Overspend, SpendIsCharged
  <2>3. c <= bound
    BY <2>1 DEF Overspend, ChargedWithin
  <2>4. bound = Max(HardLimits) - 1 + MaxInFlight * Max({Price[m] : m \in Models})
    BY DEF Bound, Limit, Highest
  <2>5. bound \in Int
    <3>1. PICK r \in Requests : job[r].checked = TRUE
      <4>1. CASE \A r \in Requests : job[r].checked # TRUE
        <5> DEFINE g == ShareOf(job, b, TRUE)
        <5>1. \A r \in Requests : g[r] = 0
          BY <4>1 DEF ShareOf, Share
        <5> HIDE DEF g
        <5>2. SumOn(g, Requests) = 0
          BY <5>1, GatewayAssumption, SumZero
        <5>3. c = 0
          BY <5>2 DEF Charged, g
        <5>4. c > 0
          BY <2>1
        <5> HIDE DEF c
        <5> QED
          BY <5>3, <5>4
      <4> QED
        BY <4>1
    <3>2. Limit \in Int
      BY <3>1 DEF Overspend, LimitWasMet
    <3>3. MaxInFlight * Highest \in Nat
      BY GatewayAssumption, HighestFact, TimesFact
    <3> QED
      BY <3>2, <3>3 DEF Bound
  <2> HIDE DEF c, f, bound
  <2>6. spend[b] <= bound + f
    BY <2>2, <2>3, <2>5
  <2> QED
    BY <2>1, <2>4, <2>6
<1> QED
  BY <1>1, <1>2, <1>3, PTL DEF Spec
=============================================================================
