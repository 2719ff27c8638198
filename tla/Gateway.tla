------------------------------- MODULE Gateway -------------------------------
(***************************************************************************)
(* POST /v1/chat/completions for one application: the pipeline of          *)
(* handleChatCompletions with the Redis state its controls share.          *)
(*                                                                         *)
(* Requests are served concurrently.  A request reads the policy once,     *)
(* when it starts, and each later stage acts by that copy; between two     *)
(* stages that touch Redis or the provider any other request may move.     *)
(* A stage that is switched off, or has nothing to do, is passed through   *)
(* together with the one before it.  Redis fails open: a call that errors  *)
(* may or may not have had its effect.                                     *)
(*                                                                         *)
(* Time is counted in minutes, the rate limiter's window.  Usage is 0 or   *)
(* one unit, priced by the catalog.                                        *)
(***************************************************************************)
EXTENDS Integers, Sequences, FiniteSets, FiniteSetsExt, Functions, ProviderStream

CONSTANTS
  Requests, Models, Bodies,
  Inputs,        \* the requests clients send: [model, body, stream]
  Catalog,       \* [Models -> {"openai", "gemini", "none"}], none: not priced
  Price,         \* [Models -> Nat], the cost of one unit of usage
  OllamaBound,   \* Ollama has a credential in this deployment
  StickySide,    \* stickyFraction of the calling key, in percent
  Policies,      \* the documents that are published, in order
  Off,           \* a control that is absent or not enabled
  None,          \* no cache key, no entry, no limit
  MaxInFlight, MaxMinute, MinutesPerDay, MaxFaults

(* A policy document, each of its five controls Off where it is absent or  *)
(* not enabled; a budget that is switched off still receives the spend.    *)
Documents ==
  [allowed : {Off} \cup SUBSET Models,
   routing : {Off} \cup [from : Models, to : Models, weight : Int, sticky : BOOLEAN],
   rate : {Off} \cup Int,
   budget : {Off} \cup [mode : {"disabled", "soft", "hard"}, limit : Int, period : {"daily", "monthly"}],
   ttl : {Off} \cup Int]

ASSUME GatewayAssumption ==
  /\ IsFiniteSet(Requests) /\ IsFiniteSet(Models) /\ Models # {}
  /\ Inputs \subseteq [model : Models, body : Bodies, stream : {"no", "yes", "unmetered"}]
  /\ Catalog \in [Models -> {"openai", "gemini", "none"}]
  /\ Price \in [Models -> Nat]
  /\ Policies \in Seq(Documents) /\ Policies # <<>>
  /\ OllamaBound \in BOOLEAN
  /\ MaxInFlight \in Nat \ {0} /\ MinutesPerDay \in Nat \ {0}
  /\ {MaxMinute, MaxFaults} \subseteq Nat /\ StickySide \in 0..99

VARIABLES
  policy,    \* which of Policies is published; 0: none yet
  now,
  counter,   \* Redis: requests counted per minute
  spend,     \* Redis: micro-dollars per budget bucket
  cache,     \* Redis: entry per cache key
  job,       \* per request, what its handler holds
  log,       \* per request, the usage records it emitted
  lost,      \* history: cost whose INCRBY did not happen
  faults     \* how often Redis or the policy store failed a request

redis == <<counter, spend, cache>>
vars == <<policy, now, counter, spend, cache, job, log, lost, faults>>

EmptyPolicy == [allowed |-> Off, routing |-> Off, rate |-> Off, budget |-> Off, ttl |-> Off]
PolicyAt(v) == IF v = 0 THEN EmptyPolicy ELSE Policies[v]
(* periodBucket: the model's minutes all lie in one month. *)
Buckets == {<<"daily", d>> : d \in 0..(MaxMinute \div MinutesPerDay)} \cup {<<"monthly", 0>>}
ASSUME NoneIsNoCharge == None \notin Buckets \X Nat
Bucket_ByMinute(period, t) == <<period, IF period = "monthly" THEN t ELSE t \div MinutesPerDay>>
Bucket(period, t) == <<period, IF period = "monthly" THEN 0 ELSE t \div MinutesPerDay>>

(* CacheKey: the routed model and the rest of the request; whether the     *)
(* answer is streamed, and parameters Fluxen does not model, are left out. *)
CacheKey_Requested(in, model) == <<in.model, in.body>>
CacheKey(in, model) == <<model, in.body>>

-----------------------------------------------------------------------------
(* Decisions *)

(* pkg/policy.Evaluate: the decisions it can come to.  A rule that is not  *)
(* sticky draws a number, a sticky one always the caller's own.            *)
Evaluate(doc, model) ==
  IF doc.allowed # Off /\ model \notin doc.allowed
  THEN {[model |-> model, blocked |-> TRUE]}
  ELSE IF doc.routing # Off /\ model = doc.routing.from
  THEN LET draws == IF doc.routing.sticky THEN {StickySide} ELSE 0..99
       IN {IF d < doc.routing.weight
           THEN [model |-> doc.routing.to, blocked |-> FALSE]
           ELSE [model |-> model, blocked |-> FALSE] : d \in draws}
  ELSE {[model |-> model, blocked |-> FALSE]}

(* resolveProvider: the catalog decides; a model it does not list is taken *)
(* for a local one where Ollama is configured.                             *)
ResolveProvider(model) ==
  IF Catalog[model] # "none" THEN Catalog[model]
  ELSE IF OllamaBound THEN "ollama" ELSE "openai"

(* credentialConfigured: Ollama needs no key. *)
Usable(provider, hasKey) == provider = "ollama" \/ hasKey

Caching(doc) == doc.ttl # Off

EvaluateBudget(budget, spent) == budget.mode = "hard" /\ spent >= budget.limit

(* finalize: Ollama is free, a model the catalog does not list has no price. *)
Cost(provider, model, usage) ==
  IF provider = "ollama" \/ model \notin Models THEN 0
  ELSE IF Catalog[model] = "none" THEN 0 ELSE usage * Price[model]

(* The record of one exit.  Of a request that was blocked or failed only   *)
(* the cost matters here, and "failed" stands for provider_error, timeout  *)
(* and client_abort.                                                       *)
Failed(status, cost) == [status |-> status, cost |-> cost, cacheStatus |-> "bypass"]
Answered(j, model, usage) ==
  [status |-> "ok", cacheStatus |-> IF Caching(j.doc) THEN "miss" ELSE "disabled",
   cost |-> Cost(j.provider, model, usage), saved |-> 0,
   routed |-> j.model, model |-> model, usage |-> usage, key |-> j.key, version |-> j.version]
Replayed(j, e) ==
  [status |-> "ok", cacheStatus |-> "hit", cost |-> 0, saved |-> e.cost,
   routed |-> j.model, model |-> e.model, usage |-> e.usage, key |-> j.key, version |-> j.version]

-----------------------------------------------------------------------------
(* The state of a request *)

Idle == [phase |-> "idle", understood |-> FALSE, admit |-> None, checked |-> FALSE, charged |-> None]
Live == {r \in Requests : job[r].phase \notin {"idle", "done"}}

(* The handler returns.  What it holds is gone but for four facts kept as  *)
(* history: whether the request was understood, the limit and minute it    *)
(* was admitted under, whether a hard budget was read for it, and what it  *)
(* was charged.                                                            *)
Done(j) == [phase |-> "done", understood |-> j.understood,
            admit |-> j.admit, checked |-> j.checked, charged |-> j.charged]

(* The next stage that has something to do. *)
AfterBudget(doc) == IF Caching(doc) THEN "lookup" ELSE "call"
AfterLimit(doc) == IF doc.budget # Off /\ doc.budget.mode # "disabled"
                   THEN "budget" ELSE AfterBudget(doc)
AfterStart(doc) == IF doc.rate # Off THEN "limit" ELSE AfterLimit(doc)

Finish(r, rec) ==
  /\ log' = [log EXCEPT ![r] = Append(@, rec)]
  /\ job' = [job EXCEPT ![r] = Done(@)]

Blocked_Silent(r, j) == job' = [job EXCEPT ![r] = Done(j)] /\ UNCHANGED log
Blocked(r, j) ==
  /\ log' = [log EXCEPT ![r] = Append(@, Failed("blocked", 0))]
  /\ job' = [job EXCEPT ![r] = Done(j)]

Init ==
  /\ policy = 1 /\ now = 0
  /\ counter = [m \in 0..MaxMinute |-> 0]
  /\ spend = [b \in Buckets |-> 0]
  /\ cache = [k \in Models \X Bodies |-> None]
  /\ job = [r \in Requests |-> Idle]
  /\ log = [r \in Requests |-> <<>>]
  /\ lost = 0 /\ faults = 0

Fault == faults < MaxFaults /\ faults' = faults + 1

-----------------------------------------------------------------------------
(* Stages *)

(* A request that is refused before the pipeline knows it: no key, a body  *)
(* that cannot be read, is too large or does not parse.                    *)
Refuse(r) ==
  /\ job[r].phase = "idle" /\ Cardinality(Live) < MaxInFlight
  /\ job' = [job EXCEPT ![r] = Done(Idle)]
  /\ UNCHANGED <<policy, now, redis, log, lost, faults>>

(* Authenticated and parsed: loadPolicy, which fails open to the empty     *)
(* document at version 0, then the routing decision and the provider.      *)
Start(r) ==
  /\ job[r].phase = "idle" /\ Cardinality(Live) < MaxInFlight
  /\ \E in \in Inputs, v \in {0, policy}, hasKey \in BOOLEAN :
       /\ IF v = policy THEN UNCHANGED faults ELSE Fault
       /\ \E d \in Evaluate(PolicyAt(v), in.model) :
         LET provider == ResolveProvider(d.model)
             j == [phase |-> AfterStart(PolicyAt(v)), in |-> in, doc |-> PolicyAt(v),
                   version |-> v, model |-> IF d.blocked THEN in.model ELSE d.model,
                   provider |-> IF d.blocked THEN "openai" ELSE provider, key |-> None,
                   work |-> None, understood |-> TRUE,
                   admit |-> None, checked |-> FALSE, charged |-> None]
         IN IF d.blocked \/ ~Usable(provider, hasKey)
            THEN Blocked(r, j)
            ELSE /\ job' = [job EXCEPT ![r] = [j EXCEPT !.key =
                              IF j.phase \in {"lookup", "call"} THEN CacheKey(in, d.model) ELSE None]]
                 /\ UNCHANGED log
  /\ UNCHANGED <<policy, now, redis, lost>>

(* Allow: INCR the minute's counter and compare.  A refused request has    *)
(* been counted too.                                                       *)
Within_OffByOne(count, limit) == count <= limit + 1
Within(count, limit) == count <= limit
RateLimit(r) ==
  LET j == job[r]
      passed == [j EXCEPT !.phase = AfterLimit(j.doc),
                          !.key = IF AfterLimit(j.doc) = "budget" THEN None
                                  ELSE CacheKey(j.in, j.model)]
  IN /\ j.phase = "limit"
     /\ \/ /\ counter' = [counter EXCEPT ![now] = @ + 1]
           /\ IF Within(counter[now] + 1, j.doc.rate)
              THEN /\ job' = [job EXCEPT ![r] = [passed EXCEPT !.admit = <<now, j.doc.rate>>]]
                   /\ UNCHANGED log
              ELSE Blocked(r, j)
           /\ UNCHANGED faults
        \/ \E n \in 0..1 :
              /\ Fault
              /\ counter' = [counter EXCEPT ![now] = @ + n]
              /\ job' = [job EXCEPT ![r] = passed]
              /\ UNCHANGED log
     /\ UNCHANGED <<policy, now, spend, cache, lost>>

(* BudgetGuard.Blocked reads what earlier requests have spent. *)
CheckBudget_Unread(r) ==
  LET j == job[r]
  IN /\ j.phase = "budget"
     /\ job' = [job EXCEPT ![r] = [j EXCEPT !.phase = AfterBudget(j.doc),
                                            !.key = CacheKey(j.in, j.model),
                                            !.checked = j.doc.budget.mode = "hard"]]
     /\ UNCHANGED <<policy, now, redis, log, lost, faults>>
CheckBudget(r) ==
  LET j == job[r]
      passed == [j EXCEPT !.phase = AfterBudget(j.doc), !.key = CacheKey(j.in, j.model)]
  IN /\ j.phase = "budget"
     /\ \/ /\ UNCHANGED faults
           /\ IF EvaluateBudget(j.doc.budget, spend[Bucket(j.doc.budget.period, now)])
              THEN Blocked(r, j)
              ELSE /\ job' = [job EXCEPT ![r] = [passed EXCEPT !.checked = j.doc.budget.mode = "hard"]]
                   /\ UNCHANGED log
        \/ Fault /\ job' = [job EXCEPT ![r] = passed] /\ UNCHANGED log
     /\ UNCHANGED <<policy, now, redis, lost>>

(* Store.Get.  An entry that is there and has not expired is replayed in   *)
(* the form it was stored in; any failure is a miss.                       *)
Fresh(e) == e # None /\ now < e.expires
Lookup(r) ==
  LET j == job[r]
      e == cache[j.key]
  IN /\ j.phase = "lookup"
     /\ \/ /\ Fresh(e) /\ UNCHANGED faults
           /\ Finish(r, Replayed(j, e))
        \/ /\ IF Fresh(e) THEN Fault ELSE UNCHANGED faults
           /\ job' = [job EXCEPT ![r] = [j EXCEPT !.phase = "call"]]
           /\ UNCHANGED log
     /\ UNCHANGED <<policy, now, redis, lost>>

(* handleProviderError: the upstream's own error or no answer at all, or   *)
(* the deadline; nothing was used.                                         *)
ProviderError(r) == Finish(r, Failed("failed", 0))

(* emit on success, then what afterSuccess has to do: charge the budget    *)
(* the request's own policy names, where anything was bought, and fill the *)
(* cache.                                                                  *)
StoreOrDone(j) == IF Caching(j.doc) /\ j.doc.ttl > 0 THEN [j EXCEPT !.phase = "store"] ELSE Done(j)
Success(r, rec, streamed) ==
  LET j == [job[r] EXCEPT !.work = [rec |-> rec, streamed |-> streamed]]
  IN /\ log' = [log EXCEPT ![r] = Append(@, rec)]
     /\ job' = [job EXCEPT ![r] = IF j.doc.budget # Off /\ rec.cost > 0
                                  THEN [j EXCEPT !.phase = "charge"] ELSE StoreOrDone(j)]

(* handleChatUnary: the answer names the model that served it, which the   *)
(* catalog may know under another name than the one asked for.             *)
CallUnary(r) ==
  LET j == job[r]
  IN /\ j.phase = "call" /\ j.in.stream = "no"
     /\ \/ \E served \in {<<j.model, 0>>, <<j.model, 1>>, <<"unlisted", 1>>} :
             Success(r, Answered(j, served[1], served[2]), FALSE)
        \/ ProviderError(r)
     /\ UNCHANGED <<policy, now, redis, lost, faults>>

(* handleChatStream, from ChatStream to the record.  Its loop touches      *)
(* nothing that other requests see, so it is one step, with every end the  *)
(* readers allow; the record is emitted on each, afterSuccess runs on one. *)
EndStream_ChargeAborted(r, status, usage) ==
  Success(r, IF status = "ok" THEN Answered(job[r], job[r].model, usage)
             ELSE Failed("failed", Cost(job[r].provider, job[r].model, usage)), TRUE)
EndStream(r, status, usage) ==
  IF status = "ok"
  THEN Success(r, Answered(job[r], job[r].model, usage), TRUE)
  ELSE Finish(r, Failed("failed", Cost(job[r].provider, job[r].model, usage)))
CallStream(r) ==
  LET j == job[r]
  IN /\ j.phase = "call" /\ j.in.stream # "no"
     /\ \/ \E e \in StreamEnds[j.provider][j.in.stream = "yes"] : EndStream(r, e.status, e.usage)
        \/ ProviderError(r)
     /\ UNCHANGED <<policy, now, redis, lost, faults>>

(* RecordSpend: to the bucket of the period the request's policy names, at *)
(* the time the cost is known.                                             *)
Charge(r) ==
  LET j == job[r]
      b == Bucket(j.doc.budget.period, now)
      cost == j.work.rec.cost
  IN /\ j.phase = "charge"
     /\ \/ /\ spend' = [spend EXCEPT ![b] = @ + cost]
           /\ job' = [job EXCEPT ![r] = StoreOrDone([j EXCEPT !.charged = <<b, cost>>])]
           /\ UNCHANGED <<lost, faults>>
        \/ /\ Fault
           /\ lost' = lost + cost
           /\ job' = [job EXCEPT ![r] = StoreOrDone(j)]
           /\ UNCHANGED spend
     /\ UNCHANGED <<policy, now, counter, cache, log>>

(* Store.Set, which may fail. *)
Store(r) ==
  LET j == job[r]
  IN /\ j.phase = "store"
     /\ \/ /\ cache' = [cache EXCEPT ![j.key] =
                [model |-> j.work.rec.model, usage |-> j.work.rec.usage, cost |-> j.work.rec.cost,
                 streamed |-> j.work.streamed, expires |-> now + j.doc.ttl]]
           /\ UNCHANGED faults
        \/ Fault /\ UNCHANGED cache
     /\ job' = [job EXCEPT ![r] = Done(j)]
     /\ UNCHANGED <<policy, now, counter, spend, log, lost>>

-----------------------------------------------------------------------------
(* The environment *)

Publish ==
  /\ policy < Len(Policies)
  /\ policy' = policy + 1
  /\ UNCHANGED <<now, redis, job, log, lost, faults>>

Tick ==
  /\ now < MaxMinute
  /\ now' = now + 1
  /\ UNCHANGED <<policy, redis, job, log, lost, faults>>

Serve(r) ==
  \/ RateLimit(r) \/ CheckBudget(r) \/ Lookup(r)
  \/ CallUnary(r) \/ CallStream(r)
  \/ Charge(r) \/ Store(r)

Next ==
  \/ \E r \in Requests : Refuse(r) \/ Start(r) \/ Serve(r)
  \/ Publish \/ Tick

Spec == Init /\ [][Next]_vars
-----------------------------------------------------------------------------
(* Properties *)

Costs(f) == FoldFunction(LAMBDA x, y : x + y, 0, f)
Bought(r) == {i \in DOMAIN log[r] : log[r][i].status = "ok" /\ log[r][i].cacheStatus # "hit"}

(* Every variable keeps its type. *)
TypeOK ==
  /\ policy \in 0..Len(Policies) /\ now \in 0..MaxMinute /\ lost \in Nat /\ faults \in 0..MaxFaults
  /\ counter \in [0..MaxMinute -> Nat] /\ spend \in [Buckets -> Nat]
  /\ DOMAIN cache = Models \X Bodies
  /\ \A r \in Requests :
       job[r].phase \in {"idle", "limit", "budget", "lookup", "call",
                         "charge", "store", "done"}
  /\ \A r \in Requests : job[r].charged # None => job[r].charged \in Buckets \X Nat

(* Accounting (handleChatCompletions, handleChatStream, handleProviderError)*)
(* leaves no request that was authenticated and parsed without its usage   *)
(* record, and none with two: blocked, refused by a limit or a budget,     *)
(* failed, aborted, replayed or served, it has one when its handler ends,  *)
(* and from the answer on.  A request refused before that has none, and    *)
(* nothing of it was counted or charged.                                   *)
OneRecordPerRequest ==
  \A r \in Requests :
    /\ Len(log[r]) <= 1
    /\ job[r].phase \in {"charge", "store"} => Len(log[r]) = 1
    /\ job[r].phase = "done" =>
         IF job[r].understood THEN Len(log[r]) = 1
         ELSE log[r] = <<>> /\ job[r].admit = None /\ job[r].charged = None

(* The budget counters and the usage records agree: what the buckets hold, *)
(* what is still to be charged and what Redis lost add up to the cost of   *)
(* the calls that succeeded for a request whose policy had a budget.  A    *)
(* cache hit, a failed call and an aborted stream are never charged.       *)
Budgeted(r) == {i \in Bought(r) : PolicyAt(log[r][i].version).budget # Off}
SpendIsTheCostOfFinishedCalls ==
  LET due == [r \in Requests |-> IF job[r].phase = "charge" THEN job[r].work.rec.cost ELSE 0]
      owed == [r \in Requests |-> Costs([i \in Budgeted(r) |-> log[r][i].cost])]
  IN Costs(spend) + lost + Costs(due) = Costs(owed)

(* Check and charge are apart, so a hard budget is overspent; but only by  *)
(* what the requests in flight at once can cost, and by calls for which no *)
(* hard budget was read.                                                   *)
HardLimits == {p.budget.limit : p \in {q \in {Policies[i] : i \in DOMAIN Policies} :
                                          q.budget # Off /\ q.budget.mode = "hard"}}
ChargedTo(b, checked) ==
  Costs([r \in {q \in Requests : /\ job[q].charged # None /\ job[q].charged[1] = b
                                  /\ job[q].checked = checked} |-> job[r].charged[2]])
OverspendIsBounded ==
  \A b \in Buckets :
    ChargedTo(b, TRUE) > 0 =>
      spend[b] <= Max(HardLimits) - 1 + MaxInFlight * Max({Price[m] : m \in Models})
                  + ChargedTo(b, FALSE)

(* However the limit is changed and however the requests interleave, no    *)
(* minute admits more requests under a limit than the limit, as long as    *)
(* Redis answers.                                                          *)
AdmittedWithinLimit ==
  \A r \in Requests : job[r].admit # None =>
    Cardinality({q \in Requests : job[q].admit = job[r].admit}) <= job[r].admit[2]

(* A hit replays an answer that the application paid for: some request     *)
(* with the same cache key was served by the provider, by the model this   *)
(* one was routed to, and the saving recorded is what that call cost.      *)
HitsReplayPaidAnswers ==
  \A r \in Requests : \A i \in DOMAIN log[r] : log[r][i].cacheStatus = "hit" =>
    \E q \in Requests : \E k \in Bought(q) :
      /\ log[q][k].key = log[r][i].key /\ log[q][k].routed = log[r][i].routed
      /\ log[q][k].model = log[r][i].model /\ log[q][k].cost = log[r][i].saved
=============================================================================
