# Fluxen: a TLA+ verification project

Fluxen is a self-hosted gateway between applications and LLM providers. It
proxies requests under a per-application policy, records what each request
cost, finds opportunities to spend less, simulates them, applies them to the
policy, measures the effect and can revert it. The server is one Go process
(several may run side by side) on Postgres and Redis.

This directory holds TLA+ models of its core, the TLC runs that check them on
small instances, and TLAPS proofs for every instance. `PROJECT.json` maps each
definition to the lines it models and lists every run, mutant, theorem, hazard
and finding.

## Inventory

| part | state | operations | hard behaviour | what makes it correct |
|---|---|---|---|---|
| **Policy store** `internal/policy/{store,diff}.go`, `api/handler_policy.go` | a `policies` row (version, document) and `policy_history` per application | get, PUT, restore a version; `Save` is conditional on the version | several requests between their read and their save; the history has no unique key | the history is every version once; a diff describes its change; nothing unseen is replaced |
| **Apply and revert** `internal/policy/{apply,revert}.go` | rows of `policies`, `opportunities`, `measurements` | apply an opportunity, revert a measurement | three tables in separate transactions; any write may fail | one measurement per opportunity, of its own version; statuses follow the policy |
| **Opportunities** `store/opportunities.go`, `internal/detect` | `opportunities` rows with a status | upsert by detectors, review, dismiss, apply, revert | detectors, users and requests race on the status | one live row per finding; resolutions stand |
| **Simulations** `internal/sim`, `api/handler_simulations.go` | `simulations` rows | replay recorded requests under a changed policy | loops with running state: caches, budgets, floating-point sums of weights | the replay means what its scenario says |
| **Measurement** `internal/measure`, `store/measurements.go` | `measurements` rows | freeze a baseline; hourly job: interim check after 7 days, final after 14 | works from an old list; skips failing rows; may crash | verdicts are attributable; measurements conclude |
| **Policy snapshot** `internal/policy/snapshot.go` | a map per process, TTL 5 s | get, remember, invalidate, subscribe | fills race saves; messages are lost | bounded staleness; convergence |
| **Gateway** `internal/gateway`, `pkg/policy/evaluate.go` | none of its own | auth, parse, policy, restrict and route, credential, rate limit, budget, cache, invoke (unary or stream), account, emit | in-flight requests share counters; streams end in five ways; Redis fails open | one record per request; the budget counter is the cost of the finished calls |
| **Guard** `internal/guard` | counters in Redis | rate limit (fixed window), budget check and record | check before, record after; the limits change meanwhile | overspend bounded by what is in flight; no minute over its limit |
| **Exact cache** `internal/cache`, `pkg/types/cachekey.go` | entries in Redis | get, set | routing changes between the fill and the hit | a hit replays what was paid for, by the routed model |
| **Ingest** `internal/ingest`, `store/requests.go` | a channel, a batch, the `requests` table | enqueue without blocking, batch insert by size or time, drain at shutdown | full channel; failing inserts; shutdown that times out | each record in exactly one place; nothing waits for the writer |
| **Authentication** `internal/auth`, `store/apikeys.go` | key cache per process (30 s), sessions, login limiter | resolve, revoke, invalidate; sign in and out | a fill races a revocation; other nodes are not told | bounded life of a revoked key |
| **Provider credentials** `internal/credentials`, `store/providercreds.go` | encrypted rows, a snapshot per process | create (revokes the earlier one), revoke, resolve, health check | as the policy snapshot | bounded life of a replaced credential |
| **Accounts** `api/handler_{setup,users,applications,auth}.go` | organizations, users, applications, sessions | first-run setup, invite, create, archive | look-ups and inserts in separate statements; calls break off | every organization has an owner; emails and slugs name one row |
| **Detectors** `internal/detect` | none | run every 6 h, per application: four detectors, floors, rank and cap | scaling a part's savings to a month; findings stored one by one next to reviews | savings within the spend; one live row per fingerprint |
| **Rollups** `internal/rollup`, **retention** `internal/retention`, **score** `internal/score` | `request_rollup_*`, `application_daily`, `efficiency_scores`, deletions | recompute a window of hours or days; delete old rows; score a day | late rows, failing jobs, jobs that overlap | settled hours and days are exact; a score is out of a hundred |
| **Scheduler** `internal/worker` | one goroutine per job | run at once, then by ticker; errors are logged | no retry, no overlap of a job with itself | jobs run again and again |
| **Providers** `pkg/providers/{openai,gemini,ollama}`, **pricing** | stream readers | translate requests, responses, event streams; price usage | partial streams; tool results without a name | usage is what the reader saw; results reach their call |
| **Management API's other handlers, the store's other queries** | rows | listings, overviews, exports | | |
| **Health, logging, metrics, config, crypto** | none | I/O | | |
| **Process** `cmd/fluxen`, **CLI** `cmd/fluxenctl` | process life cycle | start, signal, shutdown; migrations, a manual measurement run | timeout of the shutdown; a second measurement runner | graceful stops flush |
| **Dashboard, tools, deploy** `web`, `tools`, `deploy` | outside the server | | | |

How they interact: a gateway request resolves its key (cache, Postgres), gets
the policy (snapshot, Postgres), consults Redis for guard and cache, calls a
provider and hands a record to the ingest channel; the writer stores it.
Rollups and detectors read those rows; detectors open opportunities; an API
request simulates and applies one: `Policies.Save`, `MarkApplied`, `Freeze`,
`Invalidate`, in that order and in separate transactions. The measurement job
reads the stored requests and concludes measurements; `revert` goes back through
`Policies.Save`, `MarkReverted` twice and `Invalidate`. Invalidation is a
local drop and a Redis publish.

## Modules

| module | models | state | actions |
|---|---|---|---|
| `PolicyDocument` | `pkg/policy/document.go`, `policy/diff.go` | - | documents as functions from controls to settings; `Valid`, `Changed`, `Diff`, `WithRouting` |
| `PolicyLog` | the promise: a log of atomic changes | `log` | `Edit`, `ApplyRouting`, `Restore` |
| `PolicyStore` | the store with its four kinds of requests | `policy`, `history`, `req` | one per database call of each request: `OpenEditor`, `SubmitEdit`, `LoadForEdit` (PUT), `LoadForApply`, `BeginRestore`, `BeginUndo`, `LoadForRevert`, and `CommitSave`, `ConflictSave`, `Abandon` |
| `PolicySnapshot` | the cache of each process | `current`, `behind`, `cache`, `read`, `write`, `invalidated`, `inTransit` | `Miss`, `Query`, `Remember`, `QueryFails`; `Save`, `Invalidate`, `Publish`, `ReturnEarly`; `Receive`, `Restart`, `Tick` |
| `ChangeLoop` | opportunity, apply, measure, revert | `clock`, `versions`, `opportunities`, `simulated`, `measurements`, `req`, `job` | one per table access of `Applier.Apply`, `Reverter.Revert` and `measure.Runner.Run`; `Detect`, `Review`, `Dismiss`, `Simulate`, `EditPolicy`; `Fail`, `SkipRow`, `CrashRun` |
| `Ingest` | emit, queue, writer, insert, shutdown | `request`, `queue`, `batch`, `writer`, `server`, `stored`, `dropped`, `discarded` | `Accept`, `Emit`; `Receive`, `FlushTick`, `BeginDrain`, `Drain`, `EndDrain`, `Insert`; `Shutdown`, `StopWriter`, `ShutdownTimesOut`, `ListenFails`, `Exit` |
| `Gateway` | one application's requests in flight | `policy`, `now`; `counter`, `spend`, `cache` (Redis); `job`, `log` | `Refuse`, `Start`, `RateLimit`, `CheckBudget`, `Lookup`, `CallUnary`, `CallStream`, `Charge`, `Store`; `Publish` and `Tick` around them |
| `ProviderStream` | the three stream readers | - | automata: `OpenAIRead`, `GeminiRead`, `OllamaRead`; `StreamEnds`, the ends they allow |
| `ReadThrough` | key resolver, credential snapshot, capture setting | `kind`, `truth`, `held`, `fetch`, `notices` | `Hit`, `Miss`, `Fill`, `FetchFails`, `Clear`; `ChangeKey`, `ChangeCredential`, `ChangeSettings`, `Invalidate`, `Lose` |
| `Accounts` | setup, sign-in, invitations, applications | `orgs`, `users`, `sessions`, `apps`, `call` | one per statement of each handler, `BreakOff` after any |
| `Dialogue` | a conversation with tools over three providers | `transcript`, `ids`, `sent` | `Ask`, `Serve`, `Reject`, `AnswerCall` |
| `Jobs` | both rollups, retention, the writer's insert | `hour`, `inserted`, `requests`, `hourly`, `daily`, `job` | `InsertRow`, `Execute`, `AggregateHourly`, `AggregateDaily`, `CommitRollup`, `RollBack`, `EnforceRequests`, `NextHour` |
| `Replay`, `Simulations` | `internal/sim`; its handler | `recorded`, `simulation` | pure operators as folds; `Record`, `Simulate` |
| `Findings`, `Detection` | `internal/detect`, `internal/score`; what is stored | `workload`, `now`, `opps`, `pending`, `score` | pure operators; `RunDetectors`, `Persist`, `PersistFails`, `ScoreDaily`, `MarkReviewed`, `MarkDismissed`, `EnforceOpportunities` |
| `PolicyStoreProofs`, `ChangeLoopProofs`, `PolicySnapshotProofs`, `IngestProofs`, `GatewayProofs`, `ControlPlaneProofs`, `AnalysisProofs` | proofs | | |
| `SumProofs` | the lemmas on finite sums and orders they share | | |
| `MC...` | instances for TLC | | |

`Gateway` takes its stream ends from `ProviderStream`; `Simulations` and
`Findings` share `Replay`, as the code's detector calls the simulator;
`Detection` stores what `Findings` computes. `MCControlPlane` puts the modules
from `ReadThrough` to `Detection` side by side. They share no state, so their
interleaving would only multiply states: `focus`, chosen at the start, says
which of them a behaviour is about, and the others keep still.

`PolicyStore` has the documents and no opportunities; `ChangeLoop` has the
opportunities and takes from `PolicyStore` that `Save` appends version after
version (`HistoryCorrect`), so that the current version is the number of
history rows; `PolicySnapshot` has versions only. A definition with a suffix
(`VersionMatches_Unchecked`) is a mutated form of the definition after it: a
plausible bug under which the property named with it in `PROJECT.json` fails.

### Abstractions

* A policy document has a few controls with a few settings, one of which
  validation rejects; `Validate` looks at one control at a time in the code.
* A Postgres transaction is one step, an SQL condition its guard; two
  transactions are two steps. Partial unique indexes are guards.
* `Abandon`, `Fail`: a database error, a client that goes away and a crash all
  end a request where it stands. What it wrote stays.
* A measurement's verdict is conclusive (successful, partial, no effect,
  regressed) or inconclusive; the traffic decides, unless a later change before
  the end of the window forces inconclusive (`Runner.check`). The code tests
  `changed_at`, which Postgres takes when the saving transaction begins: in the
  tick of its commit or in the one before. `VerdictsAreAttributable` is about
  the versions committed before the window's end. One whose transaction
  straddles the end may or may not be seen by the check.
* In `PolicySnapshot` time passes in ticks and every value carries its age.
  `ReadTime` bounds the time between a query's snapshot of the database and the
  cache fill: the code sets no timeout of its own there, so the bound is an
  assumption about the scheduler and the connection, and the staleness bound is
  `TTL + ReadTime`.
* `loadPolicy` fails open: a query error serves the request without a policy.
  `StalenessBounded` is about the versions served, not about that case.
* `Gateway`: usage is 0 or one unit; minutes lie in one month; the policy is
  read from the current version or, when the load fails, is empty. Reading an
  older cached version is `PolicySnapshot`'s subject. A provider's stream is the
  set of ends its reader allows: the loop in between touches nothing shared. A
  Redis call that errors may or may not have had its effect. Nothing in the code
  bounds the requests in flight: `MaxInFlight` is the bound in which
  `OverspendIsBounded` is stated. `understood` is history: it is set when a
  request was authenticated and parsed, and no step reads it. Two exits without
  a record are not in the model: that of a server that cannot stream
  (`stream.go:23-28`, `handler_openai_chat.go:207-211`), which the code calls
  unreachable and no middleware of `server.go` makes reachable, as none wraps
  the `ResponseWriter`; and a panic of the handler, which chi's `Recoverer`
  catches.
* `ReadThrough`: a row is a number. A query and its fill take at most
  `MaxFetch`, as in `PolicySnapshot`.
* `Accounts`: passwords and cookies are left out; a handler that fails, is
  refused by a unique index or dies is `BreakOff`.
* `Dialogue`: content is a kind. Generation parameters, tool declarations,
  response formats, arguments and wording are left out.
* `Jobs`: what a rollup adds up is the count of rows; `Slacks` says how late a
  row may be inserted and how long a job may go without a successful run. The
  hourly look-back covers two hours, so exactness is stated for lag and gap of
  together at most one: an outage longer than the look-back leaves hours without
  a rollup, and the code has no catch-up.
* `Replay`, `Findings`: money is an integer in the unit of the catalog's price,
  one price for input and output; z-scores are hundredths and error rates whole
  percents; the five-percent floor is taken on the rounded amounts.
* `Replay`: the weight and the accumulator of a model mix are float64s, as in
  the code. A weight is a number of units of its last place, `Significand *
  scale` of which make 1; all sums of weights are whole numbers of that unit,
  and `Rounded` does with one what IEEE 754 addition does (to the nearest
  number with as many binary digits, of two the even one). `Significand` is a
  constant, 2^52 for float64: the theorem is about every precision, the run
  about five binary digits. A simulation tied to an opportunity replays that
  opportunity's window, here the default window.

## Runs

| run | instance | shows |
|---|---|---|
| `policy_store` | 2 requests, 2 controls, 3 settings (1 rejected), versions up to 3 | the 9 properties of the store, and that it implements `PolicyLog` |
| `change_loop` | 2 requests, 1 finding, 2 opportunities, 3 versions, everything always due (windows and clock 0) | one live row per finding, one measurement per opportunity, versions and statuses agree, resolutions stand |
| `change_loop_fair` | 1 request, 1 opportunity, 3 versions, windows of 1 and 2 ticks, clock to 2 | verdicts are attributable; measurements conclude |
| `policy_snapshot` | 2 processes, 1 reader each, 1 writer, versions up to 2, TTL 1, query time 1 | bounded staleness, what brings old documents back, convergence |
| `ingest` | 4 requests, 1 malformed, channel of 2, batch of 2 | each record in one place, drain at a graceful stop, no request waits, no record stays |
| `gateway` | 3 requests, 2 in flight, 3 models (one routed to, one local), 2 policies published one after the other, 2 minutes, 1 fault | one record per request, the budget counter against the records, bounded overspend, admission within the limit, hits that were paid for |
| `control_plane` | see below | how old cached answers get, whole accounts, tool results at their call, exact rollups, replays that mean their scenario, findings within the spend, distinct findings |
| `detect_rerun` | one application with a burst, 3 hours | violated: the same burst is found twice under two fingerprints |
| `change_loop_resolved_apply` | | violated: an apply of a resolved opportunity changes the policy before it is refused |
| `change_loop_lifecycle` | | violated: the job takes a measurement out of `reverted` |
| `policy_snapshot_race` | | violated: an overtaken query undoes `Invalidate` |
| `ingest_shutdown` | | violated: a shutdown that times out loses the channel |

Why these bounds are enough to see the interesting cases:

* *policy_store*: two requests suffice for every race on one row, since a save
  depends on one version only; three versions allow an apply, an edit and the
  undo of the apply. Clients save under the version they read (`Pipelining =
  FALSE`, as the dashboard does).
* *change_loop*: three versions hold an apply, its revert and another apply;
  two opportunities let a resolved finding be found again. Time plays no part in
  these properties: with windows of 0 the job may check at any moment, which
  only adds interleavings. Verdicts are checked in the other run, with both
  windows apart and saves that straddle their ends.
* *policy_snapshot*: the run with a writer in one process and a reader in the
  other is among those with two of each; a second version is the first that
  can be older than an invalidated one. The theorems cover the rest.
* *ingest*: four records fill the channel and the batch together while the
  writer is inserting, so that one is dropped, and leave a malformed one in a
  batch with a good one.

* *gateway*: two requests in flight are enough for one to spend between the
  other's check and charge, a third comes after both. The first policy has a
  hard budget of one unit and a rate limit, the second a soft one by the month,
  routing, a cache and another limit: the published change meets requests
  admitted under the first. A day is one minute, so the budget's period turns
  while a request runs.
* *control_plane*, caches: 2 nodes, 2 reads under way, TTL 1, fetch 1, 2 writes,
  clock to 3: a fill that a write overtakes and that then expires. Accounts: 2
  callers, 2 organizations, 3 users, 2 applications: two setups, two equal
  invitations and two equal slugs race. Dialogue: 6 messages with 2 tools and up
  to 2 calls at a time, any provider at every turn. Jobs: days of 4 hours, 9
  hours, 2 rows. Simulations: 4 recorded rows at instants 0 to 3, of which 3 are
  replayed, TTLs 0 to 2, caches of any size or of one entry, budgets at and
  beside a row's cost, weights of which 1/2 and 3/4 are summed exactly and 21/64,
  three times, rounds up to 1. Detection: 18 workloads of six requests, with a burst or
  with grown prompts, two hours, two rows, runs that fail half way.
  Symmetry is over the nodes, callers and tools and over the reads and emails,
  none of which any definition tells apart.
* Invariants of `control_plane` fall under single changes of the code that only
  matter after several steps: a hit that renews its entry, a look-back one hour
  short, a tool's name looked up in the last message only, an accumulator that
  forgets what is left of a sum (`mutants`).

Deadlock is checked where the system never stops. `Ingest` stops
when the process has exited; `ChangeLoop`, `Gateway` and the modules of
`MCControlPlane` stop at their bounds, when every request is answered and the
clock is at its end, so their cfgs turn the check off.

### Fairness

* `ChangeLoop!JobFairness`: the scheduler starts the job every hour
  (`worker/scheduler.go:67-81`), so the clock, `StartRun` and `EndRun` are
  weakly fair. A row's steps are strongly fair, each row for itself: a crash or
  a failing query (`SkipRow`, `CrashRun`) may end every single run, but not
  always at the same step of the same row. With fairness of the steps alone and
  not of the rows, TLC shows that one row may starve behind another.
* `PolicySnapshot!FairSpec`: time passes, and a goroutine that holds a query's
  result gets to store it. Messages, writers and restarts are not fair.
* `Ingest!FairSpec`: handlers go on. The writer's own fairness is the
  hypothesis of `RecordsReachTheDatabase` alone; `RequestsNeverStall` holds
  with a writer that never runs.

## Proofs

Every theorem holds for all values of the constants that meet the assumptions
named with it. An invariant is proved from an inductive one, which the section
names; the steps of its proof follow the disjuncts of the next-state relation.

`PolicyStoreProofs` (any controls, settings, requests and bound):

* `TypeCorrect`; `HistoryCorrect` (`HistoryIsTheVersions`);
  `HistoryOnlyGrowsCorrect`; `DiffsCorrect`; `AppliesKeepOtherControlsCorrect`;
  `StoredDocumentsAreValidCorrect`; `NothingUnseenIsReplacedCorrect`;
  `RequestsHoldCommittedDocumentsCorrect`; `ConflictsAreRealCorrect`;
  `PolicyLogImplemented`, the refinement.
* The argument: `HistoryIsTheVersions` alone is not inductive for the diffs or
  the refinement, because a request carries documents between its steps. The
  inductive invariant adds `RequestsHoldCommittedDocuments`: the version and
  document a request saw belong together, its diff's base is current as long as
  its save can still commit, its target is legal for its kind. Given that, a
  committing save replaces exactly the document its diff was computed from, and
  one that is refused was overtaken.
* Assumptions: `DocumentAssumption` (the empty document is valid) and, for what
  depends on the version a PUT is sent under, `~Pipelining`.

`PolicySnapshotProofs` (any processes, readers, writers, versions, TTL, query
time):

* `TypeCorrect`, `StalenessCorrect` (`StalenessBounded`), `OvertakenCorrect`
  (`StaleEntriesWereOvertaken`).
* The argument: a query's version was superseded no longer ago than the query
  is old (`QueriesAreYoung`), an entry's no longer than its age plus one query
  (`EntriesAreYoung`), and the current version not at all. A query that was not
  overtaken holds the current version (`CurrentUnlessOvertaken`), so what it
  leaves is as new as anything invalidated.

`ChangeLoopProofs` (any requests, findings, opportunities, versions, windows,
clock):

* `TypeCorrect`, `OneLiveRowCorrect` (`OneLiveRowPerFinding`),
  `ResolutionsStandCorrect`, `MeasuredAtMostOnceCorrect`,
  `MeasurementsNameTheirApplyCorrect`, `StatusesFollowThePolicyCorrect`,
  `VerdictsAreAttributableCorrect`.
* Types: a request and the job name rows that exist (`RequestsKnowTheirRows`,
  `JobKnowsItsRow`).
* Measurements and statuses: the properties speak of rows, and a request is
  between its writes when it makes them. `LoopInv` adds what it has done by
  then: an apply that marks or freezes has its version in the history
  (`AppliesAreSaved`), a revert that marks has saved a later one
  (`RevertsAreSaved`), a measured opportunity is applied or reverted
  (`MeasuredAreResolved`), and an apply that is about to freeze is the only one
  there and finds no measurement (`FreezingAreUnmeasured`). Every step but five
  changes none of it (`QuietStep`); each of the five writes has its lemma.
* Verdicts: `TimeInv` says that no committed version lies in the future and
  that a conclusive verdict which the job still carries is attributable; a
  version committed after the check is committed after the window's end.
* Assumptions: `WindowAssumption`, `BoundAssumption`.

`IngestProofs` (any requests, malformed records, channel and batch sizes):

* `TypeCorrect`, `OnePlaceCorrect` (`EveryRecordIsInOnePlace`),
  `GracefulStopCorrect` (`GracefulStopFlushesAll`).
* `OnePlaceCorrect` counts places, and a step moves one record or a whole
  batch. `IInv` says what a move has to know: channel and batch hold no record
  twice and share none (`RecordsAreDistinct`), what has left them is in one of
  three disjoint sets (`EndsAreDisjoint`), and the finished requests are exactly
  the records in one of the five (`DoneAreAccounted`). A writer about to receive
  has room (`BatchHasRoom`).
* The graceful stop is about the order of three parties: the writer drains only
  once it is cancelled (`DrainsAfterCancel`), it is cancelled after the last
  handler has returned (`StopsAfterServing`), and leaves the drain only with
  nothing in the channel (`DrainsToTheEnd`).

`SumProofs`: the community modules' fold of a set with `+` is a sum. Its
defining recursion has a solution on every finite set (`FoldExists`), and only
one (`FoldIsUnique`), whatever element it chooses first (`SumRemove`); from that
what one element adds or changes. Induction is over the *set* of the subsets, or
of the numbers, that have a property (`FiniteInduction`, `NumberInduction`),
which the provers can instantiate where they cannot instantiate a predicate.
`MaxFact` and `FiniteImage` are proved the same way. Two facts carry the
arguments about lists and averages:

* `CountsAreNumbers`: under a strict total order of a finite set, counting what
  is before each element numbers them 0, 1, 2 and on. So a sorted or filtered
  list is written by counting, in the model too (`Subsequence`, `RankAndCap`),
  where `SelectSeq` and `SortSeq` are recursive and the provers have no facts of
  them.
* `DearPart`: a set has of every size a part whose sum is, in proportion, no
  less than that of the whole, as leaving out the least value never lowers an
  average (`WithoutLeast`); `LargerPart`: a part can be enlarged to any size.

`GatewayProofs` (any requests, models, prices, policies, minutes, bound on the
requests in flight):

* `TypeCorrect`, `OneRecordPerRequestCorrect`: from `Base`, which gives for each
  phase of a request what it carries and what its log holds by then
  (`Waiting`, `Working`, `Finished`). A finished request that was understood
  has its record, whichever stage it left the pipeline at.
* `AdmittedWithinLimitCorrect`: a minute's counter is at least the number of
  requests it admitted under any limit, and those are no more than that limit
  (`AdmissionsAreCounted`). The counter may run ahead: refusals count, and a
  failing Redis call may have counted.
* `HitsReplayPaidAnswersCorrect`: an entry is what a stored, priced call left
  under its key (`CacheIsPaid`), and so is what a request in flight carries to
  the cache or from it.
* `SpendIsTheCostOfFinishedCallsCorrect`: the budget counters, what was lost in
  failing charges and what is about to be charged add up to the cost of the
  budgeted records (`Balance`). One step moves one request's share from one sum
  to another.
* `OverspendIsBoundedCorrect`: by `Overspend`. A counter is the sum of what
  requests charged to it, after a check or without one (`SpendIsCharged`). What
  was charged after a check is within the limit and one most expensive call for
  each request in flight, and stays so even when all that have passed the check
  and are yet to charge cost the most (`PendingWithin`). A request that passes
  the check found the counter below the limit, which is where the room comes
  from; a new day's counter is empty (`TomorrowIsEmpty`).
* Assumptions: `GatewayAssumption`, `NoneIsNoCharge`.

`ControlPlaneProofs`, on the modules that `MCControlPlane` puts side by side:

* `AnswersAreRecentCorrect`, of the caches of keys, credentials and the capture
  setting alike (any nodes, readers, writes, TTLs and fill time). The property
  speaks of one moment; `RInv` says when what a node holds ended. A value under
  way to a fill was in force when its read began, or later, and the read is no
  older than a fill may take (`FetchesAreYoung`). An entry's value was in force
  a TTL and a fill before the entry expires (`EntriesAreYoung`). Neither ended
  before what its node was told of while no read was under way. Assumption:
  `ReadThroughAssumption`. The time a fill may take is the assumption `ReadTime`
  is for `PolicySnapshot`.
* `AccountsAreWholeCorrect` (any callers, emails, names and numbers of rows).
  `AInv` adds what a handler between two statements holds (`Holding`): the
  organization of a row it is about to insert exists, a user it is about to
  sign in is stored. An insert then needs only its unique index. An
  organization's number is new because the earlier ones have no gap
  (`OrgsAreNumbered`), and one without an owner has a caller about to insert
  it, who records the organization if the call breaks off.
* `ToolResultsReachTheirCallCorrect` (any tools, contents and bounds). `TalkInv`:
  an id names one call, of an assistant's message before every result that
  answers it, and what was sent was built from such a transcript, of which the
  present one is a continuation. What a provider gets is a flattened list, so
  the proof rests on where a part of a sequence of sequences ends up
  (`FlattenPlaces`), which is an induction over the fold (`FlatExists`).
* `SettledHoursAreExactCorrect` (any hours and rows, days of four hours on, any
  retention), under `SlackIsAnHour`: the lag of a row and the gap between two
  runs together are at most an hour. `JInv`: an entry of the hourly table is
  exact once the last run that committed began after the hour's last row could
  come, and so are the sums that a run under way holds from its snapshot; the
  daily table is exact for the days whose hours have all left the look-back. No
  run is so late that retention has deleted what it adds up
  (`NothingIsMissing`).

`AnalysisProofs`, on the simulations (any recorded rows, prices, cap, TTLs,
sizes, limits, weights and precision of their sums):

* `ReplayMatchesItsDefinitionCorrect`. The state is easy, since a simulation is
  created in one step; the work is that each loop computes what its scenario
  means. The library's fold from the left chooses a function on the sets of
  places; one exists (`IterExists`), and it runs through the places in order
  (`BudgetRun`, `MixRun`, `CacheRun`). Then an invariant holds of each run.
* The budget (`BudgetFact`): a period's counter is all that was spent in it
  until that reaches the limit, and stays at the limit or above from then on.
* The mix (`MixFact`): what the accumulator holds and one for each request moved
  add up to the weight times the matches, but for half of `scale` (the distance
  of the numbers from 1 on) for each addition (`Balanced`). A sum of at most two
  stays at most two when it is rounded, is off by no more than that, and not at
  all if it is a multiple of `scale` (`RoundedFact`, from `SpacingDivides`).
* The cache (`CacheFact`, from `CacheInv`): the list holds the keys in the order
  of their last use, and each expires a TTL after the last request that filled
  it. A key used but no longer held was put out when the list was full, so every
  key that is held was used since. Hence a key is held exactly if fewer others
  than the cache has entries were used since its last use, since the list holds
  each key once (`HeldCount`). `KeylessStep`, `HitStep` and `MissStep` are the
  three ways a fact goes.
* What is replayed are recorded rows: the cap's stride stays within them
  (`StrideFact`) and so does the window (`WindowFact`).
* Assumptions: `ReplayAssumption` (`Powers` are the powers of two up to some
  bound), `SimulationsAssumption` (rows and scenarios are numbers; a weight is a
  number of that precision).

and on the stored findings (any workloads, prices, catalog, downgrades, floors,
cap, TTLs and number of rows):

* `LiveFindingsAreDistinctCorrect` (any traffic and number of rows). `DInv` adds
  only that the table holds rows; an insert finds no live row of its
  fingerprint, and no other write makes a resolved row live.
* `FindingsAreWithinSpendCorrect`. `FindingsAreKept`: every stored finding, and
  every one a run has yet to store, is one that the workload justifies (`Honest`)
  and that cleared the floors (`Kept`); a score's parts and their mean are out of
  a hundred (`ScoreIsSound`). A step changes rows to findings of the pending run
  or not at all, so the work is in what each detector returns.
* A cheaper model (`BuildCandidateFact`): what is saved on the `k` requests that
  could move, scaled by the split of `min(2k, n)` out of `2k`, is at most what
  the costliest half of the `n` costs: a half that holds the `k`, or the dearest
  half of them (`HalfFact`). Rounding keeps the order (`RoundMonotone`); a common
  factor must cancel first, as `RoundDiv` rounds half away from zero
  (`RoundScaled`). The half costs no more than the group (`DearestFact`), so
  savings are within the spend.
* A cache (`RepeatedIsHonest`): the detector calls the simulator, and by
  `CacheFact` what it leaves to pay is the cost of the rows that do not hit, so
  never below zero (`SweepFact`).
* Tokens (`DriftFact`): growth of the tokens of a request is part of the tokens
  spent now. `TokenFloor > 0` keeps the divisor from being zero.
* Ranking and the cap only choose among the candidates (`RankAndCapFact`).
* Assumptions: `FindingsAssumption` (finite catalog and TTLs, floors and counts
  that are numbers) and `WorkloadsAssumption` (costs and tokens are never below
  zero), beside those of the modules they use.

Only model-checked:

* `Converges`, `MeasurementsConclude`, `RequestsNeverStall`,
  `RecordsReachTheDatabase`: liveness under fairness is outside what the prover
  does.
* The five violations, which are counterexamples.

## Divergences

Shown by a run: the five violations above (`findings` in `PROJECT.json` quotes
the lines). Noticed while modelling, without a run:

* A PUT sent under the version its predecessor *will* get commits with a diff
  against a document it did not replace: `handler_policy.go:72` reads the base
  outside the conditional save (`Pipelining = TRUE`).
* `Reverter.Revert` reverts a measurement of any status;
  `docs/api-reference.md:47` says "only valid once `regressed`".
* A revert that fails between its two `MarkReverted` leaves a reverted
  opportunity with a live measurement, which no retry repairs;
  `store/measurements.go:234-235` says both record it.
* `RealizedSavings` counts interim verdicts; `docs/concepts.md:18` says final.
* A dismissed finding is opened again by the next detector run, against the
  Implementation Plan, line 456.
* An apply that fails after its save skips `Invalidate` (`apply.go:136-147`);
  the comment at `apply.go:68-72` lists it as always following. The snapshot
  runs include it (`ReturnEarly`).
* A pgx v5 batch is one implicit transaction: one refused record takes the
  batch with it, against the comment at `store/requests.go:52-55`. `Ingest`
  models what the library does (`Outcomes`).
* No code sets the statuses `simulated` and `stale` of an opportunity.

Of the gateway:

* A stream that is aborted, or ends without usage, is recorded with cost 0 at
  OpenAI, which sends usage last; `stream.go:67-68` says it is still accounted.
  What an aborted stream did use is recorded and never charged to the budget.
* `usage_source` is always `provider` (`pipeline.go:141`), though
  `openai/translate_request.go:24-26` promises `estimated`.
* A unary request may hit an entry stored from a stream and is sent its events.
* A deadline or a client's cancellation met while reading is recorded as a
  provider error. An OpenAI stream cut off by a clean close is `ok` and cached.
* A unary answer is priced by the model the answer names: a dated name that the
  catalog does not list has no price, and its cost is not charged.

Of detection, simulation and the jobs:

* `MaxOpenOpportunitiesPerApp` caps one run, not the open rows. Anomalies rank
  last, having no savings: five candidates with savings suppress them.
* Two detector windows of one burst are two findings (`detect_rerun`).
* The model-mix simulation moves requests the detector found ineligible, so the
  two disagree on one recommendation; the caching simulation of the handler
  replays failed rows and cache hits, which the detector's does not, against
  "reproducible by running that same simulation by hand" in `repeated.go`.
* `modelmix.go:53-56` says that a mix reroutes `round(TrafficWeight × matched)`
  requests. It reroutes the weight's share rounded down: of one request under
  weight 0.75 none, of two one, where rounding gives one and two. The property
  states what the code does.
* Nor is that always the share rounded down. Adding the weight 0.1 ten times
  stays below 1 in float64, and one request fewer is moved; the bound of
  `MovesAShare` allows it.
* The default window of a simulation is 14 days and the current one, 15 in all
  (`handler_simulations.go:299`). `SelfCheck` runs only in tests.
* In an anomaly's evaluation an hour without traffic counts 0, in its baseline
  it is absent. Retention shorter than 28 days starves detectors and score,
  while the floors, which read the rollups, still pass.
* A rollup job that is down for longer than its look-back leaves hours without a
  rollup for good.

Of translation and accounts:

* Streamed tool calls carry no `index`, and `finish_reason` is `stop` when the
  calls came in an earlier event. A tool's result loses its call's id at Ollama.
  A message with nothing but a remote image becomes one without parts at Gemini.
* Two overlapping first-run setups both succeed and leave two organizations;
  `handler_setup.go:40-43` says it is callable once. A setup that fails after it
  created the organization leaves one without an owner and can never be
  repeated. Neither contradicts `AccountsAreWhole`, which excepts the latter.
* The same email may exist in two organizations, of which sign-in finds one.
* A health check records the active credential's result on the row it was
  asked about, a revoked one included.

## Plan

1. *Done:* policy store with its log; the change loop; the snapshot; ingest.
2. *Done:* gateway with guard, cache and stream readers; the read-through
   caches; accounts; dialogues; rollups and retention; simulations; detectors
   and score.
3. *Done:* proofs of every safety invariant and action property that a passing
   run checks.
4. *Left:* **a second measurement runner** (`fluxenctl measure check`): `ChangeLoop`'s
   job as a function of the runner, with its proofs.

### Not modelled

Listings, overviews and exports (they only read); the login limiter, password
hashing, cookies, encryption; configuration, logging, metrics and health; the
migration runner and the schema beyond the unique indexes that appear as guards;
generation parameters, response formats and the wording of errors; the
arithmetic of a verdict; the dashboard and the tools. Floating-point rounding is
modelled in the model mix and replaced by exact arithmetic elsewhere. `PROJECT.json` gives the reason for each
component.

## Running

    tlc -workers 2 -config MCPolicyStore.cfg MCPolicyStore
    tlapm PolicyStoreProofs.tla
