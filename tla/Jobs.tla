--------------------------------- MODULE Jobs ---------------------------------
(***************************************************************************)
(* The background jobs that turn request rows into the rollups everything  *)
(* else reads, and the one that deletes rows: rollup.hourly, rollup.daily  *)
(* and retention.enforce under worker.Scheduler.                           *)
(*                                                                         *)
(* Time is counted in hours.  A row carries the hour its request started   *)
(* in and is inserted when the ingest writer gets to it, Slack.lag hours   *)
(* later at most.  A day has HoursPerDay hours.  What is added up (tokens, *)
(* cost, errors) is one number, the count of rows.  Bodies, which the      *)
(* retention job clears by the same rule, are left out.                    *)
(***************************************************************************)
EXTENDS Integers, FiniteSets, FiniteSetsExt, Functions

CONSTANTS
  HoursPerDay,
  LastHour,      \* bound: the last hour of the model
  MaxRows,       \* bound: rows inserted
  Slacks,        \* what the deployment may be off by: [lag, gap]
  RetentionDays, \* values of requests_retention_days
  NoRun          \* a job that is not running

ASSUME JobsAssumption ==
  /\ {HoursPerDay, LastHour, MaxRows} \subseteq Nat /\ HoursPerDay >= 4
  /\ Slacks \subseteq [lag : Nat, gap : Nat]
  /\ RetentionDays \subseteq Nat \ {0}

RollupHours == 0..LastHour
RollupDays == 0..(LastHour \div HoursPerDay)
DayOf(h) == h \div HoursPerDay

VARIABLES
  hour,
  slack,       \* which of Slacks this deployment keeps to
  inserted,    \* history: rows ever inserted, per hour they started in
  requests,    \* table requests: rows present, per hour
  hourly,      \* table request_rollup_hourly
  daily,       \* tables request_rollup_daily and application_daily
  job,         \* [rollup job -> the run under way, or NoRun]
  lastRun      \* history: the hour the last committed run of a job began in

jobVars == <<hour, slack, inserted, requests, hourly, daily, job, lastRun>>

RollupJobs == {"hourly", "daily"}
SumOver(table, keys) == FoldFunctionOnSet(LAMBDA a, b : a + b, 0, table, keys)

JobsInit ==
  /\ hour = 0
  /\ slack \in Slacks
  /\ inserted = [h \in RollupHours |-> 0]
  /\ requests = inserted
  /\ hourly = inserted
  /\ daily = [d \in RollupDays |-> 0]
  /\ job = [j \in RollupJobs |-> NoRun]
  /\ lastRun = [j \in RollupJobs |-> 0]

-----------------------------------------------------------------------------
(* HourlyWindow, DailyWindow: the keys a run recomputes, fixed when it     *)
(* begins.                                                                 *)
HourlyWindow_Short(now) == {h \in RollupHours : h \in now - 1..now}
HourlyWindow(now) == {h \in RollupHours : h \in now - 2..now}
DailyWindow(now) == {d \in RollupDays : d \in DayOf(now) - 1..DayOf(now)}

(* The writer's INSERT. *)
InsertRow(h) ==
  /\ h \in hour - slack.lag..hour
  /\ SumOver(inserted, RollupHours) < MaxRows
  /\ inserted' = [inserted EXCEPT ![h] = @ + 1]
  /\ requests' = [requests EXCEPT ![h] = @ + 1]
  /\ UNCHANGED <<hour, slack, hourly, daily, job, lastRun>>

(* execute: a job's own goroutine runs it at boot and at every tick, never *)
(* twice at a time.                                                        *)
Execute(j) ==
  /\ job[j] = NoRun
  /\ job' = [job EXCEPT ![j] = [began |-> hour, sums |-> NoRun,
                                window |-> IF j = "hourly" THEN HourlyWindow(hour) ELSE DailyWindow(hour)]]
  /\ UNCHANGED <<hour, slack, inserted, requests, hourly, daily, lastRun>>

(* The INSERT ... SELECT of a run sees the rows committed by then.  Its    *)
(* DELETE and INSERT show to others only with the commit.                  *)
AggregateHourly ==
  LET run == job["hourly"]
  IN /\ run # NoRun /\ run.sums = NoRun
     /\ job' = [job EXCEPT !["hourly"].sums = [h \in run.window |-> requests[h]]]
     /\ UNCHANGED <<hour, slack, inserted, requests, hourly, daily, lastRun>>

(* ComputeDaily reads the hourly table, and application_daily then reads   *)
(* what it has just written.                                               *)
AggregateDaily ==
  LET run == job["daily"]
  IN /\ run # NoRun /\ run.sums = NoRun
     /\ job' = [job EXCEPT !["daily"].sums =
          [d \in run.window |-> SumOver(hourly, {h \in RollupHours : DayOf(h) = d})]]
     /\ UNCHANGED <<hour, slack, inserted, requests, hourly, daily, lastRun>>

Rewritten(table, run) == [k \in DOMAIN table |-> IF k \in run.window THEN run.sums[k] ELSE table[k]]

CommitRollup(j) ==
  LET run == job[j]
  IN /\ run # NoRun /\ run.sums # NoRun
     /\ hourly' = IF j = "hourly" THEN Rewritten(hourly, run) ELSE hourly
     /\ daily' = IF j = "daily" THEN Rewritten(daily, run) ELSE daily
     /\ job' = [job EXCEPT ![j] = NoRun]
     /\ lastRun' = [lastRun EXCEPT ![j] = run.began]
     /\ UNCHANGED <<hour, slack, inserted, requests>>

(* A statement fails, or the process stops: the transaction leaves         *)
(* nothing.  The next tick, or the restart, runs the job again.            *)
RollBack(j) ==
  /\ job[j] # NoRun
  /\ job' = [job EXCEPT ![j] = NoRun]
  /\ UNCHANGED <<hour, slack, inserted, requests, hourly, daily, lastRun>>

(* EnforceRequests, with whatever window the settings hold at that moment. *)
EnforceRequests ==
  /\ \E days \in RetentionDays :
       requests' = [h \in RollupHours |-> IF h < hour - days * HoursPerDay THEN 0 ELSE requests[h]]
  /\ UNCHANGED <<hour, slack, inserted, hourly, daily, job, lastRun>>

(* The deployment keeps to its slack: no job goes more than slack.gap      *)
(* hours without a run that began in them and committed.                   *)
NextHour ==
  /\ hour < LastHour
  /\ \A j \in RollupJobs : hour - lastRun[j] <= slack.gap
  /\ hour' = hour + 1
  /\ UNCHANGED <<slack, inserted, requests, hourly, daily, job, lastRun>>

JobsNext ==
  \/ \E h \in RollupHours : InsertRow(h)
  \/ \E j \in RollupJobs : Execute(j) \/ CommitRollup(j) \/ RollBack(j)
  \/ AggregateHourly \/ AggregateDaily \/ EnforceRequests
  \/ NextHour

JobsSpec == JobsInit /\ [][JobsNext]_jobVars
-----------------------------------------------------------------------------
(* Incremental recomputation is exact: whatever rows come late, runs fail, *)
(* overlap the change of the hour or read what another is about to         *)
(* replace, and rows are deleted meanwhile, an hour that has left the      *)
(* hourly look-back and a day that has left the daily one hold every row   *)
(* that was ever inserted for them, as long as lag and gap together stay   *)
(* within an hour.                                                         *)
SettledHoursAreExact ==
  /\ \A h \in RollupHours : h < hour - 2 => hourly[h] = inserted[h]
  /\ \A d \in RollupDays : d < DayOf(hour) - 1 =>
       daily[d] = SumOver(inserted, {h \in RollupHours : DayOf(h) = d})
=============================================================================
