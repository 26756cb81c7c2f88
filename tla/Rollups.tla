------------------------------ MODULE Rollups -------------------------------
(***************************************************************************)
(* The maintenance cycle of hsme-ops (src/observability/maintenance.go,    *)
(* cmd/ops/main.go): count the traces of each minute, add the minutes of   *)
(* each hour, delete what is older than the retention.  Every bucket is a  *)
(* transaction that also moves the checkpoint of its job; the checkpoint   *)
(* is read before, outside of it.  The cycle runs in a loop, by hand and   *)
(* from timers, so two processes may be at it at once; meanwhile the MCP   *)
(* server and the workers insert traces, each a little after it started.   *)
(*                                                                         *)
(* Time is a number of ticks, of which a minute has several.  The first    *)
(* tick of a minute is its first second: times are compared as RFC3339Nano *)
(* text, which drops a zero fraction, and '.' sorts before 'Z', so that    *)
(* "10:07:00.5Z" is less than "10:07:00Z" and a trace of that second is    *)
(* counted in the minute before.                                           *)
(*                                                                         *)
(* The hour to day job is the same code one level up and is left out, and  *)
(* so is everything a bucket holds besides its total_count.                *)
(***************************************************************************)
EXTENDS Integers, FiniteSets, FiniteSetsExt

CONSTANTS
  Ops,           \* processes of hsme-ops
  Minute, Hour,  \* ticks of a bucket of either level
  RawRetention,    \* how far back the catch-up of the minutes looks, in ticks
  MinuteRetention, \* and that of the hours (the configuration's retention days)
  RawKeep,       \* ticks raw traces are kept, and minute rollups
  MinuteKeep,    \* (keep_days in obs_retention_policies, which may differ)
  MaxRun,        \* bound: ticks a maintenance cycle may take
  Horizon,       \* bound: the last tick
  MaxTraces,     \* bound: traces started
  MaxFailures    \* bound: failing operations that have rows

ASSUME RollupsAssumption ==
  /\ Minute \in Nat \ {0, 1} /\ Hour \in Nat \ {0} /\ Hour % Minute = 0
  /\ RawRetention \in Nat /\ MinuteRetention \in Nat
  /\ RawKeep \in Nat /\ MinuteKeep \in Nat /\ MaxRun \in Nat
  /\ Horizon \in Nat \ {0} /\ MaxTraces \in Nat /\ MaxFailures \in Nat

Jobs  == {"raw_to_minute", "minute_to_hour"}
Ticks == 0..Horizon
None  == -1      \* NULL, for a checkpoint

VARIABLES
  now,
  held,          \* traces that have started but are not inserted: per tick
  traces,        \* rows of obs_traces, by started_at_utc
  open,          \* those with status 'ok' of operations that will fail
  failed,        \* those with status 'error'
  minute, hour,  \* rows of obs_metric_rollups: total_count, by bucket start
                 \* (0: no row)
  errors,        \* error_count of the minutes
  checkpoint,    \* last_completed_bucket_start_utc of each job
  pc,            \* what each process of hsme-ops does
  mark,          \* the `now` its cycle started with
  cursor,        \* ts, the bucket it handles next
  ever,          \* history: traces ever inserted, by started_at_utc
  done,          \* history: minutes processed
  settled        \* history: those processed when nothing of them was to come

raw     == <<traces, open, failed>>
rollups == <<minute, hour, errors>>
rows    == <<raw, rollups, checkpoint>>
process == <<pc, mark, cursor>>
past    == <<done, settled>>
vars    == <<now, held, rows, process, ever, past>>

Counts == [Ticks -> 0..MaxTraces]

TypeOK ==
  /\ now \in Ticks
  /\ held \in Counts /\ traces \in Counts
  /\ open \in Counts /\ failed \in Counts /\ errors \in Counts
  /\ minute \in Counts /\ hour \in Counts /\ ever \in Counts
  /\ checkpoint \in [Jobs -> Ticks \cup {None}]
  /\ pc \in [Ops -> {"idle", "read", "loop", "retain"} \X Jobs]
  /\ mark \in [Ops -> Ticks]
  /\ cursor \in [Ops -> -Horizon - Hour..Horizon + Hour]
  /\ done \subseteq Ticks /\ settled \subseteq done

Size(job)    == IF job = "raw_to_minute" THEN Minute ELSE Hour
Retention(job) == IF job = "raw_to_minute" THEN RawRetention ELSE MinuteRetention
Trunc(t, n)  == (t \div n) * n
Within(b, n) == b..b + n - 1      \* bucket starts: whole seconds
TextIn(b, n) == b + 1..b + n      \* times with a fraction, as text
Sum(f, S)    == MapThenSumSet(LAMBDA t : f[t], S \cap Ticks)
Zero         == [t \in Ticks |-> 0]
Idle         == <<"idle", "raw_to_minute">>

Init ==
  /\ now = 1
  /\ held = Zero /\ traces = Zero /\ open = Zero /\ failed = Zero
  /\ minute = Zero /\ hour = Zero /\ errors = Zero /\ ever = Zero
  /\ checkpoint = [j \in Jobs |-> None]
  /\ pc = [o \in Ops |-> Idle]
  /\ mark = [o \in Ops |-> 0]
  /\ cursor = [o \in Ops |-> 0]
  /\ done = {} /\ settled = {}

Running(o) == pc[o] # Idle

-----------------------------------------------------------------------------
(* Time passes, but not so much that a cycle outlasts MaxRun.              *)
Tick ==
  /\ now < Horizon
  /\ \A o \in Ops : Running(o) => now < mark[o] + MaxRun
  /\ now' = now + 1
  /\ UNCHANGED <<held, rows, process, ever, past>>

(* StartTrace reads the clock ...                                          *)
StartTrace ==
  /\ Sum(held, Ticks) + Sum(ever, Ticks) < MaxTraces
  /\ held' = [held EXCEPT ![now] = @ + 1]
  /\ UNCHANGED <<now, rows, process, ever, past>>

(* ... and inserts the row, as 'ok', when it gets the write lock.  It      *)
(* stays 'ok' if the operation succeeds or its process dies.               *)
InsertTrace(t) ==
  /\ held[t] > 0
  /\ held' = [held EXCEPT ![t] = @ - 1]
  /\ traces' = [traces EXCEPT ![t] = @ + 1]
  /\ ever' = [ever EXCEPT ![t] = @ + 1]
  /\ \/ UNCHANGED open
     \/ /\ Sum(open, Ticks) + Sum(failed, Ticks) < MaxFailures
        /\ open' = [open EXCEPT ![t] = @ + 1]
  /\ UNCHANGED <<now, failed, rollups, checkpoint, process, past>>

(* FinishTrace writes the status, if retention has not deleted the row.    *)
FinishTrace(t) ==
  /\ open[t] > 0
  /\ open' = [open EXCEPT ![t] = @ - 1]
  /\ failed' = [failed EXCEPT ![t] = @ + 1]
  /\ UNCHANGED <<now, held, traces, rollups, checkpoint, process, ever, past>>

-----------------------------------------------------------------------------
(* runOnce: recorder.FlushRollups(ctx, time.Now().UTC())                   *)
StartCycle(o) ==
  /\ ~Running(o)
  /\ pc' = [pc EXCEPT ![o] = <<"read", "raw_to_minute">>]
  /\ mark' = [mark EXCEPT ![o] = now]
  /\ UNCHANGED <<now, held, rows, cursor, ever, past>>

(* Mutant: no catch-up, the loop starts with the current bucket.           *)
ResumeNow(job, at) == Trunc(at, Size(job))

(* The first bucket of runJobWithCatchup: the one behind the checkpoint,   *)
(* or behind the retention cutoff; the current one if there is no          *)
(* checkpoint.                                                             *)
Resume(job, at) ==
  LET n    == Size(job)
      last == IF checkpoint[job] = None THEN Trunc(at, n) - n ELSE checkpoint[job]
  IN  (IF last < at - Retention(job) THEN Trunc(at - Retention(job), n) ELSE last) + n

ReadCheckpoint(o, job) ==
  /\ pc[o] = <<"read", job>>
  /\ cursor' = [cursor EXCEPT ![o] = Resume(job, mark[o])]
  /\ pc' = [pc EXCEPT ![o] = <<"loop", job>>]
  /\ UNCHANGED <<now, held, rows, mark, ever, past>>

(* Mutant: ON CONFLICT ... DO UPDATE SET total_count = total_count + ...   *)
UpsertAdding(row, ts, n, count) ==
  IF ts \in Ticks /\ n > 0 THEN [row EXCEPT ![ts] = @ + count] ELSE row

(* Mutant: ON CONFLICT ... DO NOTHING                                      *)
UpsertFirst(row, ts, n, count) ==
  IF ts \in Ticks /\ n > 0 /\ row[ts] = 0 THEN [row EXCEPT ![ts] = count] ELSE row

(* upsertRollupBucket of a bucket with n rows; GROUP BY has no row for an  *)
(* empty bucket, and then nothing is written.                              *)
Upserted(row, ts, n, count) ==
  IF ts \in Ticks /\ n > 0 THEN [row EXCEPT ![ts] = count] ELSE row

(* One transaction: the rows of bucket ts and the checkpoint.              *)
ProcessBucket(o, job) ==
  LET ts    == cursor[o]
      inTs  == TextIn(ts, Minute)
      total == Sum(minute, Within(ts, Hour))
  IN  /\ pc[o] = <<"loop", job>>
      /\ ts <= Trunc(mark[o], Size(job))
      /\ IF job = "raw_to_minute"
         THEN /\ minute' = Upserted(minute, ts, Sum(traces, inTs), Sum(traces, inTs))
              /\ errors' = Upserted(errors, ts, Sum(traces, inTs), Sum(failed, inTs))
              /\ done' = done \cup ({ts} \cap Ticks)
              /\ settled' = IF ts + Minute < now /\ Sum(held, inTs) + Sum(open, inTs) = 0
                            THEN settled \cup {ts} ELSE settled
              /\ UNCHANGED hour
         ELSE /\ hour' = Upserted(hour, ts, total, total)
              /\ UNCHANGED <<minute, errors, past>>
      /\ checkpoint' = [checkpoint EXCEPT ![job] = ts]
      /\ cursor' = [cursor EXCEPT ![o] = ts + Size(job)]
      /\ UNCHANGED <<now, held, raw, pc, mark, ever>>

(* The loop ends behind the current bucket; the next job follows.          *)
EndJob(o, job) ==
  /\ pc[o] = <<"loop", job>>
  /\ cursor[o] > Trunc(mark[o], Size(job))
  /\ pc' = [pc EXCEPT ![o] = IF job = "raw_to_minute"
                             THEN <<"read", "minute_to_hour">>
                             ELSE <<"retain", "raw_to_minute">>]
  /\ UNCHANGED <<now, held, rows, mark, cursor, ever, past>>

(* Mutant: DELETE ... WHERE bucket_start_utc <= cutoff                     *)
WithoutUpTo(row, cutoff) == [t \in Ticks |-> IF t <= cutoff THEN 0 ELSE row[t]]

Without(row, cutoff) == [t \in Ticks |-> IF t < cutoff THEN 0 ELSE row[t]]

Stop(o) ==
  /\ pc' = [pc EXCEPT ![o] = Idle]
  /\ mark' = [mark EXCEPT ![o] = 0]
  /\ cursor' = [cursor EXCEPT ![o] = 0]

(* RunRetention(ctx, time.Now().UTC()), in one transaction.  Hours are kept*)
(* for longer than the model lasts.                                        *)
RunRetention(o) ==
  /\ pc[o] = <<"retain", "raw_to_minute">>
  /\ traces' = Without(traces, now - RawKeep)
  /\ open' = Without(open, now - RawKeep)
  /\ failed' = Without(failed, now - RawKeep)
  /\ minute' = Without(minute, now - MinuteKeep)
  /\ errors' = Without(errors, now - MinuteKeep)
  /\ Stop(o)
  /\ UNCHANGED <<now, held, hour, checkpoint, ever, past>>

(* A transaction fails (log.Fatalf) or the process is stopped.             *)
Crash(o) ==
  /\ Running(o)
  /\ Stop(o)
  /\ UNCHANGED <<now, held, rows, ever, past>>

Next ==
  \/ Tick
  \/ StartTrace
  \/ \E t \in Ticks : InsertTrace(t) \/ FinishTrace(t)
  \/ \E o \in Ops : \/ StartCycle(o)
                    \/ \E job \in Jobs : \/ ReadCheckpoint(o, job)
                                         \/ ProcessBucket(o, job)
                                         \/ EndJob(o, job)
                    \/ RunRetention(o)
                    \/ Crash(o)

Spec == Init /\ [][Next]_vars

-----------------------------------------------------------------------------
(* No aggregate is counted twice, however often a bucket is processed      *)
(* ("rerunning the same bucket does not duplicate aggregates").            *)
NeverOvercounted ==
  \A b \in Ticks :
    /\ minute[b] <= Sum(ever, TextIn(b, Minute))
    /\ hour[b] <= Sum(ever, TextIn(b, Hour))

(* A minute that was counted after its end, when all of its traces were in *)
(* the table with their final status, has its exact total until retention  *)
(* deletes the row, and its exact number of errors, also when two cycles   *)
(* overlap, one of them is killed, or the rollups had fallen behind.  (With*)
(* raw traces kept for less time than minutes, as a configuration may say, *)
(* a minute counted again loses what was deleted of it.)                   *)
SettledIsExact ==
  \A b \in settled :
    /\ b >= now - MinuteKeep => minute[b] = Sum(ever, TextIn(b, Minute))
    /\ b >= now - MinuteKeep /\ b >= now - RawKeep =>
         errors[b] = Sum(failed, TextIn(b, Minute))

(* Of a bucket whose first minute is kept no total goes down, whoever      *)
(* processes it again (runJobWithCatchup) or deletes (RunRetention): what  *)
(* is counted again is all there, as long as raw traces are kept for no    *)
(* less time than the minutes counted from them.  ("... does not duplicate *)
(* aggregates or corrupt prior totals" is more than the code does: an hour *)
(* loses what is counted again after its first minutes were deleted.)      *)
TotalsNeverShrink ==
  [][\A b \in Ticks :
       minute'[b] < minute[b] \/ hour'[b] < hour[b] => b < now - MinuteKeep]_vars

(* The catch-up leaves no gap ("no bucket is lost due to the gap"): every  *)
(* minute between the first one processed and the checkpoint has been      *)
(* processed too, unless its first traces are due for deletion.  (With     *)
(* >= in place of > this fails: when the cutoff falls on the start of a    *)
(* minute, Truncate leaves it there and the catch-up resumes behind it.)   *)
(* It takes overlapping cycles that began within a minute of each other,   *)
(* here by MaxRun: two that find no checkpoint each start with their own   *)
(* minute, and one between the two is left out.                            *)
NoMinuteSkipped ==
  \A b \in Ticks :
    /\ b % Minute = 0
    /\ \E first \in done : first < b
    /\ b <= checkpoint["raw_to_minute"]
    /\ b > now - RawRetention
    => b \in done

(* What a reader of an hour rollup expects ("aggregation of metrics per    *)
(* minute, hour and day", README.md): once the hour is over and both jobs  *)
(* are past it, its total is that of its minutes.                          *)
HourIsSumOfMinutes ==
  \A h \in Ticks :
    /\ h % Hour = 0
    /\ checkpoint["minute_to_hour"] > h
    /\ checkpoint["raw_to_minute"] >= h + Hour
    => hour[h] = Sum(minute, Within(h, Hour))
=============================================================================
