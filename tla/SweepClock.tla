------------------------------ MODULE SweepClock ------------------------------
(***************************************************************************)
(* `acta_runner sweep --stale-seconds N` against a runner that is alive,   *)
(* in seconds.  sweep.c takes a running row for dead when its last         *)
(* activity, the newer of started_at and its newest execution_log row, is  *)
(* more than N seconds old.  A live runner writes nothing while it waits   *)
(* for a backend: between prompt_resolved and preflight_passed it makes    *)
(* two or, in the llamacpp dialect, three HTTP calls of up to --timeout    *)
(* seconds each (run.c, backend.c, dialect.c).  And a sweep whose read of  *)
(* the log fails goes by started_at alone, however fresh the log is.  Acta *)
(* assumes an N that is long enough; this module says how long that is.    *)
(*                                                                         *)
(* One execution, one runner and one sweep at a time.  Ages are counted    *)
(* instead of dates, and not beyond Cap.  While the database is `busy`,    *)
(* any statement may fail.  Not here: cancelling and signals, which do not *)
(* make a silence longer.                                                  *)
(***************************************************************************)
EXTENDS Naturals

CONSTANTS
    Timeout,         \* --timeout: what one HTTP call may take
    Pause,           \* what all else takes between two rows of the log
    Lag,             \* what sweep takes from the clock to the row's log
    StaleSeconds,    \* the values --stale-seconds is given
    Cap              \* bound: no age is counted beyond it

ASSUME ClockAssumption ==
    /\ Timeout \in Nat \ {0}
    /\ Pause \in Nat
    /\ Lag \in Nat
    /\ StaleSeconds \subseteq Nat \ {0}
    /\ Cap \in Nat
    /\ \A n \in StaleSeconds : n + Lag < Cap

VARIABLES
    status,          \* executions.status
    dialect,         \* of the model revision
    busy,            \* statements may fail, the runner's and sweep's
    at,              \* where the runner is, "idle" when there is none
    spent, paused,   \* seconds in this call; outside of calls since a row
    age,             \* of started_at
    quiet,           \* of the newest log row
    sweep            \* stage, N, the age started_at was read with, the lag,
                     \* and whether its read of the log failed

vars == <<status, dialect, busy, at, spent, paused, age, quiet, sweep>>

Dialect == {"llamacpp", "openai"}
FetchesCatalog == dialect = "llamacpp"

(* What waits for a backend: two calls before the claim, which nothing is
   written before, and three or four after it.                              *)
BeforeClaim == {"probeHealth", "probeModels"}
AfterClaim  == {"health", "models", "catalog", "post"}
Writing     == {"logStarted", "logResolved", "logPreflight", "logRequest",
                "logResponse", "logDone", "logFail"}
Location    == {"idle", "claim", "complete", "fail"}
                   \cup BeforeClaim \cup AfterClaim \cup Writing

(* The runner holds the row.                                                *)
Holds == at \in AfterClaim \cup Writing \cup {"complete", "fail"}

Sweep == [stage : {"idle", "reading", "judged", "log"},
          n : StaleSeconds \cup {0}, seen : 0..Cap, lag : 0..Lag,
          blind : BOOLEAN]
NoSweep == [stage |-> "idle", n |-> 0, seen |-> 0, lag |-> 0, blind |-> FALSE]

Init == /\ status = "pending"
        /\ dialect \in Dialect
        /\ busy \in BOOLEAN
        /\ at = "idle"
        /\ spent = 0 /\ paused = 0
        /\ age = Cap /\ quiet = Cap
        /\ sweep = NoSweep

Newer(a, b) == IF a < b THEN a ELSE b

-----------------------------------------------------------------------------
(* Slips the properties have to catch, never used by the specification.      *)

(* The log alone, which still ends with the last attempt's failure while the
   new claim has not written its first row.                                 *)
Activity_LogOnly(log, start) == log

(* Every sweep leaves a row in the log of what it keeps.                    *)
Kept_Noted(q) == 0

-----------------------------------------------------------------------------
(* Time *)

Older(a) == Newer(a + 1, Cap)

(* A second passes.  CURLOPT_TIMEOUT ends a call, busy_timeout a statement. *)
Tick ==
    /\ CASE at \in BeforeClaim \cup AfterClaim ->
              spent < Timeout /\ spent' = spent + 1 /\ UNCHANGED paused
         [] at = "idle" -> UNCHANGED <<spent, paused>>
         [] OTHER -> paused < Pause /\ paused' = paused + 1 /\ UNCHANGED spent
    /\ sweep.stage = "reading" => sweep.lag < Lag
    /\ age' = Older(age)
    /\ quiet' = Older(quiet)
    /\ sweep' = IF sweep.stage = "reading"
                THEN [sweep EXCEPT !.seen = Older(@), !.lag = @ + 1] ELSE sweep
    /\ UNCHANGED <<status, dialect, busy, at>>

-----------------------------------------------------------------------------
(* The runner: run.c, with backend_request under each call                   *)

Go(l) == at' = l /\ UNCHANGED <<dialect, busy, sweep>>

(* Only a row given on the command line, or the first of a batch, is probed
   for.                                                                      *)
Start == /\ at = "idle"
         /\ status = "pending"
         /\ \E l \in {"probeHealth", "claim"} : Go(l)
         /\ spent' = 0 /\ paused' = 0
         /\ UNCHANGED <<status, age, quiet>>

(* A call returned, for better or worse, within its timeout.                *)
CallEnds(from, to) == /\ at = from
                      /\ Go(to)
                      /\ spent' = 0
                      /\ UNCHANGED <<status, paused, age, quiet>>

(* backend_preflight before the claim: a failure ends the invocation.       *)
Probe == \/ CallEnds("probeHealth", "probeModels")
         \/ CallEnds("probeModels", "claim")
         \/ \E l \in BeforeClaim : CallEnds(l, "idle")

Claim == /\ at = "claim"
         /\ status = "pending"
         /\ \/ /\ status' = "running"
               /\ age' = 0
               /\ paused' = 0
               /\ Go("logStarted")
            \/ busy /\ Go("idle") /\ UNCHANGED <<status, age, paused>>
         /\ UNCHANGED <<spent, quiet>>

(* log_phase: a row that cannot be written is a warning.                    *)
WriteRow(from, to) ==
    /\ at = from
    /\ Go(to)
    /\ \/ quiet' = 0 /\ paused' = 0
       \/ busy /\ UNCHANGED <<quiet, paused>>
    /\ UNCHANGED <<status, spent, age>>

(* The references are resolved, or something is wrong with them.            *)
Resolve == \/ WriteRow("logStarted", "logResolved")
           \/ WriteRow("logStarted", "logFail")
           \/ WriteRow("logResolved", "health")
           \/ WriteRow("logResolved", "logFail")

(* GET /health and GET /v1/models; then, where the dialect has one, the
   catalogue of GET /, whose failure is no failure.                         *)
Preflight == \/ CallEnds("health", "models")
             \/ CallEnds("models", IF FetchesCatalog THEN "catalog" ELSE "logPreflight")
             \/ CallEnds("catalog", "logPreflight")
             \/ \E l \in {"health", "models"} : CallEnds(l, "logFail")

Ask == \/ WriteRow("logPreflight", "logRequest")
       \/ WriteRow("logRequest", "post")
       \/ CallEnds("post", "logResponse")
       \/ CallEnds("post", "logFail")
       \/ WriteRow("logResponse", "complete")
       \/ WriteRow("logResponse", "logFail")

(* complete() or fail(), refused when the row is no longer running; when it
   fails instead, the row stays running.                                     *)
Close(from, verdict, to, refused) ==
    /\ at = from
    /\ \/ status = "running" /\ status' = verdict /\ Go(to)
       \/ (status # "running" \/ busy) /\ Go(refused) /\ UNCHANGED status
    /\ UNCHANGED <<spent, paused, age, quiet>>

End == \/ Close("complete", "completed", "logDone", "logFail")
       \/ WriteRow("logDone", "idle")
       \/ WriteRow("logFail", "fail")
       \/ Close("fail", "failed", "idle", "idle")

Runner == Probe \/ Claim \/ Resolve \/ Preflight \/ Ask \/ End

(* The process is killed; its row stays running.                            *)
Die == /\ at # "idle"
       /\ Go("idle")
       /\ UNCHANGED <<status, spent, paused, age, quiet>>

(* reset() clears started_at and leaves the log.                            *)
Reset == /\ status = "failed"
         /\ at = "idle"
         /\ status' = "pending"
         /\ age' = Cap
         /\ UNCHANGED <<dialect, busy, at, spent, paused, quiet, sweep>>

-----------------------------------------------------------------------------
(* cmd_sweep *)

(* The query for running rows, and the clock right after it.                *)
SweepQuery(n) ==
    /\ sweep.stage = "idle"
    /\ status = "running"
    /\ sweep' = [NoSweep EXCEPT !.stage = "reading", !.n = n, !.seen = age]
    /\ UNCHANGED <<status, dialect, busy, at, spent, paused, age, quiet>>

(* What the read of the log can come to: the age of its newest row.  When a
   statement fails, the count or the page is given up, or the page ends early
   without an error: an older row counts, or none (Cap).                     *)
LogRead == IF busy THEN quiet..Cap ELSE {quiet}

(* last_activity: the newer of the log row that was read and of the
   started_at that came with the query.                                     *)
Activity(log, start) == Newer(log, start)

IsStale(log) == Activity(log, sweep.seen) > sweep.n + sweep.lag

(* A fresh row is left alone.                                               *)
Kept(q) == q

(* The moment is that of the count: a later row is not on the page.         *)
SweepJudge ==
    /\ sweep.stage = "reading"
    /\ \E log \in LogRead :
          IF IsStale(log)
          THEN /\ sweep' = [NoSweep EXCEPT !.stage = "judged", !.n = sweep.n,
                                           !.blind = log # quiet]
               /\ UNCHANGED quiet
          ELSE /\ sweep' = NoSweep
               /\ quiet' = Kept(quiet)
    /\ UNCHANGED <<status, dialect, busy, at, spent, paused, age>>

(* fail(): a row that is no longer running, and a failure, are skipped.     *)
SweepFail ==
    /\ sweep.stage = "judged"
    /\ \/ /\ status = "running"
          /\ status' = "failed"
          /\ sweep' = [NoSweep EXCEPT !.stage = "log"]
       \/ /\ status # "running" \/ busy
          /\ sweep' = NoSweep
          /\ UNCHANGED status
    /\ UNCHANGED <<dialect, busy, at, spent, paused, age, quiet>>

SweepLog ==
    /\ sweep.stage = "log"
    /\ sweep' = NoSweep
    /\ \/ quiet' = 0
       \/ busy /\ UNCHANGED quiet
    /\ UNCHANGED <<status, dialect, busy, at, spent, paused, age>>

SweepStep == (\E n \in StaleSeconds : SweepQuery(n))
                 \/ SweepJudge \/ SweepFail \/ SweepLog

-----------------------------------------------------------------------------
Next == Tick \/ Start \/ Runner \/ Die \/ Reset \/ SweepStep

Spec == Init /\ [][Next]_vars

(* Time passes, sweep is run again and again, and its UPDATE does not fail
   every time.  Runners and users promise nothing.                           *)
FairSpec == /\ Spec
            /\ WF_vars(Tick)
            /\ WF_vars(SweepStep)
            /\ SF_vars(SweepFail /\ status' # status)

-----------------------------------------------------------------------------
(* Properties *)

TypeOK == /\ status \in {"pending", "running", "completed", "failed"}
          /\ dialect \in Dialect
          /\ busy \in BOOLEAN
          /\ at \in Location
          /\ spent \in 0..Timeout
          /\ paused \in 0..Pause
          /\ age \in 0..Cap
          /\ quiet \in 0..Cap
          /\ sweep \in Sweep

(* The calls a runner makes between two rows of its log at most; all it makes
   after its claim when none of its rows gets written.                       *)
SilentCalls == (IF busy THEN 3 ELSE 2) + (IF FetchesCatalog THEN 1 ELSE 0)

Silence == SilentCalls * Timeout + Pause

(* All that an attempt takes from its claim to its verdict: its calls, and a
   pause up to each of its six rows and to the verdict.                      *)
Attempt == (3 + (IF FetchesCatalog THEN 1 ELSE 0)) * Timeout + 7 * Pause

Needed == IF sweep.blind THEN Attempt ELSE Silence

(* sweep fails no row a runner still works on, however the calls, the
   retries, the failures and its own reads fall in time: with an N no shorter
   than the longest silence when it could read the log, and with one no
   shorter than a whole attempt when it could not.  (That N be that long is
   nowhere asked for: any positive integer is taken.)                        *)
LiveRunnerSpared ==
    [][sweep.stage = "judged" /\ sweep'.stage = "log" /\ sweep.n >= Needed
           => ~Holds]_vars

(* A row whose runner is dead does not stay in `running`, whatever N is.     *)
DeadRowIsSwept == status = "running" /\ ~Holds ~> status # "running"

-----------------------------------------------------------------------------
(* What a comment says and the code does not do                              *)

(* acta_runner/src/sweep.c:14 "A live runner can never have both stale
   (execution_started is logged immediately after start())": whatever N is.  *)
LiveRunnerIsFresh ==
    \A n \in StaleSeconds :
        Holds /\ status = "running" => Activity(quiet, age) <= n

(* acta_runner/src/sweep.c:12 "last runner activity = the MAX of the latest
   execution_log.created_at ... and the execution's started_at": then an N no
   shorter than the longest silence would do, whatever fails.  A log that
   cannot be read counts as one without rows (sweep.c:86-116).               *)
SilenceIsEnough ==
    [][sweep.stage = "judged" /\ sweep'.stage = "log" /\ sweep.n >= Silence
           => ~Holds]_vars
=============================================================================
