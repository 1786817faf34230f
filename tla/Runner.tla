------------------------------- MODULE Runner -------------------------------
(***************************************************************************)
(* The processes that run executions: acta_runner (acta_runner/src/run.c,  *)
(* deathmark.c, main.c) and the worker thread of acta_gui                  *)
(* (runnerWorker.cpp, executionPanel.cpp), which share run_execution.      *)
(* pc[p] names the next statement of p that reads or writes shared state;  *)
(* everything between two such statements is local and is folded into the  *)
(* step before it.                                                         *)
(*                                                                         *)
(*   command line   idle -> fetch              (run <id>)                  *)
(*                  idle -> batch -> fetch     (run --pending)             *)
(*   GUI            idle [-> guiReset] -> boot -> fetch                    *)
(*   both           fetch -> claim -> mark -> prepare -> call -> answered  *)
(*                        -> logDone -> return                             *)
(*                  or   -> logFail -> fail -> return                      *)
(*                  or   -> logCancel -> cancel -> return                  *)
(*   on a signal    ... -> exiting [-> exitFail] -> idle                   *)
(***************************************************************************)
EXTENDS ExecStore

CONSTANTS
    Cli,         \* acta_runner processes
    Gui          \* acta_gui processes, one worker thread each

VARIABLES
    pc,          \* where the process is
    job,         \* the execution run_execution works on, 0 outside of it
    att,         \* ghost: the claim this process obtained on job, 0 before
    mark,        \* dm_exec_id of deathmark.c
    todo,        \* rows of the run --pending snapshot not yet run
    flag         \* backend_cancel_flag

procVars == <<pc, job, att, mark, todo, flag>>

Proc == Cli \cup Gui

Location == {"idle", "batch", "guiReset", "boot", "fetch", "claim", "mark",
             "prepare", "call", "answered", "logDone", "logFail", "fail",
             "logCancel", "cancel", "return", "done", "exiting", "exitFail"}

InitRunner == /\ pc   = [p \in Proc |-> "idle"]
              /\ job  = [p \in Proc |-> 0]
              /\ att  = [p \in Proc |-> 0]
              /\ mark = [p \in Proc |-> 0]
              /\ todo = [p \in Proc |-> {}]
              /\ flag = [p \in Proc |-> FALSE]

At(p, l) == pc[p] = l
Goto(p, l) == pc' = [pc EXCEPT ![p] = l]
Step(p, from, to) == /\ At(p, from)
                     /\ Goto(p, to)
                     /\ UNCHANGED <<job, att, mark, todo, flag>>

(* run_execution returns: its caller no longer works on the row.            *)
Leave(p) == /\ Goto(p, "return")
            /\ job' = [job EXCEPT ![p] = 0]
            /\ att' = [att EXCEPT ![p] = 0]
            /\ UNCHANGED <<mark, todo, flag>>

(* The process ends: everything it held in memory is gone.                  *)
Vanish(p) == /\ Goto(p, "idle")
             /\ job'  = [job  EXCEPT ![p] = 0]
             /\ att'  = [att  EXCEPT ![p] = 0]
             /\ mark' = [mark EXCEPT ![p] = 0]
             /\ todo' = [todo EXCEPT ![p] = {}]
             /\ flag' = [flag EXCEPT ![p] = FALSE]

-----------------------------------------------------------------------------
(* Slips the properties have to catch, never used by the specification.      *)

(* run_execution takes a row off the batch only when it succeeded.           *)
NextInBatch_Keeps(p, i) == /\ At(p, "batch")
                           /\ i \in todo[p]
                           /\ \A j \in todo[p] : i <= j
                           /\ Goto(p, "fetch")
                           /\ job'  = [job  EXCEPT ![p] = i]
                           /\ UNCHANGED <<att, mark, todo, flag, storeVars>>

(* A failure path that goes past fail_execution's log row.                   *)
CallFails_NoLog(p) == Step(p, "call", "fail") /\ UNCHANGED storeVars

(* The response is kept in memory only.                                      *)
Answer_NotStored(p) == Step(p, "call", "answered") /\ UNCHANGED storeVars

(* The return code of complete() is not looked at.                           *)
Finish_IgnoresResult(p) ==
    /\ Step(p, "answered", "logDone")
    /\ ~flag[p]
    /\ IF CanComplete(job[p]) THEN Complete(job[p], att[p]) ELSE UNCHANGED storeVars

(* The success path runs into the common exit of the failures.               *)
LogDone_FallsThrough(p) == /\ Step(p, "logDone", "logFail")
                           /\ Log(job[p], att[p], "execution_completed")

(* A misspelt event name.                                                    *)
LogFail_Misspelt(p) == /\ Step(p, "logFail", "fail")
                       /\ Log(job[p], att[p], "execution_fail")

-----------------------------------------------------------------------------
(* cmd_run: the checks and the preflight before the claim write nothing, so
   a refusal is no step at all.                                              *)

Runnable(i) == Live(i) /\ status[i] = "pending"

RunId(p, i) == /\ At(p, "idle")
               /\ Runnable(i)
               /\ Goto(p, "fetch")
               /\ job' = [job EXCEPT ![p] = i]
               /\ UNCHANGED <<att, mark, todo, flag, storeVars>>

(* The snapshot is ordered by id and cut at --max: a nonempty prefix.        *)
RunPending(p) ==
    /\ At(p, "idle")
    /\ \E rows \in SUBSET {i \in Id : Runnable(i)} :
         /\ rows # {}
         /\ \A i \in rows : \A j \in Id \ rows : Runnable(j) => i < j
         /\ todo' = [todo EXCEPT ![p] = rows]
    /\ Goto(p, "batch")
    /\ UNCHANGED <<job, att, mark, flag, storeVars>>

NextInBatch(p, i) == /\ At(p, "batch")
                     /\ i \in todo[p]
                     /\ \A j \in todo[p] : i <= j
                     /\ Goto(p, "fetch")
                     /\ job'  = [job  EXCEPT ![p] = i]
                     /\ todo' = [todo EXCEPT ![p] = @ \ {i}]
                     /\ UNCHANGED <<att, mark, flag, storeVars>>

(* Back in cmd_run: deathmark_release, then the next row of the batch.       *)
ReturnCli(p) == /\ p \in Cli
                /\ At(p, "return")
                /\ Goto(p, IF todo[p] = {} THEN "idle" ELSE "batch")
                /\ mark' = [mark EXCEPT ![p] = 0]
                /\ UNCHANGED <<job, att, todo, flag, storeVars>>

-----------------------------------------------------------------------------
(* run_execution_dialect                                                     *)

Fetch(p) == /\ Step(p, "fetch", "claim")
            /\ Runnable(job[p])
            /\ UNCHANGED storeVars

FetchRefused(p) == /\ At(p, "fetch")
                   /\ ~Runnable(job[p]) \/ Busy
                   /\ Leave(p)
                   /\ UNCHANGED storeVars

(* The flag is looked at before the claim, after it, after step 2 and before
   complete(), and nowhere else.  (Step 2 lies between two looks: that it may
   fail although the flag was raised meanwhile is the order Prepare,
   ClickCancel.)                                                             *)
CancelSeen(p) == /\ flag[p]
                 /\ \E l \in {"claim", "prepare", "answered"} :
                        Step(p, l, "logCancel")
                 /\ UNCHANGED storeVars

Claim(p) == /\ At(p, "claim")
            /\ ~flag[p]
            /\ CanStart(job[p])
            /\ Start(job[p])
            /\ Goto(p, "mark")
            /\ att' = [att EXCEPT ![p] = claims'[job[p]]]
            /\ UNCHANGED <<job, mark, todo, flag>>

ClaimRefused(p) == /\ At(p, "claim")
                   /\ ~flag[p]
                   /\ ~CanStart(job[p]) \/ Busy
                   /\ Leave(p)
                   /\ UNCHANGED storeVars

DeathmarkClaim(p) == /\ At(p, "mark")
                     /\ Goto(p, "prepare")
                     /\ mark' = [mark EXCEPT ![p] = job[p]]
                     /\ UNCHANGED <<job, att, todo, flag, storeVars>>

(* Steps 2 and 3: resolve the references, validate the configuration, size
   check; every deviation fails the execution.                               *)
Prepare(p) == /\ ~flag[p]
              /\ Step(p, "prepare", "call") \/ Step(p, "prepare", "logFail")
              /\ UNCHANGED storeVars

(* The preflight GETs and the POST: timeout, transport failure, HTTP status,
   model not served, malformed body.  The cancel flag is not looked at while
   a transfer is in flight: CURLOPT_NOPROGRESS keeps its default.            *)
CallFails(p) == Step(p, "call", "logFail") /\ UNCHANGED storeVars

Answer(p) == /\ Step(p, "call", "answered")
             /\ SetRaw(job[p], att[p])

AnswerNotStored(p) == /\ Busy
                      /\ Step(p, "call", "logFail")
                      /\ UNCHANGED storeVars

(* Post-hoc validation against the skill's output_schema.                    *)
Reject(p) == Step(p, "answered", "logFail") /\ UNCHANGED storeVars

Finish(p) == /\ Step(p, "answered", "logDone")
             /\ ~flag[p]
             /\ CanComplete(job[p])
             /\ Complete(job[p], att[p])

FinishRefused(p) == /\ Step(p, "answered", "logFail")
                    /\ ~flag[p]
                    /\ ~CanComplete(job[p]) \/ Busy
                    /\ UNCHANGED storeVars

LogDone(p) == /\ At(p, "logDone")
              /\ Log(job[p], att[p], "execution_completed")
              /\ Leave(p)

(* fail_execution: the log row first, then the transition.                   *)
LogFail(p) == /\ Step(p, "logFail", "fail")
              /\ Log(job[p], att[p], "execution_failed")

FailRow(p) == /\ At(p, "fail")
              /\ FailOrSkip(job[p])
              /\ Leave(p)

(* cancel_execution: the same order.                                         *)
LogCancel(p) == /\ Step(p, "logCancel", "cancel")
                /\ Log(job[p], att[p], "execution_cancelled")

CancelRow(p) == /\ At(p, "cancel")
                /\ CancelOrSkip(job[p])
                /\ Leave(p)

-----------------------------------------------------------------------------
(* The GUI: the Run / Cancel button and the worker thread.                   *)

ClickRun(p, i) ==
    /\ p \in Gui
    /\ At(p, "idle")
    /\ \/ Runnable(i)     /\ Goto(p, "boot")
       \/ ResetAllowed(i) /\ Goto(p, "guiReset")
    /\ job' = [job EXCEPT ![p] = i]
    /\ UNCHANGED <<att, mark, todo, flag, storeVars>>

(* The UPDATE of the reset; without a row changed the worker is not started. *)
GuiReset(p) ==
    \/ Step(p, "guiReset", "boot") /\ CanReset(job[p]) /\ Reset(job[p])
    \/ /\ At(p, "guiReset")
       /\ ~CanReset(job[p]) \/ Busy
       /\ Goto(p, "idle")
       /\ job' = [job EXCEPT ![p] = 0]
       /\ UNCHANGED <<att, mark, todo, flag, storeVars>>

(* The button is Cancel as soon as the thread object exists.                 *)
ClickCancel(p) == /\ p \in Gui
                  /\ pc[p] \notin {"idle", "guiReset"}
                  /\ flag' = [flag EXCEPT ![p] = TRUE]
                  /\ UNCHANGED <<pc, job, att, mark, todo, storeVars>>

(* runInThread up to run_execution: the flag is reset first; no database,
   no valid configuration or no API key ends the worker.                     *)
Boot(p) == /\ At(p, "boot")
           /\ flag' = [flag EXCEPT ![p] = FALSE]
           /\ \/ Goto(p, "fetch") /\ UNCHANGED job
              \/ Goto(p, "done") /\ job' = [job EXCEPT ![p] = 0]
           /\ UNCHANGED <<att, mark, todo, storeVars>>

ReturnGui(p) == /\ p \in Gui
                /\ At(p, "return")
                /\ Goto(p, "done")
                /\ flag' = [flag EXCEPT ![p] = FALSE]
                /\ UNCHANGED <<job, att, mark, todo, storeVars>>

(* finished() reaches onWorkerFinished, which stops the thread.              *)
WorkerFinished(p) == Step(p, "done", "idle") /\ UNCHANGED storeVars

-----------------------------------------------------------------------------
(* The end of a process.                                                     *)

Kill(p) == pc[p] # "idle" /\ Vanish(p) /\ UNCHANGED storeVars

(* SIGINT / SIGTERM: exit() from the handler, whose atexit hook is the death
   marker; main() installs it, acta_gui does not.                            *)
Signal(p) == /\ "signal" \in Faults
             /\ p \in Cli
             /\ pc[p] \notin {"idle", "exiting", "exitFail"}
             /\ Goto(p, "exiting")
             /\ UNCHANGED <<job, att, mark, todo, flag, storeVars>>

MarkStillRunning(p) == mark[p] # 0 /\ status[mark[p]] = "running"

DeathmarkLog(p) == /\ Step(p, "exiting", "exitFail")
                   /\ MarkStillRunning(p)
                   /\ Log(mark[p], claims[mark[p]], "execution_failed")

DeathmarkNothing(p) == /\ At(p, "exiting")
                       /\ ~MarkStillRunning(p) \/ Busy
                       /\ Vanish(p)
                       /\ UNCHANGED storeVars

DeathmarkFail(p) == /\ At(p, "exitFail")
                    /\ FailOrSkip(mark[p])
                    /\ Vanish(p)

-----------------------------------------------------------------------------
(* What a process does by itself once somebody started it.                   *)
Run(p) == \/ \E i \in Id : NextInBatch(p, i)
          \/ ReturnCli(p)
          \/ Fetch(p) \/ FetchRefused(p) \/ CancelSeen(p)
          \/ Claim(p) \/ ClaimRefused(p) \/ DeathmarkClaim(p) \/ Prepare(p)
          \/ CallFails(p) \/ Answer(p) \/ AnswerNotStored(p) \/ Reject(p)
          \/ Finish(p) \/ FinishRefused(p) \/ LogDone(p)
          \/ LogFail(p) \/ FailRow(p) \/ LogCancel(p) \/ CancelRow(p)
          \/ GuiReset(p) \/ Boot(p) \/ ReturnGui(p) \/ WorkerFinished(p)
          \/ DeathmarkLog(p) \/ DeathmarkNothing(p) \/ DeathmarkFail(p)

(* What somebody else does to it.                                            *)
Drive(p) == \/ \E i \in Id : (p \in Cli /\ RunId(p, i)) \/ ClickRun(p, i)
            \/ p \in Cli /\ RunPending(p)
            \/ ClickCancel(p) \/ Kill(p) \/ Signal(p)
=============================================================================
