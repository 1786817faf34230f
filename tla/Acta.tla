-------------------------------- MODULE Acta --------------------------------
(***************************************************************************)
(* The executions table shared by everything that touches it: runner       *)
(* processes and GUI workers (Runner), users of acta_cli and of the GUI    *)
(* panel (acta_cli/src/commands/execution.c, executionPanel.cpp), and      *)
(* `acta_runner sweep` (sweep.c).  SQLite serialises the statements; the   *)
(* processes interleave between them.                                      *)
(***************************************************************************)
EXTENDS Runner

CONSTANT Sweeper      \* concurrent `acta_runner sweep` processes

VARIABLES
    resetting,        \* rows some reset() has checked and not yet updated
    sweep             \* what each sweep is about to write

vars == <<status, deleted, raw, result, error, started, ended, claims, trail,
          pc, job, att, mark, todo, flag, resetting, sweep>>

Sweep == [stage : {"idle", "judged", "swept"}, victim : Id \cup {0}, claim : Nat]
NoSweep == [stage |-> "idle", victim |-> 0, claim |-> 0]

Init == /\ InitStore
        /\ InitRunner
        /\ resetting = {}
        /\ sweep = [s \in Sweeper |-> NoSweep]

-----------------------------------------------------------------------------
(* Users *)

UserCreate(i)  == CanCreate(i)  /\ Create(i)  /\ UNCHANGED <<procVars, resetting, sweep>>
UserCancel(i)  == CanCancel(i)  /\ Cancel(i)  /\ UNCHANGED <<procVars, resetting, sweep>>
UserDelete(i)  == CanDelete(i)  /\ Delete(i)  /\ UNCHANGED <<procVars, resetting, sweep>>
UserRestore(i) == CanRestore(i) /\ Restore(i) /\ UNCHANGED <<procVars, resetting, sweep>>

(* acta_db_execution_reset: the SELECT ...                                   *)
UserResetCheck(i) == /\ ResetAllowed(i)
                     /\ i \notin resetting
                     /\ resetting' = resetting \cup {i}
                     /\ UNCHANGED <<storeVars, procVars, sweep>>

(* ... and the UPDATE, which does not look at deleted_at again.              *)
UserResetRow(i) == /\ i \in resetting
                   /\ resetting' = resetting \ {i}
                   /\ \/ CanReset(i) /\ Reset(i)
                      \/ (~CanReset(i) \/ Busy) /\ UNCHANGED storeVars
                   /\ UNCHANGED <<procVars, sweep>>

(* exec start / complete / fail / set-raw: the transitions of the runner,
   driven by hand.                                                           *)
UserManual(i) == /\ "manual" \in Faults
                 /\ \/ CanStart(i) /\ claims[i] < MaxClaims /\ Start(i)
                    \/ \E v \in {0, ByOperator} : CanComplete(i) /\ Complete(i, v)
                    \/ \E e \in BOOLEAN : CanFail(i) /\ Fail(i, e)
                    \/ status[i] # "none" /\ SetRaw(i, ByOperator)
                 /\ UNCHANGED <<procVars, resetting, sweep>>

User(i) == \/ UserCreate(i) \/ UserCancel(i) \/ UserDelete(i) \/ UserRestore(i)
           \/ UserResetCheck(i) \/ UserResetRow(i) \/ UserManual(i)

-----------------------------------------------------------------------------
(* sweep --stale-seconds N *)

(* A process still works on the row, so it keeps writing log rows.           *)
Tended(i) == \E p \in Proc : job[p] = i /\ att[p] # 0

(* The row came back in the query for live running rows and its last
   activity is older than N.  With an N that is long enough that only happens
   to rows nobody tends (SweepClock!LiveRunnerSpared says how long that is). *)
SweepJudge(s, i) ==
    /\ sweep[s].stage = "idle"
    /\ Live(i)
    /\ status[i] = "running"
    /\ "live_sweep" \in Faults \/ ~Tended(i)
    /\ sweep' = [sweep EXCEPT ![s] = [stage |-> "judged", victim |-> i, claim |-> 0]]
    /\ UNCHANGED <<storeVars, procVars, resetting>>

SweepFail(s) ==
    LET i == sweep[s].victim IN
    /\ sweep[s].stage = "judged"
    /\ \/ /\ CanFail(i)
          /\ Fail(i, TRUE)
          /\ sweep' = [sweep EXCEPT ![s] = [stage |-> "swept", victim |-> i, claim |-> claims[i]]]
       \/ /\ ~CanFail(i) \/ Busy
          /\ sweep' = [sweep EXCEPT ![s] = NoSweep]
          /\ UNCHANGED storeVars
    /\ UNCHANGED <<procVars, resetting>>

SweepLog(s) ==
    /\ sweep[s].stage = "swept"
    /\ Log(sweep[s].victim, sweep[s].claim, "execution_failed")
    /\ sweep' = [sweep EXCEPT ![s] = NoSweep]
    /\ UNCHANGED <<procVars, resetting>>

SweepStep(s) == (\E i \in Id : SweepJudge(s, i)) \/ SweepFail(s) \/ SweepLog(s)

-----------------------------------------------------------------------------
ProcStep(p) == Run(p) /\ UNCHANGED <<resetting, sweep>>

Next == \/ \E i \in Id : User(i)
        \/ \E p \in Proc : ProcStep(p)
        \/ \E p \in Proc : Drive(p) /\ UNCHANGED <<resetting, sweep>>
        \/ \E s \in Sweeper : SweepStep(s)

Spec == Init /\ [][Next]_vars

(* A process that is not killed reaches its next statement: an HTTP exchange
   is bounded by CURLOPT_TIMEOUT and a database call by busy_timeout.  sweep
   is assumed to be run again and again.  Users promise nothing.             *)
FairSpec == /\ Spec
            /\ \A p \in Proc : WF_vars(ProcStep(p))
            /\ \A s \in Sweeper : WF_vars(SweepStep(s))

-----------------------------------------------------------------------------
(* Properties *)

(* What the operators of this system have to keep to for its attempts not to
   get mixed up: nobody drives a claimed row by hand, a runner is not sent a
   signal, sweep is not run twice at the same time and is given an N longer
   than a runner's longest silence or, where its read of the log may fail,
   than a whole attempt (Silence and Attempt of SweepClock).  Statements may
   fail, processes may die.                                                  *)
Undisturbed == Faults \subseteq {"busy"} /\ \A s, t \in Sweeper : s = t

(* Every variable has its type.                                              *)
TypeOK == /\ status \in [Id -> Status]
          /\ deleted \in [Id -> BOOLEAN]
          /\ raw \in [Id -> Int]
          /\ result \in [Id -> Int]
          /\ error \in [Id -> BOOLEAN]
          /\ started \in [Id -> BOOLEAN]
          /\ ended \in [Id -> BOOLEAN]
          /\ claims \in [Id -> Nat]
          /\ trail \subseteq Id \X Nat \X Event
          /\ pc \in [Proc -> Location]
          /\ job \in [Proc -> Id \cup {0}]
          /\ att \in [Proc -> Nat]
          /\ mark \in [Proc -> Id \cup {0}]
          /\ todo \in [Proc -> SUBSET Id]
          /\ flag \in [Proc -> BOOLEAN]
          /\ resetting \subseteq Id
          /\ sweep \in [Sweeper -> Sweep]

(* The columns of a row never contradict its status.  reset() clears error,
   raw_response and the timestamps but not result: a pending or running row
   without a result depends on no failed row ever having had one.            *)
ColumnsMatchStatus ==
    \A i \in Id :
        /\ result[i] # 0 => status[i] = "completed"
        /\ error[i] => status[i] = "failed"
        /\ ended[i] <=> status[i] \in {"completed", "failed", "cancelled"}
        /\ status[i] \in {"none", "pending"} => ~started[i]
        /\ status[i] \in {"running", "completed", "failed"} => started[i]

(* start() is a lock: of two processes that fetched the same pending row only
   one ever works on it, and a row that failed and was retried has nobody left
   from before the retry.                                                    *)
OneHolder == \A p, q \in Proc : /\ job[p] = job[q]
                                /\ att[p] # 0 /\ att[q] # 0
                                => p = q

(* The process that works on a row holds its current claim: while a runner is
   alive nobody fails or retries its row behind its back, so that it would go
   on to write into somebody else's attempt.                                 *)
NoZombie == \A p \in Proc : att[p] # 0 =>
                /\ status[job[p]] \notin {"pending", "failed"}
                /\ att[p] = claims[job[p]]

(* "so the next run starts clean" (execution.h): a pending row carries nothing
   of an earlier attempt.                                                    *)
RetryStartsClean ==
    \A i \in Id : status[i] = "pending" => raw[i] = 0 /\ result[i] = 0

(* What a completed row stores is one attempt's work, the last one's: the
   result is the raw response it was taken from.                             *)
ResultIsLastRaw ==
    \A i \in Id : status[i] = "completed" =>
                      result[i] = claims[i] /\ raw[i] = claims[i]

(* The audit trail does not lie: execution_completed is only logged for the
   claim whose output the row stores.                                        *)
CompletedLogIsTrue ==
    \A i \in Id : \A c \in 1..MaxClaims :
        <<i, c, "execution_completed">> \in trail =>
            status[i] = "completed" /\ result[i] = c

(* No claim of a row is logged both as completed and as failed.              *)
OneVerdict ==
    \A i \in Id : \A c \in 1..MaxClaims :
        ~ ( /\ <<i, c, "execution_completed">> \in trail
            /\ <<i, c, "execution_failed">> \in trail )

(* Every failure has its execution_failed log row, which the GUI shows as the
   reason; only sweep writes it after the transition.                        *)
FailureIsLogged ==
    \A i \in Id : status[i] = "failed" =>
        \/ <<i, claims[i], "execution_failed">> \in trail
        \/ \E s \in Sweeper : sweep[s].stage = "swept" /\ sweep[s].victim = i

(* completed and cancelled are terminal (execution.h): no step of anybody,
   however late, changes the status, the result or the claim of such a row.  *)
TerminalIsFinal ==
    [][\A i \in Id : status[i] \in Terminal =>
          /\ status'[i] = status[i]
          /\ result'[i] = result[i]
          /\ claims'[i] = claims[i]]_vars

(* The table implements the documented state machine, in which only the
   current claim completes a row.                                            *)
Lifecycle == INSTANCE ExecLifecycle
                 WITH status <- status, claims <- claims, result <- result

ImplementsLifecycle == Lifecycle!Spec

(* A running row that is not soft-deleted leaves `running`: its runner moves
   it on, or its runner is dead and a sweep does.                            *)
LiveRunningEnds == \A i \in Id : (status[i] = "running" /\ Live(i))
                                      ~> status[i] # "running"

(* Every runner invocation and every GUI run comes to its end, whatever is
   done to its rows meanwhile; a batch goes through its whole snapshot.      *)
InvocationEnds == \A p \in Proc : pc[p] # "idle" ~> pc[p] = "idle"

-----------------------------------------------------------------------------
(* What the documentation says and the code does not do                      *)

(* acta_db/include/execution.h:114 "A deleted execution is inert: reset()
   refuses it": a soft-deleted failed row stays failed.                      *)
DeletedNotReset ==
    [][\A i \in Id : deleted[i] /\ status[i] = "failed"
                          => status'[i] = "failed"]_vars

(* acta_db/include/execution.h:90 "completed and cancelled are immutable; no
   function will modify a row in those states": in particular no response is
   written into such a row.                                                  *)
TerminalUntouched ==
    [][\A i \in Id : status[i] \in Terminal => raw'[i] = raw[i]]_vars

(* acta_runner/src/sweep.c:18 "a row claimed within the last N seconds is
   never swept": sweep fails no row that a runner is working on.             *)
SweepSparesLiveRunner ==
    [][\A s \in Sweeper :
          sweep[s].stage = "judged" /\ sweep'[s].stage = "swept"
              => ~Tended(sweep[s].victim)]_vars

(* acta_gui/src/runnerWorker.h:25 "A cancel (requestCancel()) aborts the
   in-flight HTTP call (curl abort callback) and the runner pipeline
   transitions the row pending|running -> cancelled": once requested, no call
   is waited for until its response is recorded or it has failed by itself.  *)
CancelAbortsCall ==
    [][\A p \in Gui : flag[p] /\ At(p, "call") =>
          pc'[p] \notin {"answered", "logFail"}]_vars

(* acta_runner/src/sweep.c:5 "when a runner process dies, its execution row
   stays stuck in `running` forever. `sweep` finds those rows and fails them":
   no row stays in `running`.                                                *)
RunningEnds == \A i \in Id : status[i] = "running" ~> status[i] # "running"
=============================================================================
