----------------------------- MODULE ExecStore -----------------------------
(***************************************************************************)
(* The executions table and the transition functions of                    *)
(* acta_db/src/execution.c.  Each function is a SELECT that checks the     *)
(* status followed by one UPDATE whose WHERE clause repeats the status     *)
(* guard; the UPDATE alone decides, so a call is one step here: a guard    *)
(* Can...(i), true exactly when the UPDATE changes a row, and its effect.  *)
(* reset() and the runner's fetch-then-start are the exceptions (their     *)
(* SELECT looks at deleted_at and their UPDATE does not): the modules that *)
(* call them split them.                                                   *)
(*                                                                         *)
(* Columns are abstracted to what can be told apart: timestamps and error  *)
(* to NULL or not NULL; raw_response and result to the claim whose HTTP    *)
(* call produced the text, with 0 for NULL and ByOperator for text given   *)
(* on the acta_cli command line.                                           *)
(***************************************************************************)
EXTENDS Integers

CONSTANTS
    Id,          \* execution ids, positive, assigned in insertion order
    MaxClaims,   \* bound: rows are not reset once claimed that many times
    Faults       \* what the environment may do, see FaultAssumption

ASSUME IdAssumption == Id \subseteq Nat \ {0}
ASSUME MaxClaimsAssumption == MaxClaims \in Nat

(* "busy":       a statement fails (SQLITE_BUSY, disk full), nothing changed
   "signal":     a command-line runner receives SIGINT or SIGTERM
   "live_sweep": sweep runs with an N shorter than a live runner's silence
   "manual":     an operator drives running rows by hand with acta_cli      *)
ASSUME FaultAssumption == Faults \subseteq {"busy", "signal", "live_sweep", "manual"}

VARIABLES
    status, deleted, raw, result, error, started, ended,
                 \* the columns of the executions table, by id; "none" is the
                 \* status of a row that does not exist yet
    claims,      \* ghost: how many times start() succeeded on the row
    trail        \* the terminal event rows of execution_logs: <<id, claim, event>>

storeVars == <<status, deleted, raw, result, error, started, ended,
               claims, trail>>

Busy == "busy" \in Faults
ByOperator == -1

Status   == {"none", "pending", "running", "completed", "failed", "cancelled"}
Terminal == {"completed", "cancelled"}
Event    == {"execution_failed", "execution_completed", "execution_cancelled"}

InitStore == /\ status = [i \in Id |-> "none"]
             /\ deleted = [i \in Id |-> FALSE]
             /\ raw = [i \in Id |-> 0]
             /\ result = [i \in Id |-> 0]
             /\ error = [i \in Id |-> FALSE]
             /\ started = [i \in Id |-> FALSE]
             /\ ended = [i \in Id |-> FALSE]
             /\ claims = [i \in Id |-> 0]
             /\ trail = {}

Live(i) == status[i] # "none" /\ ~deleted[i]

Put(i, column, value) == [column EXCEPT ![i] = value]

-----------------------------------------------------------------------------
(* Slips the properties have to catch, never used by the specification:
   a WHERE clause without its status guard, with one status too many or with
   the wrong one, and a column the reset forgets.                            *)
CanStart_AnyStatus(i) == status[i] # "none"
CanStart_Failed(i)    == status[i] \in {"pending", "failed"}
CanFail_AnyStatus(i)  == status[i] # "none"
CanFail_Pending(i)    == status[i] = "pending"
CanReset_Running(i)   == status[i] \in {"failed", "running"}
Reset_KeepsError(i) == /\ status'  = Put(i, status, "pending")
                       /\ raw'     = Put(i, raw, 0)
                       /\ started' = Put(i, started, FALSE)
                       /\ ended'   = Put(i, ended, FALSE)
                       /\ UNCHANGED <<deleted, result, error, claims, trail>>
Reset_KeepsRaw(i) == /\ status'  = Put(i, status, "pending")
                     /\ error'   = Put(i, error, FALSE)
                     /\ started' = Put(i, started, FALSE)
                     /\ ended'   = Put(i, ended, FALSE)
                     /\ UNCHANGED <<deleted, raw, result, claims, trail>>

-----------------------------------------------------------------------------
(* The INSERT of acta_db_execution_create; AUTOINCREMENT ids ascend, and all
   other columns of a new row are NULL.                                      *)
CanCreate(i) == /\ status[i] = "none"
                /\ \A j \in Id : status[j] = "none" => i <= j
Create(i) == /\ status' = Put(i, status, "pending")
             /\ UNCHANGED <<deleted, raw, result, error, started, ended, claims, trail>>

(* acta_db_execution_start: no look at deleted_at, neither in the SELECT nor
   in the UPDATE.                                                            *)
CanStart(i) == status[i] = "pending"
Start(i) == /\ status'  = Put(i, status, "running")
            /\ started' = Put(i, started, TRUE)
            /\ claims'  = Put(i, claims, claims[i] + 1)
            /\ UNCHANGED <<deleted, raw, result, error, ended, trail>>

CanCancel(i) == status[i] \in {"pending", "running"}
Cancel(i) == /\ status'    = Put(i, status, "cancelled")
             /\ ended'     = Put(i, ended, TRUE)
             /\ UNCHANGED <<deleted, raw, result, error, started, claims, trail>>

CanComplete(i) == status[i] = "running"
Complete(i, v) == /\ status'    = Put(i, status, "completed")
                  /\ result'    = Put(i, result, v)
                  /\ ended'     = Put(i, ended, TRUE)
                  /\ UNCHANGED <<deleted, raw, error, started, claims, trail>>

CanFail(i) == status[i] = "running"
Fail(i, message) == /\ status'    = Put(i, status, "failed")
                    /\ error'     = Put(i, error, message)
                    /\ ended'     = Put(i, ended, TRUE)
                    /\ UNCHANGED <<deleted, raw, result, started, claims, trail>>

(* The SELECT of acta_db_execution_reset, then its UPDATE: result is not
   among the columns it clears.                                              *)
ResetAllowed(i) == Live(i) /\ status[i] = "failed"
CanReset(i) == status[i] = "failed" /\ claims[i] < MaxClaims
Reset(i) == /\ status'    = Put(i, status, "pending")
            /\ error'     = Put(i, error, FALSE)
            /\ raw'       = Put(i, raw, 0)
            /\ started'   = Put(i, started, FALSE)
            /\ ended'     = Put(i, ended, FALSE)
            /\ UNCHANGED <<deleted, result, claims, trail>>

CanDelete(i) == Live(i) /\ status[i] # "running"
Delete(i) == /\ deleted' = Put(i, deleted, TRUE)
             /\ UNCHANGED <<status, raw, result, error, started, ended, claims, trail>>

CanRestore(i) == deleted[i]
Restore(i) == /\ deleted' = Put(i, deleted, FALSE)
              /\ UNCHANGED <<status, raw, result, error, started, ended, claims, trail>>

(* acta_db_execution_set_raw_response: WHERE id = ?, whatever the status.    *)
SetRaw(i, v) == /\ raw' = Put(i, raw, v)
                /\ UNCHANGED <<status, deleted, result, error, started, ended, claims, trail>>

(* log_phase, and log_row of sweep: a failed insert is ignored.              *)
Log(i, c, event) == /\ \/ trail' = trail \cup {<<i, c, event>>}
                       \/ Busy /\ trail' = trail
                    /\ UNCHANGED <<status, deleted, raw, result, error, started, ended, claims>>

(* A guarded UPDATE as its callers see it: it applies, or it changes nothing
   because the status moved or the statement failed.                         *)
FailOrSkip(i) == \/ CanFail(i) /\ Fail(i, TRUE)
                 \/ (~CanFail(i) \/ Busy) /\ UNCHANGED storeVars
CancelOrSkip(i) == \/ CanCancel(i) /\ Cancel(i)
                   \/ (~CanCancel(i) \/ Busy) /\ UNCHANGED storeVars
=============================================================================
