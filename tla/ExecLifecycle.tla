--------------------------- MODULE ExecLifecycle ---------------------------
(***************************************************************************)
(* What the executions table promises its users: the state machine drawn   *)
(* in acta_db/include/execution.h, with two things made explicit.  start() *)
(* is "the atomic lock" (docs/runner_contract.md, decision 6), so every    *)
(* start opens a new claim of the row, numbered by claims[i]; and what a   *)
(* completed row stores is the work of the claim that was current when it  *)
(* completed.  Nobody but the current claim can complete a row.            *)
(***************************************************************************)
EXTENDS Integers

CONSTANT Id        \* the execution ids

VARIABLES
    status,        \* the status column; "none" while the row does not exist
    claims,        \* how many times the row has been started
    result         \* the claim whose output the row stores, 0 for NULL

lifecycleVars == <<status, claims, result>>

Init == /\ status = [i \in Id |-> "none"]
        /\ claims = [i \in Id |-> 0]
        /\ result = [i \in Id |-> 0]

Move(i, from, to) == /\ status[i] \in from
                     /\ status' = [status EXCEPT ![i] = to]

Create(i) == Move(i, {"none"}, "pending") /\ UNCHANGED <<claims, result>>

Start(i) == /\ Move(i, {"pending"}, "running")
            /\ claims' = [claims EXCEPT ![i] = @ + 1]
            /\ UNCHANGED result

Complete(i) == /\ Move(i, {"running"}, "completed")
               /\ result' = [result EXCEPT ![i] = claims[i]]
               /\ UNCHANGED claims

Fail(i)   == Move(i, {"running"}, "failed") /\ UNCHANGED <<claims, result>>

Cancel(i) == /\ Move(i, {"pending", "running"}, "cancelled")
             /\ UNCHANGED <<claims, result>>

Reset(i)  == Move(i, {"failed"}, "pending") /\ UNCHANGED <<claims, result>>

Next == \E i \in Id : \/ Create(i) \/ Start(i) \/ Complete(i)
                      \/ Fail(i) \/ Cancel(i) \/ Reset(i)

Spec == Init /\ [][Next]_lifecycleVars
=============================================================================
