-------------------------- MODULE ActaTrailProofs ---------------------------
(***************************************************************************)
(* What a row stores and what its log says of it, for every set of rows,   *)
(* processes and sweeps: the columns fit the status, a completed row holds *)
(* one attempt's output, and no attempt has two verdicts.                  *)
(*                                                                         *)
(* Built on CalmInv of ActaProofs: whoever has claimed a row is its only   *)
(* holder.  What is added is where the holder is (PlaceKept) and what has  *)
(* been written by the time it is there.                                   *)
(***************************************************************************)
EXTENDS ActaProofs

-----------------------------------------------------------------------------
(* What one statement does to a row                                          *)

(* How status, claim and raw_response of a row may change together.          *)
RowEffect(i) ==
    /\ status'[i] = "none" => status[i] = "none"
    /\ status'[i] = "pending" => \/ status[i] = "pending"
                                 \/ status[i] = "none"
                                 \/ status[i] = "failed" /\ raw'[i] = 0
    /\ status'[i] = "failed" => status[i] \in {"failed", "running"}
    /\ status'[i] = "running" => status[i] = "running" \/ claims'[i] = claims[i] + 1
    /\ claims'[i] = claims[i] \/ (status[i] = "pending" /\ claims'[i] = claims[i] + 1)
    /\ status'[i] # status[i] => raw'[i] = raw[i] \/ (status[i] = "failed" /\ raw'[i] = 0)

(* Every statement does that, and takes no log row away.                     *)
LEMMA TableStepEffect ==
    ASSUME StoreOK, TableStep, NEW i \in Id
    PROVE  RowEffect(i) /\ trail \subseteq trail'
  <1> USE DEF StoreOK, RowEffect, Put
  <1>1. CASE UNCHANGED storeVars
    BY <1>1 DEF storeVars
  <1>2. ASSUME NEW j \in Id, NEW v \in Int, CanComplete(j), Complete(j, v)
        PROVE  RowEffect(i) /\ trail \subseteq trail'
    BY <1>2 DEF CanComplete, Complete
  <1>3. ASSUME NEW j \in Id, CanCreate(j), Create(j)
        PROVE  RowEffect(i) /\ trail \subseteq trail'
    BY <1>3 DEF CanCreate, Create
  <1>4. ASSUME NEW j \in Id, CanStart(j), Start(j)
        PROVE  RowEffect(i) /\ trail \subseteq trail'
    BY <1>4 DEF CanStart, Start
  <1>5. ASSUME NEW j \in Id, CanCancel(j), Cancel(j)
        PROVE  RowEffect(i) /\ trail \subseteq trail'
    BY <1>5 DEF CanCancel, Cancel
  <1>6. ASSUME NEW j \in Id, NEW e \in BOOLEAN, CanFail(j), Fail(j, e)
        PROVE  RowEffect(i) /\ trail \subseteq trail'
    BY <1>6 DEF CanFail, Fail
  <1>7. ASSUME NEW j \in Id, CanReset(j), Reset(j)
        PROVE  RowEffect(i) /\ trail \subseteq trail'
    BY <1>7 DEF CanReset, Reset
  <1>8. ASSUME NEW j \in Id, Delete(j) \/ Restore(j)
        PROVE  RowEffect(i) /\ trail \subseteq trail'
    BY <1>8 DEF Delete, Restore
  <1>9. ASSUME NEW j \in Id, NEW v \in Int, SetRaw(j, v)
        PROVE  RowEffect(i) /\ trail \subseteq trail'
    BY <1>9 DEF SetRaw
  <1>10. ASSUME NEW j \in Id, NEW c \in Nat, NEW e \in Event, Log(j, c, e)
        PROVE  RowEffect(i) /\ trail \subseteq trail'
    BY <1>10 DEF Log
  <1> HIDE DEF RowEffect
  <1> QED BY <1>1, <1>2, <1>3, <1>4, <1>5, <1>6, <1>7, <1>8, <1>9, <1>10
          DEF TableStep, Quiet, QuietOn

-----------------------------------------------------------------------------
(* Columns                                                                   *)

(* Every statement keeps the columns and the status together.                *)
LEMMA ColumnsStep ==
    ASSUME StoreOK, ColumnsMatchStatus, TableStep
    PROVE  ColumnsMatchStatus'
  <1> USE DEF StoreOK, ColumnsMatchStatus, Put
  <1>1. CASE UNCHANGED storeVars
    BY <1>1 DEF storeVars
  <1>2. ASSUME NEW j \in Id, NEW v \in Int, CanComplete(j), Complete(j, v)
        PROVE  ColumnsMatchStatus'
    BY <1>2 DEF CanComplete, Complete
  <1>3. ASSUME NEW j \in Id, CanCreate(j), Create(j) PROVE ColumnsMatchStatus'
    BY <1>3 DEF CanCreate, Create
  <1>4. ASSUME NEW j \in Id, CanStart(j), Start(j) PROVE ColumnsMatchStatus'
    BY <1>4 DEF CanStart, Start
  <1>5. ASSUME NEW j \in Id, CanCancel(j), Cancel(j) PROVE ColumnsMatchStatus'
    BY <1>5 DEF CanCancel, Cancel
  <1>6. ASSUME NEW j \in Id, NEW e \in BOOLEAN, CanFail(j), Fail(j, e) PROVE ColumnsMatchStatus'
    BY <1>6 DEF CanFail, Fail
  <1>7. ASSUME NEW j \in Id, CanReset(j), Reset(j) PROVE ColumnsMatchStatus'
    BY <1>7 DEF CanReset, Reset
  <1>8. ASSUME NEW j \in Id, Delete(j) \/ Restore(j) PROVE ColumnsMatchStatus'
    BY <1>8 DEF Delete, Restore
  <1>9. ASSUME NEW j \in Id, NEW v \in Int, SetRaw(j, v) PROVE ColumnsMatchStatus'
    BY <1>9 DEF SetRaw
  <1>10. ASSUME NEW j \in Id, NEW c \in Nat, NEW e \in Event, Log(j, c, e)
         PROVE  ColumnsMatchStatus'
    BY <1>10 DEF Log
  <1> HIDE DEF ColumnsMatchStatus
  <1> QED BY <1>1, <1>2, <1>3, <1>4, <1>5, <1>6, <1>7, <1>8, <1>9, <1>10
          DEF TableStep, Quiet, QuietOn

(* Under every fault the columns of a row fit its status: in particular reset
   need not clear result, since a failed row never has one.                  *)
THEOREM ColumnsAlwaysMatch == Spec => []ColumnsMatchStatus
  <1>1. ASSUME Init PROVE ColumnsMatchStatus
    BY <1>1 DEF Init, InitStore, ColumnsMatchStatus
  <1>2. ASSUME BasicInv, ColumnsMatchStatus, [Next]_vars PROVE ColumnsMatchStatus'
    BY <1>2, NextTable, ColumnsStep DEF BasicInv
  <1> QED BY <1>1, <1>2, BasicAlways, PTL DEF Spec

-----------------------------------------------------------------------------
(* Who does what, undisturbed                                                *)

(* Only Finish completes a row.                                              *)
LEMMA CalmTable ==
    ASSUME Undisturbed, CalmInv, [Next]_vars
    PROVE  Quiet \/ \E p \in Proc : Finish(p)
  <1>1. CASE UNCHANGED vars
    BY <1>1 DEF vars, Quiet, storeVars
  <1>2. ASSUME NEW p \in Proc, Drive(p) PROVE Quiet
    BY <1>2, DriveTable DEF Quiet
  <1>3. "manual" \notin Faults
    BY DEF Undisturbed
  <1> QED BY <1>1, <1>2, <1>3, RunTable, UserTable, SweepTable DEF Next, ProcStep, CalmInv

(* A row becomes completed by its Finish.                                    *)
LEMMA NextCompletes ==
    ASSUME Undisturbed, CalmInv, [Next]_vars, NEW i \in Id,
           status'[i] = "completed", status[i] # "completed"
    PROVE  \E p \in Proc : Finish(p) /\ job[p] = i
  <1> USE DEF CalmInv, BasicInv, StoreOK, Put
  <1>1. ~Quiet
    <2>1. ASSUME NEW j \in Id, QuietOn(j) PROVE FALSE
      BY <2>1 DEF QuietOn, Create, Start, Cancel, Fail, Reset, Delete, Restore, SetRaw, Log
    <2> QED BY <2>1 DEF Quiet, storeVars
  <1>2. PICK p \in Proc : Finish(p)
    BY <1>1, CalmTable
  <1>3. job[p] = i
    BY <1>2 DEF Finish, Complete
  <1> QED BY <1>2, <1>3

(* What a process that completes its row writes.                             *)
LEMMA FinishWrites ==
    ASSUME CalmInv, NEW p \in Proc, Finish(p)
    PROVE  /\ job[p] \in Id /\ att[p] # 0 /\ pc[p] = "answered" /\ pc'[p] = "logDone"
           /\ att[p] = claims[job[p]] /\ claims' = claims /\ raw' = raw /\ trail' = trail
           /\ result'[job[p]] = att[p] /\ status'[job[p]] = "completed"
  <1>1. pc[p] = "answered" /\ pc'[p] = "logDone"
    BY DEF Finish, Step, At, Goto, CalmInv, BasicInv, ProcOK
  <1>2. job[p] \in Id /\ att[p] # 0
    BY <1>1 DEF CalmInv, BasicInv, ProcOK, LocalInv, WithRow, Claimed
  <1>3. att[p] = claims[job[p]]
    BY <1>2 DEF CalmInv, Holder
  <1> QED BY <1>1, <1>2, <1>3 DEF Finish, Complete, Put, CalmInv, BasicInv, StoreOK

(* The same of a process that stores a response.                             *)
LEMMA AnswerWrites ==
    ASSUME CalmInv, NEW p \in Proc, Answer(p)
    PROVE  /\ job[p] \in Id /\ att[p] # 0 /\ pc[p] = "call" /\ pc'[p] = "answered"
           /\ att[p] = claims[job[p]] /\ claims' = claims /\ status' = status /\ trail' = trail
           /\ raw'[job[p]] = att[p] /\ \A i \in Id : i # job[p] => raw'[i] = raw[i]
           /\ job' = job /\ att' = att
  <1>1. pc[p] = "call" /\ pc'[p] = "answered"
    BY DEF Answer, Step, At, Goto, CalmInv, BasicInv, ProcOK
  <1>2. job[p] \in Id /\ att[p] # 0
    BY <1>1 DEF CalmInv, BasicInv, ProcOK, LocalInv, WithRow, Claimed
  <1>3. att[p] = claims[job[p]]
    BY <1>2 DEF CalmInv, Holder
  <1> QED BY <1>1, <1>2, <1>3 DEF Answer, Step, SetRaw, Put, CalmInv, BasicInv, StoreOK

(* A response is written by a runner that got one, and taken away by reset.  *)
LEMMA NextRaw ==
    ASSUME Undisturbed, CalmInv, [Next]_vars, NEW i \in Id
    PROVE  \/ raw'[i] = raw[i]
           \/ raw'[i] = 0 /\ status[i] = "failed" /\ status'[i] = "pending"
           \/ \E p \in Proc : Answer(p) /\ job[p] = i
  <1> USE DEF CalmInv, BasicInv, StoreOK, Put
  <1>1. ASSUME NEW j \in Id \cup {0}, CanReset(j), Reset(j)
        PROVE  raw'[i] = raw[i] \/ (raw'[i] = 0 /\ status[i] = "failed" /\ status'[i] = "pending")
    BY <1>1 DEF CanReset, Reset
  <1>2. ASSUME NEW p \in Proc, Run(p), ~Answer(p)
        PROVE  UNCHANGED raw \/ (CanReset(job[p]) /\ Reset(job[p]))
    BY <1>2, RunWrites DEF Claim, Start, Finish, Complete, LogDone, LogFail, LogCancel, Log, FailRow,
       FailOrSkip, Fail, CancelRow, CancelOrSkip, Cancel, GuiReset, DeathmarkLog, DeathmarkFail, storeVars
  <1>3. ASSUME NEW p \in Proc, Answer(p), job[p] # i PROVE raw'[i] = raw[i]
    BY <1>3, AnswerWrites
  <1>4. ASSUME NEW j \in Id, User(j) PROVE UNCHANGED raw \/ (CanReset(j) /\ Reset(j))
    BY <1>4 DEF User, UserCreate, Create, UserCancel, Cancel, UserDelete, Delete, UserRestore, Restore,
       UserResetCheck, UserResetRow, UserManual, Undisturbed, storeVars
  <1>5. ASSUME NEW s \in Sweeper, SweepStep(s) PROVE UNCHANGED raw
    BY <1>5 DEF SweepStep, SweepJudge, SweepFail, Fail, SweepLog, Log, storeVars
  <1>6. ASSUME NEW p \in Proc, Drive(p) PROVE UNCHANGED raw
    BY <1>6, DriveTable DEF storeVars
  <1>7. \A p \in Proc : job[p] \in Id \cup {0}
    BY DEF ProcOK
  <1>8. ASSUME NEW p \in Proc, Run(p)
        PROVE  \/ raw'[i] = raw[i]
               \/ raw'[i] = 0 /\ status[i] = "failed" /\ status'[i] = "pending"
               \/ Answer(p) /\ job[p] = i
    BY <1>1, <1>2, <1>3, <1>7, <1>8
  <1>9. ASSUME NEW j \in Id, User(j)
        PROVE  raw'[i] = raw[i] \/ (raw'[i] = 0 /\ status[i] = "failed" /\ status'[i] = "pending")
    BY <1>1, <1>4, <1>9
  <1> QED BY <1>5, <1>6, <1>8, <1>9 DEF Next, ProcStep, vars

(* execution_failed is logged by the runner that gives its row up, and by a
   sweep that has failed a row.                                              *)
LEMMA NextFailedLog ==
    ASSUME CalmInv, [Next]_vars, NEW i \in Id, NEW c \in Nat,
           <<i, c, "execution_failed">> \in trail', <<i, c, "execution_failed">> \notin trail
    PROVE  \/ \E p \in Proc : LogFail(p) /\ i = job[p] /\ c = att[p]
           \/ \E s \in Sweeper : SweepLog(s) /\ i = sweep[s].victim /\ c = sweep[s].claim
  <1>1. ASSUME UNCHANGED trail PROVE FALSE
    BY <1>1
  <1>2. ASSUME NEW j, NEW d, NEW e, Log(j, d, e)
        PROVE  e = "execution_failed" /\ i = j /\ c = d
    BY <1>2 DEF Log
  <1>3. ASSUME NEW j \in Id, User(j) PROVE UNCHANGED trail
    BY <1>3 DEF User, UserCreate, Create, UserCancel, Cancel, UserDelete, Delete,
       UserRestore, Restore, UserResetCheck, UserResetRow, Reset, UserManual, Start,
       Complete, Fail, SetRaw, storeVars
  <1>4. ASSUME NEW p \in Proc, Drive(p) PROVE UNCHANGED trail
    BY <1>4, DriveTable DEF storeVars
  <1>5. ASSUME NEW s \in Sweeper, SweepStep(s)
        PROVE  SweepLog(s) /\ i = sweep[s].victim /\ c = sweep[s].claim
    <2>1. CASE SweepLog(s)
      BY <1>2, <2>1 DEF SweepLog
    <2>2. CASE ~SweepLog(s)
      BY <1>1, <1>5, <2>2 DEF SweepStep, SweepJudge, SweepFail, Fail, storeVars
    <2> QED BY <2>1, <2>2
  <1>6. ASSUME NEW p \in Proc, Run(p) PROVE LogFail(p) /\ i = job[p] /\ c = att[p]
    <2>1. CASE LogFail(p)
      BY <1>2, <2>1 DEF LogFail
    <2>2. CASE LogDone(p) \/ LogCancel(p)
      BY <1>2, <2>2 DEF LogDone, LogCancel
    <2>3. CASE DeathmarkLog(p)
      BY <2>3 DEF DeathmarkLog, Step, At, CalmInv, NoExit
    <2>4. CASE \/ Claim(p) \/ Answer(p) \/ Finish(p) \/ FailRow(p) \/ CancelRow(p)
               \/ GuiReset(p) \/ DeathmarkFail(p)
      BY <1>1, <2>4 DEF Claim, Start, Answer, SetRaw, Finish, Complete, FailRow, FailOrSkip, Fail,
         CancelRow, CancelOrSkip, Cancel, GuiReset, Reset, DeathmarkFail, storeVars
    <2> QED BY <1>1, <1>6, <2>1, <2>2, <2>3, <2>4, RunWrites DEF storeVars
  <1> QED BY <1>1, <1>3, <1>4, <1>5, <1>6 DEF Next, ProcStep, vars

-----------------------------------------------------------------------------
(* Where a holder is                                                         *)

(* A holder claims, or goes on from where it was: to "answered" by storing its
   response, to "fail" by logging it, and from "logDone" and "fail" nowhere
   before it lets go of the row.                                             *)
PlaceKept(q) ==
    att'[q] # 0 =>
        \/ Claim(q) /\ pc'[q] = "mark"
        \/ /\ att'[q] = att[q] /\ job'[q] = job[q]
           /\ pc[q] = "logDone" => pc'[q] = "logDone"
           /\ pc[q] = "fail" => pc'[q] = "fail"
           /\ pc'[q] = "answered" => pc[q] = "answered" \/ Answer(q)
           /\ pc'[q] = "fail" => pc[q] = "fail" \/ LogFail(q)

(* So for every step of the runner.                                          *)
LEMMA RunPlace ==
    ASSUME BasicInv, NEW p \in Proc, Run(p), NEW q \in Proc
    PROVE  PlaceKept(q)
  <1> USE DEF BasicInv, ProcOK, LocalInv, Unclaimed, PlaceKept
  <1>1. CASE \E i \in Id : NextInBatch(p, i)
    BY <1>1 DEF NextInBatch, At, Goto
  <1>2. CASE ReturnCli(p)
    BY <1>2 DEF ReturnCli, At, Goto
  <1>3. CASE Fetch(p)
    BY <1>3 DEF Fetch, At, Goto, Step
  <1>4. CASE FetchRefused(p)
    BY <1>4 DEF FetchRefused, At, Goto, Leave
  <1>5. CASE CancelSeen(p)
    BY <1>5 DEF CancelSeen, At, Goto, Step
  <1>6. CASE Claim(p)
    BY <1>6 DEF Claim, At, Goto
  <1>7. CASE ClaimRefused(p)
    BY <1>7 DEF ClaimRefused, At, Goto, Leave
  <1>8. CASE DeathmarkClaim(p)
    BY <1>8 DEF DeathmarkClaim, At, Goto
  <1>9. CASE Prepare(p)
    BY <1>9 DEF Prepare, At, Goto, Step
  <1>10. CASE CallFails(p)
    BY <1>10 DEF CallFails, At, Goto, Step
  <1>11. CASE Answer(p)
    BY <1>11 DEF Answer, At, Goto, Step
  <1>12. CASE AnswerNotStored(p)
    BY <1>12 DEF AnswerNotStored, At, Goto, Step
  <1>13. CASE Reject(p)
    BY <1>13 DEF Reject, At, Goto, Step
  <1>14. CASE Finish(p)
    BY <1>14 DEF Finish, At, Goto, Step
  <1>15. CASE FinishRefused(p)
    BY <1>15 DEF FinishRefused, At, Goto, Step
  <1>16. CASE LogDone(p)
    BY <1>16 DEF LogDone, At, Goto, Leave
  <1>17. CASE LogFail(p)
    BY <1>17 DEF LogFail, At, Goto, Step
  <1>18. CASE FailRow(p)
    BY <1>18 DEF FailRow, At, Goto, Leave
  <1>19. CASE LogCancel(p)
    BY <1>19 DEF LogCancel, At, Goto, Step
  <1>20. CASE CancelRow(p)
    BY <1>20 DEF CancelRow, At, Goto, Leave
  <1>21. CASE GuiReset(p)
    BY <1>21 DEF GuiReset, At, Goto, Step
  <1>22. CASE Boot(p)
    BY <1>22 DEF Boot, At, Goto
  <1>23. CASE ReturnGui(p)
    BY <1>23 DEF ReturnGui, At, Goto
  <1>24. CASE WorkerFinished(p)
    BY <1>24 DEF WorkerFinished, At, Goto, Step
  <1>25. CASE DeathmarkLog(p)
    BY <1>25 DEF DeathmarkLog, At, Goto, Step
  <1>26. CASE DeathmarkNothing(p)
    BY <1>26 DEF DeathmarkNothing, At, Goto, Vanish
  <1>27. CASE DeathmarkFail(p)
    BY <1>27 DEF DeathmarkFail, At, Goto, Vanish
  <1> QED BY <1>1, <1>2, <1>3, <1>4, <1>5, <1>6, <1>7, <1>8, <1>9, <1>10, <1>11, <1>12, <1>13, <1>14,
              <1>15, <1>16, <1>17, <1>18, <1>19, <1>20, <1>21, <1>22, <1>23, <1>24, <1>25, <1>26, <1>27 DEF Run

(* A signal would be the exception.                                          *)
LEMMA DrivePlace ==
    ASSUME Undisturbed, BasicInv, NEW p \in Proc, Drive(p), NEW q \in Proc
    PROVE  PlaceKept(q)
  <1> USE DEF BasicInv, ProcOK, LocalInv, Unclaimed, PlaceKept, At, Goto
  <1>1. CASE \E i \in Id : RunId(p, i)
    BY <1>1 DEF RunId
  <1>2. CASE \E i \in Id : ClickRun(p, i)
    BY <1>2 DEF ClickRun
  <1>3. CASE RunPending(p) \/ ClickCancel(p)
    BY <1>3 DEF RunPending, ClickCancel
  <1>4. CASE Signal(p)
    BY <1>4 DEF Signal, Undisturbed
  <1>5. CASE Kill(p)
    BY <1>5 DEF Kill, Vanish
  <1> QED BY <1>1, <1>2, <1>3, <1>4, <1>5 DEF Drive

(* Users and sweeps move nobody.                                             *)
LEMMA NextPlace ==
    ASSUME Undisturbed, CalmInv, [Next]_vars, NEW q \in Proc
    PROVE  PlaceKept(q)
  <1>1. ASSUME UNCHANGED <<pc, job, att>> PROVE PlaceKept(q)
    BY <1>1 DEF PlaceKept
  <1>2. ASSUME NEW i \in Id, User(i) PROVE UNCHANGED <<pc, job, att>>
    BY <1>2, UserLocal DEF procVars, CalmInv
  <1>3. ASSUME NEW s \in Sweeper, SweepStep(s) PROVE UNCHANGED <<pc, job, att>>
    BY <1>3 DEF SweepStep, SweepJudge, SweepFail, SweepLog, procVars
  <1> QED BY <1>1, <1>2, <1>3, RunPlace, DrivePlace DEF Next, ProcStep, vars, CalmInv

(* A process that claims opens a claim: nobody held the row's current one.   *)
LEMMA ClaimWrites ==
    ASSUME CalmInv, NEW p \in Proc, Claim(p)
    PROVE  /\ job[p] \in Id /\ job'[p] = job[p] /\ status[job[p]] = "pending"
           /\ status'[job[p]] = "running" /\ claims'[job[p]] = claims[job[p]] + 1
           /\ claims'[job[p]] # claims[job[p]]
  <1>1. job[p] \in Id /\ job'[p] = job[p]
    BY DEF Claim, At, CalmInv, BasicInv, ProcOK, LocalInv, WithRow
  <1>2. claims'[job[p]] = claims[job[p]] + 1 /\ claims[job[p]] \in Nat
    BY <1>1, StartClaims DEF Claim, CalmInv, BasicInv
  <1>3. claims'[job[p]] # claims[job[p]]
    BY <1>2
  <1> QED BY <1>1, <1>2, <1>3 DEF Claim, CanStart, Start, Put, CalmInv, BasicInv, StoreOK

(* Two holders of one row are one.                                           *)
LEMMA HoldersAreOne ==
    ASSUME CalmInv, NEW p \in Proc, NEW q \in Proc, job[p] = job[q], att[p] # 0, att[q] # 0
    PROVE  p = q
  BY DEF CalmInv, Holder, ClaimsExclusive

-----------------------------------------------------------------------------
(* One attempt's output                                                      *)

(* raw_response: none in a row that waits, the completed claim's in a row that
   is completed, the holder's own from "answered" on; and who still holds a
   completed row only has its log row left to write.                         *)
RawInv == \A i \in Id :
    /\ status[i] \in {"none", "pending"} => raw[i] = 0
    /\ status[i] = "completed" => result[i] = claims[i] /\ raw[i] = claims[i]

AnswerInv == \A p \in Proc : pc[p] = "answered" => raw[job[p]] = att[p]

HolderDone == \A p \in Proc :
    att[p] # 0 /\ status[job[p]] = "completed" => pc[p] = "logDone"

OutputInv == CalmInv /\ RawInv /\ AnswerInv /\ HolderDone

(* What every undisturbed step does, in one place.                           *)
LEMMA CalmFacts ==
    ASSUME Undisturbed, CalmInv, [Next]_vars
    PROVE  /\ CalmInv' /\ RowsMove
           /\ \A i \in Id : RowEffect(i)
           /\ trail \subseteq trail'
           /\ \A q \in Proc : PlaceKept(q)
  <1>1. CalmInv'
    BY BasicStep, ClaimGivenStep, ClaimsExclusiveStep, NoExitStep,
       HolderStep, VictimFreeStep DEF CalmInv
  <1>2. TableStep /\ StoreOK
    BY NextTable DEF CalmInv, BasicInv
  <1>3. trail \subseteq trail'
    BY <1>2 DEF TableStep, Quiet, QuietOn, storeVars, Create, Start, Cancel, Complete, Fail, Reset,
       Delete, Restore, SetRaw, Log
  <1> QED BY <1>1, <1>2, <1>3, TableStepMoves, TableStepEffect, NextPlace

(* A response goes into a row that runs, and a result out of it.             *)
LEMMA RawStep ==
    ASSUME Undisturbed, OutputInv, [Next]_vars
    PROVE  RawInv'
  <1> SUFFICES ASSUME NEW i \in Id
               PROVE  /\ status'[i] \in {"none", "pending"} => raw'[i] = 0
                      /\ status'[i] = "completed" => result'[i] = claims'[i] /\ raw'[i] = claims'[i]
    BY DEF RawInv
  <1>1. CalmInv /\ CalmInv' /\ RowsMove /\ RowEffect(i)
    BY CalmFacts DEF OutputInv
  <1>2. CASE \E p \in Proc : Answer(p) /\ job[p] = i
    <2>1. PICK p \in Proc : Answer(p) /\ job[p] = i
      BY <1>2
    <2>2. att[p] # 0 /\ pc[p] = "call" /\ status' = status
      BY <1>1, <2>1, AnswerWrites
    <2>3. status[i] # "completed"
      BY <2>1, <2>2 DEF OutputInv, HolderDone
    <2>4. status[i] \notin {"none", "pending"}
      BY <1>1, <2>1, <2>2 DEF CalmInv, Holder
    <2> QED BY <2>2, <2>3, <2>4
  <1>3. CASE ~\E p \in Proc : Answer(p) /\ job[p] = i
    <2>1. raw'[i] = raw[i] \/ (raw'[i] = 0 /\ status[i] = "failed" /\ status'[i] = "pending")
      BY <1>1, <1>3, NextRaw
    <2>2. CASE status'[i] \in {"none", "pending"}
      BY <1>1, <2>1, <2>2 DEF RowEffect, OutputInv, RawInv
    <2>3. CASE status[i] = "completed"
      BY <1>1, <2>1, <2>3 DEF RowsMove, Terminal, OutputInv, RawInv
    <2>4. CASE status[i] # "completed" /\ status'[i] = "completed"
      <3>1. PICK p \in Proc : Finish(p) /\ job[p] = i
        BY <1>1, <2>4, NextCompletes
      <3>2. raw[i] = att[p]
        BY <1>1, <3>1, FinishWrites DEF OutputInv, AnswerInv
      <3> QED BY <1>1, <2>4, <3>1, <3>2, FinishWrites
    <2> QED BY <2>2, <2>3, <2>4
  <1> QED BY <1>2, <1>3

(* Nobody but its holder, and no reset, touches the response.                *)
LEMMA AnswerStep ==
    ASSUME Undisturbed, OutputInv, [Next]_vars
    PROVE  AnswerInv'
  <1> SUFFICES ASSUME NEW q \in Proc, pc'[q] = "answered" PROVE raw'[job'[q]] = att'[q]
    BY DEF AnswerInv
  <1>1. CalmInv /\ CalmInv' /\ PlaceKept(q)
    BY CalmFacts DEF OutputInv
  <1>2. att'[q] # 0
    BY <1>1 DEF CalmInv, BasicInv, LocalInv, Claimed
  <1>3. att'[q] = att[q] /\ job'[q] = job[q] /\ (pc[q] = "answered" \/ Answer(q))
    BY <1>1, <1>2 DEF PlaceKept
  <1>4. CASE Answer(q)
    BY <1>1, <1>3, <1>4, AnswerWrites
  <1>5. CASE pc[q] = "answered"
    <2>1. job[q] \in Id /\ Holder(q)
      BY <1>1, <1>2, <1>3 DEF CalmInv, BasicInv, ProcOK, LocalInv
    <2>2. ASSUME NEW p \in Proc, Answer(p), job[p] = job[q] PROVE FALSE
      <3>1. p = q
        BY <1>1, <1>2, <1>3, <2>2, AnswerWrites, HoldersAreOne
      <3> QED BY <1>1, <1>5, <2>2, <3>1, AnswerWrites
    <2>3. status[job[q]] # "failed"
      BY <1>2, <1>3, <2>1 DEF Holder
    <2>4. raw'[job[q]] = raw[job[q]]
      BY <1>1, <2>1, <2>2, <2>3, NextRaw
    <2> QED BY <1>3, <1>5, <2>4 DEF OutputInv, AnswerInv
  <1> QED BY <1>3, <1>4, <1>5

(* Whoever completes a row is its only holder.                               *)
LEMMA HolderDoneStep ==
    ASSUME Undisturbed, OutputInv, [Next]_vars
    PROVE  HolderDone'
  <1> SUFFICES ASSUME NEW q \in Proc, att'[q] # 0, status'[job'[q]] = "completed"
               PROVE  pc'[q] = "logDone"
    BY DEF HolderDone
  <1>1. CalmInv /\ CalmInv' /\ PlaceKept(q)
    BY CalmFacts DEF OutputInv
  <1>2. ~Claim(q)
    BY <1>1, ClaimWrites
  <1>3. /\ att'[q] = att[q] /\ job'[q] = job[q]
        /\ pc[q] = "logDone" => pc'[q] = "logDone"
    BY <1>1, <1>2 DEF PlaceKept
  <1>4. job[q] \in Id
    BY <1>1, <1>3 DEF CalmInv, BasicInv, ProcOK, LocalInv
  <1>5. CASE status[job[q]] = "completed"
    BY <1>3, <1>5 DEF OutputInv, HolderDone
  <1>6. CASE status[job[q]] # "completed"
    <2>1. PICK p \in Proc : Finish(p) /\ job[p] = job[q]
      BY <1>1, <1>3, <1>4, <1>6, NextCompletes
    <2>2. p = q
      BY <1>1, <1>3, <2>1, FinishWrites, HoldersAreOne
    <2> QED BY <1>1, <2>1, <2>2, FinishWrites
  <1> QED BY <1>5, <1>6

(* Together they are inductive.                                              *)
LEMMA OutputAlways == ASSUME Undisturbed PROVE Spec => []OutputInv
  <1>1. ASSUME Init PROVE RawInv /\ AnswerInv /\ HolderDone
    BY <1>1 DEF Init, InitStore, InitRunner, RawInv, AnswerInv, HolderDone
  <1>2. ASSUME CalmInv, CalmInv', RawInv /\ AnswerInv /\ HolderDone, [Next]_vars
        PROVE  (RawInv /\ AnswerInv /\ HolderDone)'
    BY <1>2, RawStep, AnswerStep, HolderDoneStep DEF OutputInv
  <1>3. (CalmInv /\ RawInv /\ AnswerInv /\ HolderDone) => OutputInv
    BY DEF OutputInv
  <1> QED BY <1>1, <1>2, <1>3, CalmAlways, PTL DEF Spec

(* Undisturbed, a completed row stores what its last attempt, and no other,
   got and took as the result.                                               *)
THEOREM ResultIsOneAttempts == ASSUME Undisturbed PROVE Spec => []ResultIsLastRaw
  <1>1. OutputInv => ResultIsLastRaw
    BY DEF OutputInv, RawInv, ResultIsLastRaw
  <1> QED BY <1>1, OutputAlways, PTL

(* Undisturbed, a row that waits for its next run carries nothing of an
   earlier one.                                                              *)
THEOREM RetriesStartClean == ASSUME Undisturbed PROVE Spec => []RetryStartsClean
  <1>1. OutputInv /\ ColumnsMatchStatus => RetryStartsClean
    BY DEF OutputInv, RawInv, ColumnsMatchStatus, RetryStartsClean
  <1> QED BY <1>1, OutputAlways, ColumnsAlwaysMatch, PTL

-----------------------------------------------------------------------------
(* One verdict                                                               *)

(* A claim that is logged as failed is an old one, or is not completed and its
   holder, if there still is one, is about to fail the row.                  *)
GivenUp(i, c) ==
    /\ c <= claims[i]
    /\ c = claims[i] => /\ status[i] # "completed"
                        /\ \A p \in Proc : job[p] = i /\ att[p] # 0 => pc[p] = "fail"

FailedInv == \A i \in Id, c \in Nat : <<i, c, "execution_failed">> \in trail => GivenUp(i, c)

(* The claim a sweep has failed stays failed until the row is claimed again. *)
Swept(s) ==
    sweep[s].stage = "swept" =>
        LET i == sweep[s].victim  c == sweep[s].claim IN
        /\ c <= claims[i]
        /\ c = claims[i] => /\ status[i] \in {"failed", "pending", "cancelled"}
                            /\ \A p \in Proc : ~(job[p] = i /\ att[p] # 0)

VerdictInv == OutputInv /\ FailedInv /\ \A s \in Sweeper : Swept(s)

(* A claim that is the row's last one still was so before the step.          *)
LEMMA LastClaim ==
    ASSUME CalmInv, NEW i \in Id, RowEffect(i), NEW c \in Nat, c <= claims[i]
    PROVE  c <= claims'[i] /\ (c = claims'[i] => c = claims[i] /\ claims'[i] = claims[i])
  <1>1. claims[i] \in Nat
    BY DEF CalmInv, BasicInv, StoreOK
  <1>2. claims'[i] = claims[i] \/ claims'[i] = claims[i] + 1
    BY DEF RowEffect
  <1>3. CASE claims'[i] = claims[i]
    BY <1>3
  <1>4. CASE claims'[i] = claims[i] + 1
    BY <1>1, <1>4
  <1> QED BY <1>2, <1>3, <1>4

(* Who holds a row after a step without a claim on it held it before.        *)
LEMMA HeldBefore ==
    ASSUME CalmInv, NEW q \in Proc, PlaceKept(q), att'[q] # 0, claims'[job'[q]] = claims[job'[q]]
    PROVE  /\ att'[q] = att[q] /\ job'[q] = job[q]
           /\ pc[q] = "fail" => pc'[q] = "fail"
  <1>1. ~Claim(q)
    BY ClaimWrites
  <1> QED BY <1>1 DEF PlaceKept

(* What a sweep leaves behind when it has failed a row, and before it logs.  *)
LEMMA SweepNow ==
    ASSUME ClientOK, NEW s \in Sweeper, SweepStep(s), sweep'[s].stage = "swept"
    PROVE  /\ SweepFail(s) /\ sweep[s].stage = "judged"
           /\ sweep'[s].victim = sweep[s].victim /\ sweep'[s].claim = claims[sweep[s].victim]
           /\ CanFail(sweep[s].victim) /\ Fail(sweep[s].victim, TRUE)
           /\ UNCHANGED <<job, att>>
  <1> DEFINE i == sweep[s].victim
             judged(j) == [stage |-> "judged", victim |-> j, claim |-> 0]
             swept == [stage |-> "swept", victim |-> i, claim |-> claims[i]]
  <1>1. /\ swept.victim = i /\ swept.claim = claims[i]
        /\ NoSweep.stage # "swept" /\ \A j \in Id : judged(j).stage # "swept"
    BY DEF NoSweep
  <1> HIDE DEF judged, swept
  <1>2. ASSUME NEW j \in Id, SweepJudge(s, j) PROVE FALSE
    BY <1>1, <1>2 DEF SweepJudge, ClientOK, judged
  <1>3. ~SweepLog(s)
    BY <1>1 DEF SweepLog, ClientOK
  <1>4. SweepFail(s)
    BY <1>2, <1>3 DEF SweepStep
  <1>5. sweep' # [sweep EXCEPT ![s] = NoSweep]
    BY <1>1 DEF ClientOK
  <1>6. sweep' = [sweep EXCEPT ![s] = swept] /\ CanFail(i) /\ Fail(i, TRUE)
    BY <1>4, <1>5 DEF SweepFail, swept
  <1>7. sweep'[s] = swept
    BY <1>6 DEF ClientOK
  <1> QED BY <1>1, <1>4, <1>6, <1>7 DEF SweepFail, procVars

(* A sweep is where it was, or has moved by itself.                          *)
LEMMA NextSweep ==
    ASSUME Undisturbed, CalmInv, [Next]_vars, NEW s \in Sweeper
    PROVE  sweep'[s] = sweep[s] \/ SweepStep(s)
  <1>1. ASSUME NEW j \in Id, User(j) PROVE UNCHANGED sweep
    BY <1>1, UserLocal DEF CalmInv
  <1>2. ASSUME NEW t \in Sweeper, SweepStep(t) PROVE SweepStep(s)
    <2>1. t = s
      BY DEF Undisturbed
    <2> QED BY <1>2, <2>1
  <1> QED BY <1>1, <1>2 DEF Next, ProcStep, vars

(* Only a claim moves a failed row on to running.                            *)
LEMMA SweptStep ==
    ASSUME Undisturbed, VerdictInv, [Next]_vars, NEW s \in Sweeper
    PROVE  Swept(s)'
  <1> SUFFICES ASSUME sweep'[s].stage = "swept" PROVE Swept(s)'
    BY DEF Swept
  <1>1. CalmInv /\ \A i \in Id : RowEffect(i)
    BY CalmFacts DEF VerdictInv, OutputInv
  <1>2. CASE sweep'[s] = sweep[s]
    <2>1. PICK i \in Id, c \in Nat : i = sweep[s].victim /\ c = sweep[s].claim
      BY <1>1, <1>2 DEF CalmInv, BasicInv, ClientOK, VictimInv, Sweep
    <2>2. c <= claims[i] /\ (c = claims[i] =>
             /\ status[i] \in {"failed", "pending", "cancelled"}
             /\ \A p \in Proc : ~(job[p] = i /\ att[p] # 0))
      BY <1>2, <2>1 DEF VerdictInv, Swept
    <2>3. c <= claims'[i] /\ (c = claims'[i] => c = claims[i] /\ claims'[i] = claims[i])
      BY <1>1, <2>2, LastClaim
    <2>4. ASSUME c = claims'[i]
          PROVE  status'[i] \in {"failed", "pending", "cancelled"}
      <3>1. status'[i] # "completed"
        BY <1>1, <2>2, <2>3, <2>4, NextCompletes, FinishWrites DEF CalmInv, Holder
      <3>2. status'[i] # "running"
        <4>1. claims[i] \in Nat
          BY <1>1 DEF CalmInv, BasicInv, StoreOK
        <4>2. claims'[i] # claims[i] + 1
          BY <2>3, <2>4, <4>1
        <4> QED BY <1>1, <2>2, <2>3, <2>4, <4>2 DEF RowEffect
      <3>3. status'[i] # "none"
        BY <1>1, <2>2, <2>3, <2>4 DEF RowEffect
      <3>4. status'[i] \in Status
        BY <1>1, CalmFacts DEF CalmInv, BasicInv, StoreOK
      <3> QED BY <3>1, <3>2, <3>3, <3>4 DEF Status
    <2>5. ASSUME c = claims'[i], NEW p \in Proc, job'[p] = i, att'[p] # 0
          PROVE  FALSE
      <3>1. att'[p] = att[p] /\ job'[p] = job[p]
        BY <1>1, <2>3, <2>5, HeldBefore, NextPlace
      <3> QED BY <2>2, <2>3, <2>5, <3>1
    <2> QED BY <1>2, <2>1, <2>3, <2>4, <2>5 DEF Swept
  <1>3. CASE SweepStep(s)
    <2>1. PICK i \in Id : i = sweep[s].victim /\ sweep[s].stage = "judged"
      BY <1>1, <1>3, SweepNow DEF CalmInv, BasicInv, ClientOK, VictimInv, Sweep
    <2>2. /\ sweep'[s].victim = i /\ sweep'[s].claim = claims[i] /\ Fail(i, TRUE)
          /\ UNCHANGED <<job, att>>
      BY <1>1, <1>3, <2>1, SweepNow DEF CalmInv, BasicInv
    <2>3. claims'[i] = claims[i] /\ claims[i] \in Nat /\ status'[i] = "failed"
      BY <1>1, <2>2 DEF Fail, Put, CalmInv, BasicInv, StoreOK
    <2>4. \A p \in Proc : ~(job'[p] = i /\ att'[p] # 0)
      BY <1>1, <2>1, <2>2 DEF CalmInv, VictimFree, Tended
    <2> QED BY <2>2, <2>3, <2>4 DEF Swept
  <1> QED BY <1>1, <1>2, <1>3, NextSweep

(* What is given up stays given up.                                          *)
LEMMA GivenUpStep ==
    ASSUME Undisturbed, VerdictInv, [Next]_vars, NEW i \in Id, NEW c \in Nat, GivenUp(i, c)
    PROVE  GivenUp(i, c)'
  <1>1. CalmInv /\ RowEffect(i)
    BY CalmFacts DEF VerdictInv, OutputInv
  <1>2. c <= claims[i]
    BY DEF GivenUp
  <1>3. c <= claims'[i] /\ (c = claims'[i] => c = claims[i] /\ claims'[i] = claims[i])
    BY <1>1, <1>2, LastClaim
  <1>4. ASSUME c = claims'[i]
        PROVE  status'[i] # "completed"
    <2> SUFFICES ASSUME status'[i] = "completed" PROVE FALSE
      OBVIOUS
    <2>1. PICK p \in Proc : Finish(p) /\ job[p] = i
      BY <1>1, <1>3, <1>4, NextCompletes DEF GivenUp
    <2>2. att[p] # 0 /\ pc[p] = "answered"
      BY <1>1, <2>1, FinishWrites
    <2> QED BY <1>3, <1>4, <2>1, <2>2 DEF GivenUp
  <1>5. ASSUME c = claims'[i], NEW p \in Proc, job'[p] = i, att'[p] # 0
        PROVE  pc'[p] = "fail"
    <2>1. /\ att'[p] = att[p] /\ job'[p] = job[p]
          /\ pc[p] = "fail" => pc'[p] = "fail"
      BY <1>1, <1>3, <1>5, HeldBefore, NextPlace
    <2> QED BY <1>3, <1>5, <2>1 DEF GivenUp
  <1> QED BY <1>3, <1>4, <1>5 DEF GivenUp

(* What a runner writes into the log before it fails its row.                *)
LEMMA LogFailWrites ==
    ASSUME CalmInv, NEW p \in Proc, LogFail(p)
    PROVE  /\ job[p] \in Id /\ att[p] # 0 /\ pc[p] = "logFail" /\ pc'[p] = "fail"
           /\ att[p] = claims[job[p]] /\ UNCHANGED <<status, claims, job, att>>
  <1>1. pc[p] = "logFail" /\ pc'[p] = "fail" /\ UNCHANGED <<job, att>>
    BY DEF LogFail, Step, At, Goto, CalmInv, BasicInv, ProcOK
  <1>2. job[p] \in Id /\ att[p] # 0
    BY <1>1 DEF CalmInv, BasicInv, ProcOK, LocalInv, WithRow, Claimed
  <1>3. att[p] = claims[job[p]]
    BY <1>2 DEF CalmInv, Holder
  <1> QED BY <1>1, <1>2, <1>3 DEF LogFail, Log

(* Neither log row contradicts a completed row.                              *)
LEMMA FailedStep ==
    ASSUME Undisturbed, VerdictInv, [Next]_vars
    PROVE  FailedInv'
  <1> SUFFICES ASSUME NEW i \in Id, NEW c \in Nat, <<i, c, "execution_failed">> \in trail'
               PROVE  GivenUp(i, c)'
    BY DEF FailedInv, GivenUp
  <1>1. CalmInv
    BY DEF VerdictInv, OutputInv
  <1>2. CASE <<i, c, "execution_failed">> \in trail
    BY <1>2, GivenUpStep DEF VerdictInv, FailedInv
  <1>3. ASSUME NEW p \in Proc, LogFail(p), i = job[p], c = att[p]
        PROVE  GivenUp(i, c)'
    <2>1. /\ att[p] # 0 /\ pc[p] = "logFail" /\ pc'[p] = "fail" /\ c = claims[i]
          /\ UNCHANGED <<status, claims, job, att>>
      BY <1>1, <1>3, LogFailWrites
    <2>2. status[i] # "completed"
      BY <1>3, <2>1 DEF VerdictInv, OutputInv, HolderDone
    <2>3. \A q \in Proc : job[q] = i /\ att[q] # 0 => q = p
      BY <1>1, <1>3, <2>1, HoldersAreOne
    <2> QED BY <2>1, <2>2, <2>3 DEF GivenUp
  <1>4. ASSUME NEW s \in Sweeper, SweepLog(s), i = sweep[s].victim, c = sweep[s].claim
        PROVE  GivenUp(i, c)'
    <2>1. sweep[s].stage = "swept" /\ UNCHANGED <<status, claims, job, att, pc>>
      BY <1>4 DEF SweepLog, Log, procVars
    <2>2. c <= claims[i] /\ (c = claims[i] =>
             /\ status[i] \in {"failed", "pending", "cancelled"}
             /\ \A p \in Proc : ~(job[p] = i /\ att[p] # 0))
      BY <1>4, <2>1 DEF VerdictInv, Swept
    <2> QED BY <2>1, <2>2 DEF GivenUp
  <1> QED BY <1>1, <1>2, <1>3, <1>4, NextFailedLog

(* Together with OutputInv they are inductive.                               *)
LEMMA VerdictAlways == ASSUME Undisturbed PROVE Spec => []VerdictInv
  <1>1. ASSUME Init PROVE FailedInv /\ \A s \in Sweeper : Swept(s)
    BY <1>1 DEF Init, InitStore, NoSweep, FailedInv, Swept
  <1>2. ASSUME OutputInv, OutputInv', FailedInv /\ \A s \in Sweeper : Swept(s), [Next]_vars
        PROVE  (FailedInv /\ \A s \in Sweeper : Swept(s))'
    BY <1>2, FailedStep, SweptStep DEF VerdictInv
  <1>3. (OutputInv /\ FailedInv /\ \A s \in Sweeper : Swept(s)) => VerdictInv
    BY DEF VerdictInv
  <1> QED BY <1>1, <1>2, <1>3, OutputAlways, PTL DEF Spec

(* What CompletedLogAlwaysTrue of ActaProofs rests on.                       *)
LEMMA LogAlways == Spec => []LogInv
  <1>1. ASSUME Init PROVE LogInv /\ DoneInv
    BY <1>1 DEF Init, InitStore, InitRunner, LogInv, DoneInv
  <1>2. ASSUME BasicInv, LogInv /\ DoneInv, [Next]_vars PROVE (LogInv /\ DoneInv)'
    BY <1>2, LogInvStep, DoneInvStep
  <1> QED BY <1>1, <1>2, BasicAlways, PTL DEF Spec

(* Undisturbed, no attempt is logged both as completed and as failed.        *)
THEOREM VerdictsAreOne == ASSUME Undisturbed PROVE Spec => []OneVerdict
  <1>1. ASSUME VerdictInv, LogInv PROVE OneVerdict
    <2> SUFFICES ASSUME NEW i \in Id, NEW c \in 1..MaxClaims,
                        <<i, c, "execution_completed">> \in trail,
                        <<i, c, "execution_failed">> \in trail
                 PROVE  FALSE
      BY DEF OneVerdict
    <2>0. c \in Nat
      BY MaxClaimsAssumption
    <2>1. status[i] = "completed" /\ result[i] = c
      BY <1>1, <2>0 DEF LogInv
    <2>2. c = claims[i]
      BY <1>1, <2>1 DEF VerdictInv, OutputInv, RawInv
    <2> QED BY <1>1, <2>0, <2>1, <2>2 DEF VerdictInv, FailedInv, GivenUp
  <1> QED BY <1>1, VerdictAlways, LogAlways, PTL

-----------------------------------------------------------------------------
(* No failure without its log row                                            *)

(* As long as no statement fails: who is about to fail its row has logged it,
   and a failed row is logged, or a sweep is about to.                       *)
Calm == Undisturbed /\ ~Busy

FailLogged == \A p \in Proc : pc[p] = "fail" => <<job[p], att[p], "execution_failed">> \in trail

Logged(i) ==
    status[i] = "failed" =>
        \/ <<i, claims[i], "execution_failed">> \in trail
        \/ \E s \in Sweeper : /\ sweep[s].stage = "swept" /\ sweep[s].victim = i
                              /\ sweep[s].claim = claims[i]

(* The log row comes before the transition.                                  *)
LEMMA FailLoggedStep ==
    ASSUME Calm, CalmInv, FailLogged, [Next]_vars
    PROVE  FailLogged'
  <1> SUFFICES ASSUME NEW q \in Proc, pc'[q] = "fail"
               PROVE  <<job'[q], att'[q], "execution_failed">> \in trail'
    BY DEF FailLogged
  <1>1. CalmInv' /\ PlaceKept(q) /\ trail \subseteq trail'
    BY CalmFacts DEF Calm
  <1>2. att'[q] # 0
    BY <1>1 DEF CalmInv, BasicInv, LocalInv, Claimed
  <1>3. att'[q] = att[q] /\ job'[q] = job[q] /\ (pc[q] = "fail" \/ LogFail(q))
    BY <1>1, <1>2 DEF PlaceKept
  <1>4. CASE LogFail(q)
    BY <1>3, <1>4 DEF LogFail, Log, Calm
  <1>5. CASE pc[q] = "fail"
    BY <1>1, <1>3, <1>5 DEF FailLogged
  <1> QED BY <1>3, <1>4, <1>5

(* A sweep fails first and logs next.                                        *)
LEMMA LoggedStep ==
    ASSUME Calm, CalmInv, FailLogged, NEW i \in Id, Logged(i), [Next]_vars
    PROVE  Logged(i)'
  <1> SUFFICES ASSUME status'[i] = "failed" PROVE Logged(i)'
    BY DEF Logged
  <1>1. CalmInv' /\ RowEffect(i) /\ trail \subseteq trail'
    BY CalmFacts DEF Calm
  <1>2. status[i] \in {"failed", "running"} /\ claims'[i] = claims[i]
    BY <1>1 DEF RowEffect
  <1>3. CASE status[i] = "failed"
    <2>1. CASE <<i, claims[i], "execution_failed">> \in trail
      BY <1>1, <1>2, <2>1 DEF Logged
    <2>2. ASSUME NEW s \in Sweeper, sweep[s].stage = "swept", sweep[s].victim = i,
                 sweep[s].claim = claims[i]
          PROVE  Logged(i)'
      <3>1. CASE sweep'[s] = sweep[s]
        BY <1>2, <2>2, <3>1 DEF Logged
      <3>2. CASE SweepLog(s)
        BY <1>2, <2>2, <3>2 DEF SweepLog, Log, Calm, Logged
      <3>3. ~SweepFail(s) /\ \A j \in Id : ~SweepJudge(s, j)
        BY <2>2 DEF SweepFail, SweepJudge
      <3> QED BY <3>1, <3>2, <3>3, NextSweep DEF SweepStep, Calm
    <2> QED BY <1>3, <2>1, <2>2 DEF Logged
  <1>4. CASE status[i] = "running"
    <2>1. ASSUME NEW p \in Proc, FailRow(p), job[p] = i PROVE Logged(i)'
      <3>1. pc[p] = "fail" /\ att[p] # 0
        BY <2>1 DEF FailRow, At, CalmInv, BasicInv, LocalInv, Claimed
      <3>2. att[p] = claims[i]
        BY <2>1, <3>1 DEF CalmInv, Holder
      <3> QED BY <1>1, <1>2, <2>1, <3>1, <3>2 DEF FailLogged, Logged
    <2>2. ASSUME NEW s \in Sweeper, SweepFail(s), sweep[s].victim = i PROVE Logged(i)'
      <3>1. sweep' = [sweep EXCEPT ![s] = [stage |-> "swept", victim |-> i, claim |-> claims[i]]]
        BY <1>4, <2>2 DEF SweepFail, CanFail, Calm
      <3>2. sweep'[s] = [stage |-> "swept", victim |-> i, claim |-> claims[i]]
        BY <3>1 DEF CalmInv, BasicInv, ClientOK
      <3>3. sweep'[s].stage = "swept" /\ sweep'[s].victim = i /\ sweep'[s].claim = claims[i]
        BY <3>2
      <3> QED BY <1>2, <3>3 DEF Logged
    <2> QED BY <1>4, <2>1, <2>2, NextFails DEF Calm
  <1> QED BY <1>2, <1>3, <1>4

(* As long as no statement fails either, a failed row has the log row that
   tells why, or a sweep is on its way to write it.                          *)
THEOREM FailuresAreLogged == ASSUME Calm PROVE Spec => []FailureIsLogged
  <1>1. ASSUME Init PROVE FailLogged /\ \A i \in Id : Logged(i)
    BY <1>1 DEF Init, InitStore, InitRunner, FailLogged, Logged
  <1>2. ASSUME CalmInv, FailLogged /\ \A i \in Id : Logged(i), [Next]_vars
        PROVE  (FailLogged /\ \A i \in Id : Logged(i))'
    BY <1>2, FailLoggedStep, LoggedStep
  <1>3. (FailLogged /\ \A i \in Id : Logged(i)) => FailureIsLogged
    BY DEF Logged, FailureIsLogged
  <1>4. Undisturbed
    BY DEF Calm
  <1> QED BY <1>1, <1>2, <1>3, <1>4, CalmAlways, PTL DEF Spec
=============================================================================
