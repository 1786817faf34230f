----------------------------- MODULE ActaProofs -----------------------------
(***************************************************************************)
(* Theorems about Acta for every set of rows, processes and sweeps, and    *)
(* every bound on the number of claims.                                    *)
(***************************************************************************)
EXTENDS Acta, TLAPS

-----------------------------------------------------------------------------
(* Types of the store *)

StoreOK == /\ status \in [Id -> Status]
           /\ deleted \in [Id -> BOOLEAN]
           /\ raw \in [Id -> Int]
           /\ result \in [Id -> Int]
           /\ error \in [Id -> BOOLEAN]
           /\ started \in [Id -> BOOLEAN]
           /\ ended \in [Id -> BOOLEAN]
           /\ claims \in [Id -> Nat]
           /\ trail \subseteq Id \X Nat \X Event

(* Every statement of ExecStore keeps the table well typed.                  *)
LEMMA CreateOK == ASSUME StoreOK, NEW i \in Id, Create(i) PROVE StoreOK'
  BY DEF StoreOK, Put, Create, Status

LEMMA StartOK == ASSUME StoreOK, NEW i \in Id, Start(i) PROVE StoreOK'
  BY DEF StoreOK, Put, Start, Status

LEMMA CancelOK == ASSUME StoreOK, NEW i \in Id, Cancel(i) PROVE StoreOK'
  BY DEF StoreOK, Put, Cancel, Status

LEMMA CompleteOK == ASSUME StoreOK, NEW i \in Id, NEW v \in Int, Complete(i, v) PROVE StoreOK'
  BY DEF StoreOK, Put, Complete, Status

LEMMA FailOK == ASSUME StoreOK, NEW i \in Id, NEW e \in BOOLEAN, Fail(i, e) PROVE StoreOK'
  BY DEF StoreOK, Put, Fail, Status

LEMMA ResetOK == ASSUME StoreOK, NEW i \in Id, Reset(i) PROVE StoreOK'
  BY DEF StoreOK, Put, Reset, Status

LEMMA DeleteOK == ASSUME StoreOK, NEW i \in Id, Delete(i) PROVE StoreOK'
  BY DEF StoreOK, Put, Delete

LEMMA RestoreOK == ASSUME StoreOK, NEW i \in Id, Restore(i) PROVE StoreOK'
  BY DEF StoreOK, Put, Restore

LEMMA SetRawOK == ASSUME StoreOK, NEW i \in Id, NEW v \in Int, SetRaw(i, v) PROVE StoreOK'
  BY DEF StoreOK, Put, SetRaw

LEMMA LogOK == ASSUME StoreOK, NEW i \in Id, NEW c \in Nat, NEW e \in Event, Log(i, c, e) PROVE StoreOK'
  BY DEF StoreOK, Put, Log

LEMMA SkipOK == ASSUME StoreOK, UNCHANGED storeVars PROVE StoreOK'
  BY DEF StoreOK, storeVars

(* What one step may do to the table: one statement, whose status guard held.
   Quiet leaves complete() out.                                              *)
QuietOn(i) == \/ CanCreate(i) /\ Create(i)
              \/ CanStart(i) /\ Start(i)
              \/ CanCancel(i) /\ Cancel(i)
              \/ \E e \in BOOLEAN : CanFail(i) /\ Fail(i, e)
              \/ CanReset(i) /\ Reset(i)
              \/ Delete(i)
              \/ Restore(i)
              \/ \E v \in Int : SetRaw(i, v)
              \/ \E c \in Nat, e \in Event : Log(i, c, e)

Quiet == UNCHANGED storeVars \/ \E i \in Id : QuietOn(i)

TableStep == Quiet \/ \E i \in Id, v \in Int : CanComplete(i) /\ Complete(i, v)

LEMMA TableStepOK == ASSUME StoreOK, TableStep PROVE StoreOK'
  BY CreateOK, StartOK, CancelOK, CompleteOK, FailOK, ResetOK, DeleteOK,
     RestoreOK, SetRawOK, LogOK, SkipOK
  DEF TableStep, Quiet, QuietOn

(* What one step may do to the status, the claim and the result of each row.  *)
RowsMove == \A i \in Id :
    /\ claims'[i] \in {claims[i], claims[i] + 1}
    /\ status[i] \in Terminal =>
          status'[i] = status[i] /\ result'[i] = result[i] /\ claims'[i] = claims[i]
    /\ status[i] = "running" =>
          /\ status'[i] \in {"running", "completed", "cancelled", "failed"}
          /\ claims'[i] = claims[i]

LEMMA TableStepMoves == ASSUME StoreOK, TableStep PROVE RowsMove
  <1> USE DEF StoreOK, RowsMove, Terminal, Put
  <1>1. CASE UNCHANGED storeVars
    BY <1>1 DEF storeVars
  <1>2. ASSUME NEW i \in Id, NEW v \in Int, CanComplete(i), Complete(i, v) PROVE RowsMove
    BY <1>2 DEF CanComplete, Complete
  <1>3. ASSUME NEW i \in Id, CanCreate(i), Create(i) PROVE RowsMove
    BY <1>3 DEF CanCreate, Create
  <1>4. ASSUME NEW i \in Id, CanStart(i), Start(i) PROVE RowsMove
    BY <1>4 DEF CanStart, Start
  <1>5. ASSUME NEW i \in Id, CanCancel(i), Cancel(i) PROVE RowsMove
    BY <1>5 DEF CanCancel, Cancel
  <1>6. ASSUME NEW i \in Id, NEW e \in BOOLEAN, CanFail(i), Fail(i, e) PROVE RowsMove
    BY <1>6 DEF CanFail, Fail
  <1>7. ASSUME NEW i \in Id, CanReset(i), Reset(i) PROVE RowsMove
    BY <1>7 DEF CanReset, Reset
  <1>8. ASSUME NEW i \in Id, Delete(i) \/ Restore(i) PROVE RowsMove
    BY <1>8 DEF Delete, Restore
  <1>9. ASSUME NEW i \in Id, NEW v \in Int, SetRaw(i, v) PROVE RowsMove
    BY <1>9 DEF SetRaw
  <1>10. ASSUME NEW i \in Id, NEW c \in Nat, NEW e \in Event, Log(i, c, e) PROVE RowsMove
    BY <1>10 DEF Log
  <1> HIDE DEF RowsMove
  <1> QED BY <1>1, <1>2, <1>3, <1>4, <1>5, <1>6, <1>7, <1>8, <1>9, <1>10
          DEF TableStep, Quiet, QuietOn

-----------------------------------------------------------------------------
(* Types of the processes and of the sweeps *)

ProcOK == /\ pc \in [Proc -> Location]
          /\ job \in [Proc -> Id \cup {0}]
          /\ att \in [Proc -> Nat]
          /\ mark \in [Proc -> Id \cup {0}]
          /\ todo \in [Proc -> SUBSET Id]
          /\ flag \in [Proc -> BOOLEAN]

ClientOK == resetting \subseteq Id /\ sweep \in [Sweeper -> Sweep]

(* Where a process is tells whether it has a row and whether it has claimed
   it: a row from the fetch to the last transition, a claim from start() on.  *)
Unclaimed == {"idle", "batch", "guiReset", "boot", "fetch", "claim", "return", "done"}
Claimed   == {"mark", "prepare", "call", "answered", "logDone", "logFail", "fail"}
WithRow   == Claimed \cup {"guiReset", "boot", "fetch", "claim", "logCancel", "cancel"}

LocalInv == \A p \in Proc : /\ pc[p] \in Unclaimed => att[p] = 0
                            /\ pc[p] \in Claimed => att[p] # 0
                            /\ pc[p] \in WithRow => job[p] # 0
                            /\ att[p] # 0 => job[p] # 0
                            /\ pc[p] = "exitFail" => mark[p] # 0

VictimInv == \A s \in Sweeper : sweep[s].stage # "idle" => sweep[s].victim # 0

BasicInv == StoreOK /\ ProcOK /\ ClientOK /\ LocalInv /\ VictimInv

(* The steps of a process that write to the table.                            *)
LEMMA RunWrites ==
    ASSUME NEW p \in Proc, Run(p)
    PROVE  \/ UNCHANGED storeVars
           \/ Claim(p) \/ Answer(p) \/ Finish(p) \/ LogDone(p) \/ LogFail(p)
           \/ FailRow(p) \/ LogCancel(p) \/ CancelRow(p) \/ GuiReset(p)
           \/ DeathmarkLog(p) \/ DeathmarkFail(p)
  BY DEF Run, NextInBatch, ReturnCli, Fetch, FetchRefused, CancelSeen, ClaimRefused,
         DeathmarkClaim, Prepare, CallFails, AnswerNotStored, Reject,
         FinishRefused, Boot, ReturnGui, WorkerFinished, DeathmarkNothing

(* Every step of a process is one guarded statement about a row that exists;
   Finish is the only one that completes it.                                 *)
LEMMA RunTable ==
    ASSUME BasicInv, NEW p \in Proc, Run(p)
    PROVE  Quiet \/ Finish(p)
  <1> USE DEF BasicInv, QuietOn
  <1>r. pc[p] \in WithRow => job[p] \in Id /\ att[p] \in Nat /\ att[p] \in Int
    BY DEF ProcOK, LocalInv
  <1>m. MarkStillRunning(p) \/ pc[p] = "exitFail" => mark[p] \in Id /\ claims[mark[p]] \in Nat
    BY DEF ProcOK, LocalInv, StoreOK, MarkStillRunning
  <1> USE DEF WithRow, Claimed, At, Step
  <1>1. CASE UNCHANGED storeVars
    BY <1>1 DEF Quiet
  <1>2. CASE Claim(p)
    BY <1>2, <1>r DEF Claim, Quiet
  <1>3. CASE Answer(p)
    BY <1>3, <1>r DEF Answer, Quiet
  <1>4. CASE LogDone(p) \/ LogFail(p) \/ LogCancel(p)
    BY <1>4, <1>r DEF LogDone, LogFail, LogCancel, Event, Quiet
  <1>5. CASE FailRow(p)
    BY <1>5, <1>r DEF FailRow, FailOrSkip, Quiet
  <1>6. CASE CancelRow(p)
    BY <1>6, <1>r DEF CancelRow, CancelOrSkip, Quiet
  <1>7. CASE GuiReset(p)
    BY <1>7, <1>r DEF GuiReset, Quiet
  <1>8. CASE DeathmarkLog(p)
    BY <1>8, <1>m DEF DeathmarkLog, Event, Quiet
  <1>9. CASE DeathmarkFail(p)
    BY <1>9, <1>m DEF DeathmarkFail, FailOrSkip, Quiet
  <1> QED BY <1>1, <1>2, <1>3, <1>4, <1>5, <1>6, <1>7, <1>8, <1>9, RunWrites

LEMMA DriveTable ==
    ASSUME NEW p \in Proc, Drive(p)
    PROVE  UNCHANGED storeVars
  BY DEF Drive, RunId, RunPending, ClickRun, ClickCancel, Kill, Signal

(* A user completes a row only by hand.                                       *)
LEMMA UserTable ==
    ASSUME BasicInv, NEW i \in Id, User(i)
    PROVE  \/ Quiet
           \/ "manual" \in Faults /\ \E v \in Int : CanComplete(i) /\ Complete(i, v)
  <1>1. CASE UserCreate(i) \/ UserCancel(i) \/ UserDelete(i) \/ UserRestore(i)
    BY <1>1 DEF UserCreate, UserCancel, UserDelete, UserRestore, Quiet, QuietOn
  <1>2. CASE UserResetCheck(i) \/ UserResetRow(i)
    BY <1>2 DEF UserResetCheck, UserResetRow, Quiet, QuietOn
  <1>3. CASE UserManual(i)
    <2>1. ByOperator \in Int /\ 0 \in Int
      BY DEF ByOperator
    <2> QED BY <1>3, <2>1 DEF UserManual, Quiet, QuietOn
  <1> QED BY <1>1, <1>2, <1>3 DEF User

LEMMA SweepTable ==
    ASSUME BasicInv, NEW s \in Sweeper, SweepStep(s)
    PROVE  Quiet
  <1>1. sweep[s].stage # "idle" => sweep[s].victim \in Id /\ sweep[s].claim \in Nat
    BY DEF BasicInv, ClientOK, VictimInv, Sweep
  <1>2. CASE \E i \in Id : SweepJudge(s, i)
    BY <1>2 DEF SweepJudge, Quiet
  <1>3. CASE SweepFail(s)
    BY <1>1, <1>3 DEF SweepFail, Quiet, QuietOn
  <1>4. CASE SweepLog(s)
    BY <1>1, <1>4 DEF SweepLog, Quiet, QuietOn, Event
  <1> QED BY <1>2, <1>3, <1>4 DEF SweepStep

LEMMA NextTable ==
    ASSUME BasicInv, [Next]_vars
    PROVE  TableStep
  <1>1. ASSUME NEW p \in Proc, Finish(p) PROVE TableStep
    <2>1. job[p] \in Id /\ att[p] \in Int
      BY <1>1 DEF Finish, Step, At, BasicInv, ProcOK, LocalInv, WithRow, Claimed
    <2> QED BY <1>1, <2>1 DEF Finish, TableStep
  <1>2. CASE UNCHANGED vars
    BY <1>2 DEF vars, TableStep, Quiet, storeVars
  <1>3. CASE Next
    BY <1>1, <1>3, RunTable, DriveTable, UserTable, SweepTable
    DEF Next, ProcStep, TableStep, Quiet
  <1> QED BY <1>2, <1>3

(* A start() opens a claim nobody had before.                                *)
LEMMA StartClaims ==
    ASSUME StoreOK, NEW i \in Id, Start(i)
    PROVE  claims'[i] = claims[i] + 1 /\ claims[i] \in Nat
  BY DEF StoreOK, Put, Start

(* A process keeps track of its row and of its claim on it.                  *)
LEMMA RunLocal ==
    ASSUME BasicInv, NEW p \in Proc, Run(p)
    PROVE  ProcOK' /\ LocalInv'
  <1> USE IdAssumption DEF BasicInv, ProcOK, LocalInv, Location, Unclaimed, Claimed, WithRow
  <1>1. CASE \E i \in Id : NextInBatch(p, i)
    BY <1>1 DEF NextInBatch, At, Goto
  <1>2. CASE ReturnCli(p)
    BY <1>2 DEF ReturnCli, At, Goto
  <1>3. CASE Fetch(p)
    BY <1>3 DEF Fetch, At, Goto, Step
  <1>4. CASE FetchRefused(p)
    BY <1>4 DEF FetchRefused, At, Goto, Leave
  <1>5. CASE CancelSeen(p)
    BY <1>5 DEF CancelSeen, At, Goto, Step
  <1>6. CASE Claim(p)
    <2>1. job[p] \in Id
      BY <1>6 DEF Claim, At
    <2>2. claims'[job[p]] = claims[job[p]] + 1 /\ claims[job[p]] \in Nat
      BY <1>6, <2>1, StartClaims DEF Claim
    <2>3. claims'[job[p]] \in Nat /\ claims'[job[p]] # 0
      BY <2>2
    <2> QED BY <1>6, <2>1, <2>3 DEF Claim, At, Goto
  <1>7. CASE ClaimRefused(p)
    BY <1>7 DEF ClaimRefused, At, Goto, Leave
  <1>8. CASE DeathmarkClaim(p)
    BY <1>8 DEF DeathmarkClaim, At, Goto
  <1>9. CASE Prepare(p)
    BY <1>9 DEF Prepare, At, Goto, Step
  <1>10. CASE CallFails(p)
    BY <1>10 DEF CallFails, At, Goto, Step
  <1>11. CASE Answer(p)
    BY <1>11 DEF Answer, At, Goto, Step
  <1>12. CASE AnswerNotStored(p)
    BY <1>12 DEF AnswerNotStored, At, Goto, Step
  <1>13. CASE Reject(p)
    BY <1>13 DEF Reject, At, Goto, Step
  <1>14. CASE Finish(p)
    BY <1>14 DEF Finish, At, Goto, Step
  <1>15. CASE FinishRefused(p)
    BY <1>15 DEF FinishRefused, At, Goto, Step
  <1>16. CASE LogDone(p)
    BY <1>16 DEF LogDone, At, Goto, Leave
  <1>17. CASE LogFail(p)
    BY <1>17 DEF LogFail, At, Goto, Step
  <1>18. CASE FailRow(p)
    BY <1>18 DEF FailRow, At, Goto, Leave
  <1>19. CASE LogCancel(p)
    BY <1>19 DEF LogCancel, At, Goto, Step
  <1>20. CASE CancelRow(p)
    BY <1>20 DEF CancelRow, At, Goto, Leave
  <1>21. CASE GuiReset(p)
    BY <1>21 DEF GuiReset, At, Goto, Step
  <1>22. CASE Boot(p)
    BY <1>22 DEF Boot, At, Goto
  <1>23. CASE ReturnGui(p)
    BY <1>23 DEF ReturnGui, At, Goto
  <1>24. CASE WorkerFinished(p)
    BY <1>24 DEF WorkerFinished, At, Goto, Step
  <1>25. CASE DeathmarkLog(p)
    BY <1>25 DEF DeathmarkLog, At, Goto, Step, MarkStillRunning
  <1>26. CASE DeathmarkNothing(p)
    BY <1>26 DEF DeathmarkNothing, At, Goto, Vanish
  <1>27. CASE DeathmarkFail(p)
    BY <1>27 DEF DeathmarkFail, At, Goto, Vanish
  <1> QED BY <1>1, <1>2, <1>3, <1>4, <1>5, <1>6, <1>7, <1>8, <1>9, <1>10, <1>11, <1>12, <1>13, <1>14, <1>15, <1>16, <1>17, <1>18, <1>19, <1>20, <1>21, <1>22, <1>23, <1>24, <1>25, <1>26, <1>27 DEF Run

(* What users, sweeps and somebody outside do to the processes and to the
   sweeps themselves.                                                        *)
LEMMA DriveLocal ==
    ASSUME BasicInv, NEW p \in Proc, Drive(p)
    PROVE  ProcOK' /\ LocalInv'
  <1> USE IdAssumption DEF BasicInv, ProcOK, LocalInv, Location, Unclaimed, Claimed, WithRow, At, Goto
  <1>1. CASE \E i \in Id : RunId(p, i)
    BY <1>1 DEF RunId
  <1>2. CASE \E i \in Id : ClickRun(p, i)
    BY <1>2 DEF ClickRun
  <1>3. CASE RunPending(p)
    BY <1>3 DEF RunPending
  <1>4. CASE ClickCancel(p)
    BY <1>4 DEF ClickCancel
  <1>5. CASE Kill(p)
    BY <1>5 DEF Kill, Vanish
  <1>6. CASE Signal(p)
    BY <1>6 DEF Signal
  <1> QED BY <1>1, <1>2, <1>3, <1>4, <1>5, <1>6 DEF Drive

LEMMA SweepLocal ==
    ASSUME BasicInv, NEW s \in Sweeper, SweepStep(s)
    PROVE  ClientOK' /\ VictimInv'
  <1> USE IdAssumption DEF BasicInv, ClientOK, VictimInv, Sweep, NoSweep
  <1>1. CASE \E i \in Id : SweepJudge(s, i)
    BY <1>1 DEF SweepJudge
  <1>2. CASE SweepFail(s)
    <2>1. sweep[s].victim \in Id /\ claims[sweep[s].victim] \in Nat
      BY <1>2 DEF SweepFail, StoreOK
    <2> DEFINE swept == [stage |-> "swept", victim |-> sweep[s].victim,
                         claim |-> claims[sweep[s].victim]]
    <2>2. swept \in Sweep /\ swept.victim # 0 /\ NoSweep \in Sweep
      BY <2>1
    <2>3. \/ sweep' = [sweep EXCEPT ![s] = swept]
          \/ sweep' = [sweep EXCEPT ![s] = NoSweep]
      BY <1>2 DEF SweepFail
    <2>4. resetting' = resetting
      BY <1>2 DEF SweepFail
    <2> HIDE DEF swept, Sweep
    <2> QED BY <2>2, <2>3, <2>4
  <1>3. CASE SweepLog(s)
    BY <1>3 DEF SweepLog
  <1> QED BY <1>1, <1>2, <1>3 DEF SweepStep

LEMMA UserLocal ==
    ASSUME BasicInv, NEW i \in Id, User(i)
    PROVE  UNCHANGED <<procVars, sweep>> /\ resetting' \subseteq Id
  BY DEF User, UserCreate, UserCancel, UserDelete, UserRestore, UserResetCheck,
         UserResetRow, UserManual, BasicInv, ClientOK

LEMMA BasicInit == ASSUME Init PROVE BasicInv
  BY IdAssumption DEF Init, InitStore, InitRunner, NoSweep, Sweep, BasicInv, StoreOK, ProcOK, ClientOK,
     LocalInv, VictimInv, Status, Location, Unclaimed, Claimed, WithRow

LEMMA BasicStep == ASSUME BasicInv, [Next]_vars PROVE BasicInv'
  <1>1. StoreOK'
    BY NextTable, TableStepOK DEF BasicInv
  <1>2. ASSUME UNCHANGED procVars PROVE ProcOK' /\ LocalInv'
    BY <1>2 DEF procVars, BasicInv, ProcOK, LocalInv
  <1>3. ASSUME UNCHANGED sweep, resetting' \subseteq Id PROVE ClientOK' /\ VictimInv'
    BY <1>3 DEF BasicInv, ClientOK, VictimInv
  <1>4. ASSUME UNCHANGED <<resetting, sweep>> PROVE ClientOK' /\ VictimInv'
    BY <1>4 DEF BasicInv, ClientOK, VictimInv
  <1>5. CASE UNCHANGED vars
    BY <1>1, <1>2, <1>4, <1>5 DEF vars, procVars, BasicInv
  <1>6. ASSUME NEW p \in Proc, ProcStep(p) PROVE BasicInv'
    BY <1>1, <1>4, <1>6, RunLocal DEF ProcStep, BasicInv
  <1>7. ASSUME NEW p \in Proc, Drive(p), UNCHANGED <<resetting, sweep>> PROVE BasicInv'
    BY <1>1, <1>4, <1>7, DriveLocal DEF BasicInv
  <1>8. ASSUME NEW i \in Id, User(i) PROVE BasicInv'
    BY <1>1, <1>2, <1>3, <1>8, UserLocal DEF BasicInv
  <1>9. ASSUME NEW s \in Sweeper, SweepStep(s) PROVE BasicInv'
    <2>1. UNCHANGED procVars
      BY <1>9 DEF SweepStep, SweepJudge, SweepFail, SweepLog
    <2> QED BY <1>1, <1>2, <1>9, <2>1, SweepLocal DEF BasicInv
  <1> QED BY <1>5, <1>6, <1>7, <1>8, <1>9 DEF Next

LEMMA BasicAlways == Spec => []BasicInv
  <1> QED BY BasicInit, BasicStep, PTL DEF Spec

(* Every variable always has its type: in particular no process and no sweep
   ever writes to a row that is not there.                                   *)
THEOREM TypeCorrect == Spec => []TypeOK
  <1>1. BasicInv => TypeOK
    BY DEF BasicInv, StoreOK, ProcOK, ClientOK, TypeOK
  <1> QED BY <1>1, BasicAlways, PTL

(* No step of anybody changes the status, the result or the claim of a
   completed or cancelled row, whatever faults there are.                    *)
THEOREM TerminalStays == Spec => TerminalIsFinal
  <1>1. ASSUME BasicInv, [Next]_vars
        PROVE  [\A i \in Id : status[i] \in Terminal =>
                   /\ status'[i] = status[i]
                   /\ result'[i] = result[i]
                   /\ claims'[i] = claims[i]]_vars
    BY <1>1, NextTable, TableStepMoves DEF BasicInv, RowsMove
  <1> QED BY <1>1, BasicAlways, PTL DEF Spec, TerminalIsFinal

-----------------------------------------------------------------------------
(* Claims *)

(* A process only changes its own row and claim: it claims, lets go of both,
   or keeps both.                                                            *)
AttemptMove(p) ==
    /\ \A q \in Proc \ {p} : job'[q] = job[q] /\ att'[q] = att[q]
    /\ \/ Claim(p)
       \/ att'[p] = 0
       \/ att'[p] = att[p] /\ job'[p] = job[p]

LEMMA RunAttempt ==
    ASSUME BasicInv, NEW p \in Proc, Run(p)
    PROVE  AttemptMove(p)
  <1> USE DEF BasicInv, ProcOK, LocalInv, Unclaimed, AttemptMove
  <1>1. CASE \E i \in Id : NextInBatch(p, i)
    BY <1>1 DEF NextInBatch, At, Goto
  <1>2. CASE ReturnCli(p)
    BY <1>2 DEF ReturnCli, At, Goto
  <1>3. CASE Fetch(p)
    BY <1>3 DEF Fetch, At, Goto, Step
  <1>4. CASE FetchRefused(p)
    BY <1>4 DEF FetchRefused, At, Goto, Leave
  <1>5. CASE CancelSeen(p)
    BY <1>5 DEF CancelSeen, At, Goto, Step
  <1>6. CASE Claim(p)
    BY <1>6 DEF Claim, At, Goto
  <1>7. CASE ClaimRefused(p)
    BY <1>7 DEF ClaimRefused, At, Goto, Leave
  <1>8. CASE DeathmarkClaim(p)
    BY <1>8 DEF DeathmarkClaim, At, Goto
  <1>9. CASE Prepare(p)
    BY <1>9 DEF Prepare, At, Goto, Step
  <1>10. CASE CallFails(p)
    BY <1>10 DEF CallFails, At, Goto, Step
  <1>11. CASE Answer(p)
    BY <1>11 DEF Answer, At, Goto, Step
  <1>12. CASE AnswerNotStored(p)
    BY <1>12 DEF AnswerNotStored, At, Goto, Step
  <1>13. CASE Reject(p)
    BY <1>13 DEF Reject, At, Goto, Step
  <1>14. CASE Finish(p)
    BY <1>14 DEF Finish, At, Goto, Step
  <1>15. CASE FinishRefused(p)
    BY <1>15 DEF FinishRefused, At, Goto, Step
  <1>16. CASE LogDone(p)
    BY <1>16 DEF LogDone, At, Goto, Leave
  <1>17. CASE LogFail(p)
    BY <1>17 DEF LogFail, At, Goto, Step
  <1>18. CASE FailRow(p)
    BY <1>18 DEF FailRow, At, Goto, Leave
  <1>19. CASE LogCancel(p)
    BY <1>19 DEF LogCancel, At, Goto, Step
  <1>20. CASE CancelRow(p)
    BY <1>20 DEF CancelRow, At, Goto, Leave
  <1>21. CASE GuiReset(p)
    BY <1>21 DEF GuiReset, At, Goto, Step
  <1>22. CASE Boot(p)
    BY <1>22 DEF Boot, At, Goto
  <1>23. CASE ReturnGui(p)
    BY <1>23 DEF ReturnGui, At, Goto
  <1>24. CASE WorkerFinished(p)
    BY <1>24 DEF WorkerFinished, At, Goto, Step
  <1>25. CASE DeathmarkLog(p)
    BY <1>25 DEF DeathmarkLog, At, Goto, Step
  <1>26. CASE DeathmarkNothing(p)
    BY <1>26 DEF DeathmarkNothing, At, Goto, Vanish
  <1>27. CASE DeathmarkFail(p)
    BY <1>27 DEF DeathmarkFail, At, Goto, Vanish
  <1> QED BY <1>1, <1>2, <1>3, <1>4, <1>5, <1>6, <1>7, <1>8, <1>9, <1>10, <1>11, <1>12, <1>13, <1>14, <1>15, <1>16, <1>17, <1>18, <1>19, <1>20, <1>21, <1>22, <1>23, <1>24, <1>25, <1>26, <1>27 DEF Run

LEMMA DriveAttempt ==
    ASSUME BasicInv, NEW p \in Proc, Drive(p)
    PROVE  AttemptMove(p)
  <1> USE DEF BasicInv, ProcOK, LocalInv, Unclaimed, AttemptMove, At, Goto
  <1>1. CASE \E i \in Id : RunId(p, i)
    BY <1>1 DEF RunId
  <1>2. CASE \E i \in Id : ClickRun(p, i)
    BY <1>2 DEF ClickRun
  <1>3. CASE RunPending(p) \/ ClickCancel(p) \/ Signal(p)
    BY <1>3 DEF RunPending, ClickCancel, Signal
  <1>4. CASE Kill(p)
    BY <1>4 DEF Kill, Vanish
  <1> QED BY <1>1, <1>2, <1>3, <1>4 DEF Drive

(* Users and sweeps leave the processes alone.                               *)
LEMMA NextAttempt ==
    ASSUME BasicInv, [Next]_vars
    PROVE  UNCHANGED <<job, att>> \/ \E p \in Proc : AttemptMove(p)
  <1>1. ASSUME NEW i \in Id, User(i) PROVE UNCHANGED <<job, att>>
    BY <1>1, UserLocal DEF procVars
  <1>2. ASSUME NEW s \in Sweeper, SweepStep(s) PROVE UNCHANGED <<job, att>>
    BY <1>2 DEF SweepStep, SweepJudge, SweepFail, SweepLog, procVars
  <1> QED BY <1>1, <1>2, RunAttempt, DriveAttempt DEF Next, ProcStep, vars

(* No process holds a claim that the row has not given out.                  *)
ClaimGiven == \A p \in Proc : att[p] # 0 => att[p] <= claims[job[p]]

LEMMA ClaimGivenStep ==
    ASSUME BasicInv, ClaimGiven, [Next]_vars
    PROVE  ClaimGiven'
  <1>1. RowsMove /\ BasicInv'
    BY NextTable, TableStepMoves, BasicStep DEF BasicInv
  <1>2. ASSUME NEW q \in Proc, att'[q] = att[q], job'[q] = job[q], att'[q] # 0
        PROVE  att'[q] <= claims'[job'[q]]
    <2>1. job[q] \in Id /\ att[q] \in Nat /\ att[q] <= claims[job[q]]
      BY <1>2 DEF BasicInv, ProcOK, LocalInv, ClaimGiven
    <2>2. claims[job[q]] \in Nat /\ claims'[job[q]] \in {claims[job[q]], claims[job[q]] + 1}
      BY <1>1, <2>1 DEF RowsMove, BasicInv, StoreOK
    <2> QED BY <1>2, <2>1, <2>2
  <1>3. ASSUME NEW p \in Proc, Claim(p) PROVE att'[p] <= claims'[job'[p]]
    <2>1. att'[p] = claims'[job[p]] /\ job'[p] = job[p]
      BY <1>3 DEF Claim, BasicInv, ProcOK
    <2>2. job'[p] \in Id /\ claims'[job'[p]] \in Nat
      BY <1>1, <1>3, <2>1 DEF Claim, At, BasicInv, ProcOK, LocalInv, WithRow, StoreOK
    <2> QED BY <2>1, <2>2
  <1> QED BY <1>2, <1>3, NextAttempt DEF ClaimGiven, AttemptMove

(* No two processes hold the same claim of a row, under any fault.           *)
ClaimsExclusive ==
    \A p, q \in Proc : /\ p # q /\ job[p] = job[q]
                       /\ att[p] # 0 /\ att[q] # 0
                       => att[p] # att[q]

LEMMA ClaimsExclusiveStep ==
    ASSUME BasicInv, ClaimGiven, ClaimsExclusive, [Next]_vars
    PROVE  ClaimsExclusive'
  <1>1. CASE UNCHANGED <<job, att>>
    BY <1>1 DEF ClaimsExclusive
  <1>2. ASSUME NEW p \in Proc, AttemptMove(p) PROVE ClaimsExclusive'
    <2>1. ASSUME NEW q \in Proc \ {p}, job'[p] = job[q], att[q] # 0, Claim(p)
          PROVE  att'[p] # att[q]
      <3>1. job[p] = job[q] /\ job[p] \in Id /\ att'[p] = claims'[job[p]]
        BY <2>1 DEF Claim, At, BasicInv, ProcOK, LocalInv, WithRow
      <3>2. claims'[job[p]] = claims[job[p]] + 1 /\ claims[job[p]] \in Nat
        BY <2>1, <3>1, StartClaims DEF Claim, BasicInv
      <3>3. att[q] <= claims[job[q]] /\ att[q] \in Nat
        BY <2>1 DEF ClaimGiven, BasicInv, ProcOK
      <3> QED BY <3>1, <3>2, <3>3
    <2> QED BY <1>2, <2>1 DEF ClaimsExclusive, AttemptMove
  <1> QED BY <1>1, <1>2, NextAttempt

-----------------------------------------------------------------------------
(* The audit trail *)

(* A process about to log execution_completed has completed its row, and every
   such log row tells what the table stores.                                 *)
DoneInv == \A p \in Proc : pc[p] = "logDone" =>
               status[job[p]] = "completed" /\ result[job[p]] = att[p]

LogInv == \A i \in Id, c \in Nat :
              <<i, c, "execution_completed">> \in trail =>
                  status[i] = "completed" /\ result[i] = c

(* Only LogDone writes an execution_completed row.                           *)
LEMMA OtherLog ==
    ASSUME NEW i, NEW c, NEW e, e # "execution_completed", Log(i, c, e),
           NEW j, NEW d, <<j, d, "execution_completed">> \in trail'
    PROVE  <<j, d, "execution_completed">> \in trail
  BY DEF Log

LEMMA RunTrail ==
    ASSUME NEW p \in Proc, Run(p), NEW i \in Id, NEW c \in Nat,
           <<i, c, "execution_completed">> \in trail'
    PROVE  \/ <<i, c, "execution_completed">> \in trail
           \/ pc[p] = "logDone" /\ i = job[p] /\ c = att[p]
  <1>1. CASE UNCHANGED trail
    BY <1>1
  <1>2. CASE LogDone(p)
    BY <1>2 DEF LogDone, At, Log
  <1>3. CASE LogFail(p) \/ LogCancel(p) \/ DeathmarkLog(p)
    BY <1>3, OtherLog DEF LogFail, LogCancel, DeathmarkLog
  <1>4. CASE \/ Claim(p) \/ Answer(p) \/ Finish(p) \/ FailRow(p) \/ CancelRow(p)
             \/ GuiReset(p) \/ DeathmarkFail(p)
    BY <1>1, <1>4 DEF Claim, Start, Answer, SetRaw, Finish, Complete, FailRow, FailOrSkip, Fail,
       CancelRow, CancelOrSkip, Cancel, GuiReset, Reset, DeathmarkFail, storeVars
  <1> QED BY <1>1, <1>2, <1>3, <1>4, RunWrites DEF storeVars

LEMMA NextTrail ==
    ASSUME [Next]_vars, NEW i \in Id, NEW c \in Nat,
           <<i, c, "execution_completed">> \in trail'
    PROVE  \/ <<i, c, "execution_completed">> \in trail
           \/ \E p \in Proc : pc[p] = "logDone" /\ i = job[p] /\ c = att[p]
  <1>1. CASE UNCHANGED trail
    BY <1>1
  <1>2. ASSUME NEW j \in Id, User(j) PROVE UNCHANGED trail
    BY <1>2 DEF User, UserCreate, Create, UserCancel, Cancel, UserDelete, Delete,
       UserRestore, Restore, UserResetCheck, UserResetRow, Reset, UserManual, Start,
       Complete, Fail, SetRaw, storeVars
  <1>3. ASSUME NEW s \in Sweeper, SweepStep(s)
        PROVE  <<i, c, "execution_completed">> \in trail
    BY <1>3, OtherLog DEF SweepStep, SweepJudge, SweepFail, Fail, SweepLog, storeVars
  <1>4. ASSUME NEW p \in Proc, Drive(p) PROVE UNCHANGED trail
    BY <1>4, DriveTable DEF storeVars
  <1> QED BY <1>1, <1>2, <1>3, <1>4, RunTrail DEF Next, ProcStep, vars

LEMMA LogInvStep ==
    ASSUME BasicInv, LogInv, DoneInv, [Next]_vars
    PROVE  LogInv'
  <1>1. RowsMove
    BY NextTable, TableStepMoves DEF BasicInv
  <1>2. ASSUME NEW i \in Id, NEW c \in Nat, <<i, c, "execution_completed">> \in trail'
        PROVE  status'[i] = "completed" /\ result'[i] = c
    <2>1. status[i] = "completed" /\ result[i] = c
      BY <1>2, NextTrail DEF LogInv, DoneInv
    <2> QED BY <1>1, <2>1 DEF RowsMove, Terminal
  <1> QED BY <1>2 DEF LogInv

(* A process arrives at the log row by completing its row, or stays there.   *)
LEMMA RunDone ==
    ASSUME BasicInv, NEW p \in Proc, Run(p), NEW q \in Proc, pc'[q] = "logDone"
    PROVE  \/ q = p /\ Finish(p)
           \/ pc[q] = "logDone" /\ job'[q] = job[q] /\ att'[q] = att[q]
  <1> USE DEF BasicInv, ProcOK
  <1>1. CASE \E i \in Id : NextInBatch(p, i)
    BY <1>1 DEF NextInBatch, At, Goto
  <1>2. CASE ReturnCli(p)
    BY <1>2 DEF ReturnCli, At, Goto
  <1>3. CASE Fetch(p)
    BY <1>3 DEF Fetch, At, Goto, Step
  <1>4. CASE FetchRefused(p)
    BY <1>4 DEF FetchRefused, At, Goto, Leave
  <1>5. CASE CancelSeen(p)
    BY <1>5 DEF CancelSeen, At, Goto, Step
  <1>6. CASE Claim(p)
    BY <1>6 DEF Claim, At, Goto
  <1>7. CASE ClaimRefused(p)
    BY <1>7 DEF ClaimRefused, At, Goto, Leave
  <1>8. CASE DeathmarkClaim(p)
    BY <1>8 DEF DeathmarkClaim, At, Goto
  <1>9. CASE Prepare(p)
    BY <1>9 DEF Prepare, At, Goto, Step
  <1>10. CASE CallFails(p)
    BY <1>10 DEF CallFails, At, Goto, Step
  <1>11. CASE Answer(p)
    BY <1>11 DEF Answer, At, Goto, Step
  <1>12. CASE AnswerNotStored(p)
    BY <1>12 DEF AnswerNotStored, At, Goto, Step
  <1>13. CASE Reject(p)
    BY <1>13 DEF Reject, At, Goto, Step
  <1>14. CASE Finish(p)
    BY <1>14 DEF Finish, At, Goto, Step
  <1>15. CASE FinishRefused(p)
    BY <1>15 DEF FinishRefused, At, Goto, Step
  <1>16. CASE LogDone(p)
    BY <1>16 DEF LogDone, At, Goto, Leave
  <1>17. CASE LogFail(p)
    BY <1>17 DEF LogFail, At, Goto, Step
  <1>18. CASE FailRow(p)
    BY <1>18 DEF FailRow, At, Goto, Leave
  <1>19. CASE LogCancel(p)
    BY <1>19 DEF LogCancel, At, Goto, Step
  <1>20. CASE CancelRow(p)
    BY <1>20 DEF CancelRow, At, Goto, Leave
  <1>21. CASE GuiReset(p)
    BY <1>21 DEF GuiReset, At, Goto, Step
  <1>22. CASE Boot(p)
    BY <1>22 DEF Boot, At, Goto
  <1>23. CASE ReturnGui(p)
    BY <1>23 DEF ReturnGui, At, Goto
  <1>24. CASE WorkerFinished(p)
    BY <1>24 DEF WorkerFinished, At, Goto, Step
  <1>25. CASE DeathmarkLog(p)
    BY <1>25 DEF DeathmarkLog, At, Goto, Step
  <1>26. CASE DeathmarkNothing(p)
    BY <1>26 DEF DeathmarkNothing, At, Goto, Vanish
  <1>27. CASE DeathmarkFail(p)
    BY <1>27 DEF DeathmarkFail, At, Goto, Vanish
  <1> QED BY <1>1, <1>2, <1>3, <1>4, <1>5, <1>6, <1>7, <1>8, <1>9, <1>10, <1>11, <1>12, <1>13, <1>14, <1>15, <1>16, <1>17, <1>18, <1>19, <1>20, <1>21, <1>22, <1>23, <1>24, <1>25, <1>26, <1>27 DEF Run

LEMMA DoneInvStep ==
    ASSUME BasicInv, DoneInv, [Next]_vars
    PROVE  DoneInv'
  <1>1. RowsMove
    BY NextTable, TableStepMoves DEF BasicInv
  <1>2. ASSUME NEW q \in Proc, pc[q] = "logDone", job'[q] = job[q], att'[q] = att[q]
        PROVE  status'[job'[q]] = "completed" /\ result'[job'[q]] = att'[q]
    <2>1. job[q] \in Id
      BY <1>2 DEF BasicInv, ProcOK, LocalInv, WithRow, Claimed
    <2> QED BY <1>1, <1>2, <2>1 DEF DoneInv, RowsMove, Terminal
  <1>3. ASSUME NEW p \in Proc, Finish(p)
        PROVE  status'[job'[p]] = "completed" /\ result'[job'[p]] = att'[p]
    <2>1. job[p] \in Id
      BY <1>3 DEF Finish, Step, At, BasicInv, ProcOK, LocalInv, WithRow, Claimed
    <2> QED BY <1>3, <2>1 DEF Finish, Step, Complete, Put, BasicInv, StoreOK
  <1>4. ASSUME UNCHANGED <<pc, job, att>> PROVE DoneInv'
    BY <1>2, <1>4 DEF DoneInv
  <1>5. ASSUME NEW p \in Proc, Run(p) PROVE DoneInv'
    BY <1>2, <1>3, <1>5, RunDone DEF DoneInv
  <1>6. ASSUME NEW p \in Proc, Drive(p), NEW q \in Proc, pc'[q] = "logDone"
        PROVE  pc[q] = "logDone" /\ job'[q] = job[q] /\ att'[q] = att[q]
    BY <1>6 DEF Drive, RunId, RunPending, ClickRun, ClickCancel, Kill, Vanish, Signal,
                At, Goto, BasicInv, ProcOK
  <1>7. ASSUME NEW i \in Id, User(i) PROVE UNCHANGED <<pc, job, att>>
    BY <1>7, UserLocal DEF procVars
  <1>8. ASSUME NEW s \in Sweeper, SweepStep(s) PROVE UNCHANGED <<pc, job, att>>
    BY <1>8 DEF SweepStep, SweepJudge, SweepFail, SweepLog, procVars
  <1> QED BY <1>2, <1>4, <1>5, <1>6, <1>7, <1>8 DEF DoneInv, Next, ProcStep, vars

(* Under every fault, a log row that says a claim was completed tells the
   truth: the row is completed and stores the output of that claim.          *)
THEOREM CompletedLogAlwaysTrue == Spec => []CompletedLogIsTrue
  <1>1. ASSUME Init PROVE LogInv /\ DoneInv
    BY <1>1 DEF Init, InitStore, InitRunner, LogInv, DoneInv
  <1>2. ASSUME BasicInv, LogInv /\ DoneInv, [Next]_vars PROVE (LogInv /\ DoneInv)'
    BY <1>2, LogInvStep, DoneInvStep
  <1>3. LogInv => CompletedLogIsTrue
    BY MaxClaimsAssumption DEF LogInv, CompletedLogIsTrue
  <1> QED BY <1>1, <1>2, <1>3, BasicAlways, PTL DEF Spec

-----------------------------------------------------------------------------
(* Undisturbed runners *)

(* The inductive strengthening of NoZombie and of OneHolder.  A process that
   has claimed its row holds its last claim and finds it running, completed or
   cancelled; the
   row a sweep has judged is held by nobody and cannot be claimed any more;
   and no process is on its way out of a signal handler.                     *)
Holder(p) == att[p] # 0 =>
    /\ status[job[p]] \in {"running", "completed", "cancelled"}
    /\ att[p] = claims[job[p]]

VictimFree(s) == sweep[s].stage = "judged" =>
    /\ ~Tended(sweep[s].victim)
    /\ status[sweep[s].victim] \in {"running", "completed", "cancelled"}

NoExit == \A p \in Proc : pc[p] \notin {"exiting", "exitFail"}

CalmInv == /\ BasicInv /\ ClaimGiven /\ ClaimsExclusive
           /\ \A p \in Proc : Holder(p)
           /\ \A s \in Sweeper : VictimFree(s)
           /\ NoExit

(* Only a signal brings a process to its exit handler.                       *)
LEMMA NoExitStep ==
    ASSUME Undisturbed, BasicInv, NoExit, [Next]_vars
    PROVE  NoExit'
  <1> USE DEF NoExit, BasicInv, ProcOK
  <1>1. ASSUME NEW p \in Proc, Run(p) PROVE NoExit'
    BY <1>1
    DEF Run, At, Goto, Step, Leave, Vanish, NextInBatch, ReturnCli, Fetch,
        FetchRefused, CancelSeen, Claim, ClaimRefused, DeathmarkClaim, Prepare,
        CallFails, Answer, AnswerNotStored, Reject, Finish, FinishRefused,
        LogDone, LogFail, FailRow, LogCancel, CancelRow, GuiReset, Boot,
        ReturnGui, WorkerFinished, DeathmarkLog, DeathmarkNothing, DeathmarkFail
  <1>2. ASSUME NEW p \in Proc, Drive(p) PROVE NoExit'
    BY <1>2 DEF Drive, At, Goto, Vanish, RunId, RunPending, ClickRun, ClickCancel,
                Kill, Signal, Undisturbed
  <1>3. ASSUME UNCHANGED pc PROVE NoExit'
    BY <1>3
  <1>4. ASSUME NEW i \in Id, User(i) PROVE UNCHANGED pc
    BY <1>4, UserLocal DEF procVars
  <1>5. ASSUME NEW s \in Sweeper, SweepStep(s) PROVE UNCHANGED pc
    BY <1>5 DEF SweepStep, SweepJudge, SweepFail, SweepLog, procVars
  <1> QED BY <1>1, <1>2, <1>3, <1>4, <1>5 DEF Next, ProcStep, vars

(* A running row is failed by the process that gives it up, or by the sweep
   that has judged it.                                                       *)
LEMMA RunFails ==
    ASSUME BasicInv, NoExit, NEW p \in Proc, Run(p), NEW i \in Id,
           status[i] = "running", status'[i] = "failed"
    PROVE  FailRow(p) /\ job[p] = i
  <1> USE DEF BasicInv, StoreOK, Put
  <1>1. job[p] \in Id \cup {0}
    BY DEF ProcOK
  <1>2. CASE UNCHANGED storeVars
    BY <1>2 DEF storeVars
  <1>3. CASE Claim(p)
    BY <1>1, <1>3 DEF Claim, Start
  <1>4. CASE Answer(p)
    BY <1>4 DEF Answer, SetRaw
  <1>5. CASE Finish(p)
    BY <1>1, <1>5 DEF Finish, Complete
  <1>6. CASE LogDone(p) \/ LogFail(p) \/ LogCancel(p)
    BY <1>6 DEF LogDone, LogFail, LogCancel, Log
  <1>7. CASE FailRow(p)
    BY <1>1, <1>7 DEF FailRow, FailOrSkip, Fail, storeVars
  <1>8. CASE CancelRow(p)
    BY <1>1, <1>8 DEF CancelRow, CancelOrSkip, Cancel, storeVars
  <1>9. CASE GuiReset(p)
    BY <1>1, <1>9 DEF GuiReset, Reset, storeVars
  <1>10. CASE DeathmarkLog(p) \/ DeathmarkFail(p)
    BY <1>10 DEF DeathmarkLog, DeathmarkFail, Step, At, NoExit
  <1> QED BY <1>2, <1>3, <1>4, <1>5, <1>6, <1>7, <1>8, <1>9, <1>10, RunWrites

LEMMA UserFails ==
    ASSUME Undisturbed, BasicInv, NEW j \in Id, User(j), NEW i \in Id,
           status[i] = "running"
    PROVE  status'[i] # "failed"
  <1> USE DEF BasicInv, StoreOK, Put
  <1>1. CASE UserCreate(j)
    BY <1>1 DEF UserCreate, Create
  <1>2. CASE UserCancel(j)
    BY <1>2 DEF UserCancel, Cancel
  <1>3. CASE UserDelete(j) \/ UserRestore(j)
    BY <1>3 DEF UserDelete, UserRestore, Delete, Restore
  <1>4. CASE UserResetCheck(j)
    BY <1>4 DEF UserResetCheck, storeVars
  <1>5. CASE UserResetRow(j)
    BY <1>5 DEF UserResetRow, Reset, storeVars
  <1>6. CASE UserManual(j)
    BY <1>6 DEF UserManual, Undisturbed
  <1> QED BY <1>1, <1>2, <1>3, <1>4, <1>5, <1>6 DEF User

LEMMA SweepFails ==
    ASSUME BasicInv, NEW s \in Sweeper, SweepStep(s), NEW i \in Id,
           status[i] = "running", status'[i] = "failed"
    PROVE  SweepFail(s) /\ sweep[s].stage = "judged" /\ sweep[s].victim = i
  <1> USE DEF BasicInv, StoreOK, Put
  <1>1. CASE \E j \in Id : SweepJudge(s, j)
    BY <1>1 DEF SweepJudge, storeVars
  <1>2. CASE SweepFail(s)
    BY <1>2 DEF SweepFail, Fail, storeVars
  <1>3. CASE SweepLog(s)
    BY <1>3 DEF SweepLog, Log
  <1> QED BY <1>1, <1>2, <1>3 DEF SweepStep

LEMMA NextFails ==
    ASSUME Undisturbed, CalmInv, [Next]_vars, NEW i \in Id,
           status[i] = "running", status'[i] = "failed"
    PROVE  \/ \E p \in Proc : FailRow(p) /\ job[p] = i
           \/ \E s \in Sweeper : /\ SweepFail(s)
                                 /\ sweep[s].stage = "judged"
                                 /\ sweep[s].victim = i
  <1>1. ASSUME UNCHANGED status PROVE FALSE
    BY <1>1
  <1>2. ASSUME NEW p \in Proc, Drive(p) PROVE FALSE
    BY <1>1, <1>2, DriveTable DEF storeVars
  <1> QED BY <1>1, <1>2, RunFails, UserFails, SweepFails
          DEF Next, ProcStep, vars, CalmInv

(* Who gives a row up holds its current claim, so nobody else does.          *)
LEMMA FailRowAlone ==
    ASSUME CalmInv, NEW p \in Proc, NEW q \in Proc, FailRow(p), job[q] = job[p],
           att[q] # 0, status[job[p]] = "running"
    PROVE  p = q /\ att'[q] = 0
  <1>1. att[p] # 0 /\ att[p] = claims[job[p]]
    BY DEF FailRow, At, CalmInv, Holder, BasicInv, LocalInv, Claimed
  <1>2. att[q] = claims[job[p]]
    BY DEF CalmInv, Holder
  <1>3. p = q
    BY <1>1, <1>2 DEF CalmInv, ClaimsExclusive
  <1>4. att' = [att EXCEPT ![p] = 0] /\ att \in [Proc -> Nat]
    BY DEF FailRow, Leave, CalmInv, BasicInv, ProcOK
  <1> QED BY <1>3, <1>4

LEMMA HolderStep ==
    ASSUME Undisturbed, CalmInv, [Next]_vars, NEW q \in Proc
    PROVE  Holder(q)'
  <1>1. RowsMove /\ BasicInv'
    BY NextTable, TableStepMoves, BasicStep DEF BasicInv, CalmInv
  <1>2. ASSUME att'[q] = att[q], job'[q] = job[q], att[q] # 0 PROVE Holder(q)'
    <2>1. job[q] \in Id /\ Holder(q)
      BY <1>2 DEF CalmInv, BasicInv, ProcOK, LocalInv
    <2>2. ~(status[job[q]] = "running" /\ status'[job[q]] = "failed")
      <3> SUFFICES ASSUME status[job[q]] = "running", status'[job[q]] = "failed"
                   PROVE  FALSE
        OBVIOUS
      <3>1. CASE \E p \in Proc : FailRow(p) /\ job[p] = job[q]
        BY <1>2, <3>1, FailRowAlone
      <3>2. CASE \E s \in Sweeper : /\ sweep[s].stage = "judged"
                                    /\ sweep[s].victim = job[q]
        BY <1>2, <3>2 DEF CalmInv, VictimFree, Tended
      <3> QED BY <2>1, <3>1, <3>2, NextFails
    <2> QED BY <1>1, <1>2, <2>1, <2>2 DEF Holder, RowsMove, Terminal
  <1>3. ASSUME Claim(q) PROVE Holder(q)'
    <2>1. job[q] \in Id /\ job' = job
      BY <1>3 DEF Claim, At, CalmInv, BasicInv, ProcOK, LocalInv, WithRow
    <2>2. att'[q] = claims'[job[q]]
      BY <1>3 DEF Claim, CalmInv, BasicInv, ProcOK
    <2>3. status'[job[q]] = "running"
      BY <1>3, <2>1 DEF Claim, Start, Put, CalmInv, BasicInv, StoreOK
    <2> QED BY <2>1, <2>2, <2>3 DEF Holder
  <1>4. CASE att'[q] = 0
    BY <1>4 DEF Holder
  <1> QED BY <1>2, <1>3, <1>4, NextAttempt DEF AttemptMove, CalmInv

(* A sweep leaves its judgement behind when it acts on it.                   *)
LEMMA SweepMovesOn ==
    ASSUME ClientOK, NEW s \in Sweeper, SweepFail(s) \/ SweepLog(s)
    PROVE  sweep'[s].stage # "judged"
  <1> DEFINE swept == [stage |-> "swept", victim |-> sweep[s].victim,
                       claim |-> claims[sweep[s].victim]]
  <1>1. swept.stage # "judged" /\ NoSweep.stage # "judged"
    BY DEF NoSweep
  <1>2. sweep' = [sweep EXCEPT ![s] = swept] \/ sweep' = [sweep EXCEPT ![s] = NoSweep]
    BY DEF SweepFail, SweepLog
  <1> HIDE DEF swept
  <1> QED BY <1>1, <1>2 DEF ClientOK

LEMMA VictimFreeStep ==
    ASSUME Undisturbed, CalmInv, [Next]_vars, NEW s \in Sweeper
    PROVE  VictimFree(s)'
  <1> DEFINE i == sweep[s].victim
  <1>1. RowsMove
    BY NextTable, TableStepMoves DEF BasicInv, CalmInv
  <1>2. ASSUME sweep[s].stage = "judged", sweep'[s] = sweep[s] PROVE VictimFree(s)'
    <2>1. i \in Id /\ VictimFree(s)
      BY <1>2 DEF CalmInv, BasicInv, ClientOK, VictimInv, Sweep
    <2>2. \A p \in Proc : ~(job[p] = i /\ att[p] # 0)
      BY <1>2, <2>1 DEF VictimFree, Tended
    <2>3. \A p \in Proc : ~(job'[p] = i /\ att'[p] # 0)
      <3>1. ASSUME NEW p \in Proc, Claim(p) PROVE job'[p] # i
        BY <1>2, <2>1, <3>1 DEF Claim, CanStart, VictimFree
      <3> QED BY <2>2, <3>1, NextAttempt DEF AttemptMove, CalmInv
    <2>4. ~(status[i] = "running" /\ status'[i] = "failed")
      <3> SUFFICES ASSUME status[i] = "running", status'[i] = "failed" PROVE FALSE
        OBVIOUS
      <3>1. ASSUME NEW p \in Proc, FailRow(p) PROVE job[p] # i
        BY <2>2, <3>1 DEF FailRow, At, CalmInv, BasicInv, LocalInv, Claimed
      <3>2. ASSUME NEW t \in Sweeper, SweepFail(t) PROVE FALSE
        <4>1. t = s
          BY DEF Undisturbed
        <4> QED BY <1>2, <3>2, <4>1, SweepMovesOn DEF CalmInv, BasicInv
      <3> QED BY <2>1, <3>1, <3>2, NextFails
    <2>5. status'[i] \in {"running", "completed", "cancelled"}
      BY <1>1, <1>2, <2>1, <2>4 DEF VictimFree, RowsMove, Terminal
    <2> QED BY <1>2, <2>3, <2>5 DEF VictimFree, Tended
  <1>3. ASSUME NEW t \in Sweeper, SweepStep(t), sweep'[s].stage = "judged"
        PROVE  VictimFree(s)'
    <2>1. t = s
      BY DEF Undisturbed
    <2>2. PICK j \in Id : SweepJudge(s, j)
      BY <1>3, <2>1, SweepMovesOn DEF SweepStep, CalmInv, BasicInv
    <2>3. sweep'[s].victim = j /\ status[j] = "running" /\ ~Tended(j)
      BY <2>2 DEF SweepJudge, Undisturbed, CalmInv, BasicInv, ClientOK
    <2>4. UNCHANGED <<status, job, att>>
      BY <2>2 DEF SweepJudge, storeVars, procVars
    <2> QED BY <2>3, <2>4 DEF VictimFree, Tended
  <1>4. ASSUME NEW j \in Id, User(j) PROVE UNCHANGED sweep
    BY <1>4, UserLocal DEF CalmInv
  <1>5. CASE sweep' = sweep
    BY <1>2, <1>5 DEF VictimFree
  <1> QED BY <1>3, <1>4, <1>5 DEF Next, ProcStep, vars, VictimFree

LEMMA CalmAlways == ASSUME Undisturbed PROVE Spec => []CalmInv
  <1>1. ASSUME Init PROVE CalmInv
    BY <1>1, BasicInit DEF Init, InitRunner, NoSweep, CalmInv, ClaimGiven, ClaimsExclusive,
       Holder, VictimFree, NoExit
  <1>2. ASSUME CalmInv, [Next]_vars PROVE CalmInv'
    BY <1>2, BasicStep, ClaimGivenStep, ClaimsExclusiveStep, NoExitStep,
       HolderStep, VictimFreeStep DEF CalmInv
  <1> QED BY <1>1, <1>2, PTL DEF Spec

(* Whatever crashes and database errors there are, for every number of
   runners, GUIs and rows: as long as nobody drives a claimed row by hand, no
   runner gets a signal and sweep runs alone with an N that is long enough, a
   process that works on a row holds the current claim of it.                *)
THEOREM HoldersAreCurrent == ASSUME Undisturbed PROVE Spec => []NoZombie
  <1>1. CalmInv => NoZombie
    BY DEF CalmInv, Holder, NoZombie
  <1> QED BY <1>1, CalmAlways, PTL

(* Under the same conditions at most one process ever works on a row.        *)
THEOREM StartIsALock == ASSUME Undisturbed PROVE Spec => []OneHolder
  <1>1. CalmInv => OneHolder
    BY DEF CalmInv, Holder, ClaimsExclusive, OneHolder
  <1> QED BY <1>1, CalmAlways, PTL

-----------------------------------------------------------------------------
(* Refinement *)

(* A statement other than complete() is a move of the state machine or does
   not touch its variables.                                                  *)
LEMMA QuietLifecycle ==
    ASSUME StoreOK, Quiet
    PROVE  [Lifecycle!Next]_(Lifecycle!lifecycleVars)
  <1> USE DEF Lifecycle!Next, Lifecycle!lifecycleVars, Lifecycle!Move, Put
  <1>1. CASE UNCHANGED storeVars
    BY <1>1 DEF storeVars
  <1>2. ASSUME NEW i \in Id, CanCreate(i), Create(i) PROVE Lifecycle!Create(i)
    BY <1>2 DEF CanCreate, Create, Lifecycle!Create
  <1>3. ASSUME NEW i \in Id, CanStart(i), Start(i) PROVE Lifecycle!Start(i)
    BY <1>3 DEF CanStart, Start, Lifecycle!Start
  <1>4. ASSUME NEW i \in Id, CanCancel(i), Cancel(i) PROVE Lifecycle!Cancel(i)
    BY <1>4 DEF CanCancel, Cancel, Lifecycle!Cancel
  <1>5. ASSUME NEW i \in Id, NEW e \in BOOLEAN, CanFail(i), Fail(i, e) PROVE Lifecycle!Fail(i)
    BY <1>5 DEF CanFail, Fail, Lifecycle!Fail
  <1>6. ASSUME NEW i \in Id, CanReset(i), Reset(i) PROVE Lifecycle!Reset(i)
    BY <1>6 DEF CanReset, Reset, Lifecycle!Reset
  <1>7. ASSUME NEW i \in Id, Delete(i) \/ Restore(i) PROVE UNCHANGED Lifecycle!lifecycleVars
    BY <1>7 DEF Delete, Restore
  <1>8. ASSUME NEW i \in Id, NEW v \in Int, SetRaw(i, v) PROVE UNCHANGED Lifecycle!lifecycleVars
    BY <1>8 DEF SetRaw
  <1>9. ASSUME NEW i \in Id, NEW c \in Nat, NEW e \in Event, Log(i, c, e)
        PROVE  UNCHANGED Lifecycle!lifecycleVars
    BY <1>9 DEF Log
  <1> HIDE DEF Lifecycle!lifecycleVars
  <1> QED BY <1>1, <1>2, <1>3, <1>4, <1>5, <1>6, <1>7, <1>8, <1>9 DEF Quiet, QuietOn

(* The process that completes a row holds its current claim, so the row
   stores the work of that claim.                                            *)
LEMMA FinishLifecycle ==
    ASSUME CalmInv, NEW p \in Proc, Finish(p)
    PROVE  Lifecycle!Complete(job[p])
  <1>1. att[p] # 0 /\ Holder(p)
    BY DEF Finish, Step, At, CalmInv, BasicInv, LocalInv, Claimed
  <1>2. att[p] = claims[job[p]]
    BY <1>1 DEF Finish, CanComplete, Holder
  <1> QED BY <1>2 DEF Finish, CanComplete, Complete, Put, Lifecycle!Complete, Lifecycle!Move

(* The executions table, with all its users, implements the documented state
   machine: only the current claim of a row ever completes it.               *)
THEOREM TableImplementsLifecycle ==
    ASSUME Undisturbed PROVE Spec => ImplementsLifecycle
  <1>1. ASSUME Init PROVE Lifecycle!Init
    BY <1>1 DEF Init, InitStore, Lifecycle!Init
  <1>2. ASSUME CalmInv, [Next]_vars
        PROVE  [Lifecycle!Next]_(Lifecycle!lifecycleVars)
    <2>1. ASSUME NEW p \in Proc, Finish(p) PROVE Lifecycle!Next
      <3>1. job[p] \in Id
        BY <1>2, <2>1 DEF Finish, Step, At, CalmInv, BasicInv, ProcOK, LocalInv, WithRow, Claimed
      <3> QED BY <1>2, <2>1, <3>1, FinishLifecycle DEF Lifecycle!Next
    <2>2. CASE UNCHANGED vars
      BY <2>2 DEF vars, Lifecycle!lifecycleVars
    <2>3. ASSUME NEW p \in Proc, Drive(p) PROVE Quiet
      BY <2>3, DriveTable DEF Quiet
    <2>4. "manual" \notin Faults
      BY DEF Undisturbed
    <2>5. CASE Quiet
      BY <1>2, <2>5, QuietLifecycle DEF CalmInv, BasicInv
    <2> QED BY <1>2, <2>1, <2>2, <2>3, <2>4, <2>5, RunTable, UserTable, SweepTable
            DEF Next, ProcStep, CalmInv
  <1> QED BY <1>1, <1>2, CalmAlways, PTL DEF Spec, ImplementsLifecycle, Lifecycle!Spec

=============================================================================
