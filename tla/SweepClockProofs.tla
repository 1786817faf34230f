-------------------------- MODULE SweepClockProofs --------------------------
(***************************************************************************)
(* Proofs about SweepClock, for every timeout, pause, lag and N: sweep     *)
(* fails no row a live runner works on, when N is at least Silence, or at  *)
(* least Attempt where its read of the log failed.                         *)
(*                                                                         *)
(* The argument follows the seconds.  While a runner holds the row, the    *)
(* newer of its claim and its newest log row is no older than the calls    *)
(* since then allow (Quota), the call that runs and the pauses (InTime);   *)
(* so a sweep that begins to read finds it within N.  The claim itself is  *)
(* no older than all calls and pauses since then (WithinAttempt), which is *)
(* what is left to a sweep that cannot read the log.  While the sweep      *)
(* reads, what it compares grows no faster than the clock it compares with *)
(* (ReadingIsFair), so only a row without a runner is judged, and such a   *)
(* row cannot be claimed while it is running (JudgedIsDead).               *)
(***************************************************************************)
EXTENDS SweepClock, TLAPS

USE DEF Dialect

(* No call is under way outside of calls.                                    *)
CallTimeIsSpent == at \notin {"idle"} \cup BeforeClaim \cup AfterClaim => spent = 0

(* What the calls since the newest row, or since the claim when none of the
   rows can be counted on, may have taken.                                   *)
Catalogue == IF FetchesCatalog THEN Timeout ELSE 0
Quota == CASE at = "models" -> Timeout
           [] at = "catalog" -> 2 * Timeout
           [] at = "logPreflight" -> 2 * Timeout + Catalogue
           [] at \in {"logRequest", "post"} -> IF busy THEN 2 * Timeout + Catalogue ELSE 0
           [] at = "logResponse" -> IF busy THEN 3 * Timeout + Catalogue ELSE Timeout
           [] at = "logFail" -> IF busy THEN 3 * Timeout + Catalogue ELSE 2 * Timeout + Catalogue
           [] at \in {"complete", "logDone", "fail"} -> IF busy THEN 3 * Timeout + Catalogue ELSE 0
           [] OTHER -> 0

InTime == /\ at = "catalog" => FetchesCatalog
          /\ Holds => Newer(quiet, age) <= Quota + spent + paused

(* What the calls, and the pauses that a row has ended, may have taken since
   the claim.                                                                *)
Calls == CASE at = "models" -> Timeout
           [] at = "catalog" -> 2 * Timeout
           [] at \in {"logPreflight", "logRequest", "post"} -> 2 * Timeout + Catalogue
           [] at \in {"logResponse", "complete", "logDone", "logFail", "fail"} ->
                 3 * Timeout + Catalogue
           [] OTHER -> 0
Pauses == CASE at = "logResolved" -> Pause
            [] at \in {"health", "models", "catalog", "logPreflight"} -> 2 * Pause
            [] at = "logRequest" -> 3 * Pause
            [] at \in {"post", "logResponse"} -> 4 * Pause
            [] at \in {"complete", "logDone", "logFail"} -> 5 * Pause
            [] at = "fail" -> 6 * Pause
            [] OTHER -> 0

WithinAttempt == Holds => age <= Calls + spent + Pauses + paused

Dead == status = "running" /\ ~Holds
ReadingIsFair ==
    sweep.stage = "reading" =>
        /\ sweep.n >= Silence => Dead \/ Newer(quiet, sweep.seen) <= sweep.n + sweep.lag
        /\ sweep.n >= Attempt => Dead \/ sweep.seen <= sweep.n + sweep.lag
JudgedIsDead == sweep.stage = "judged" /\ sweep.n >= Needed => Dead

ClockInv == /\ TypeOK
            /\ CallTimeIsSpent
            /\ InTime
            /\ WithinAttempt
            /\ ReadingIsFair
            /\ JudgedIsDead

-----------------------------------------------------------------------------
(* Every variable keeps its type.                                            *)
LEMMA TypeInit == Init => TypeOK
BY ClockAssumption DEF Init, TypeOK, Location, NoSweep, Sweep

(* Every step keeps them.                                                     *)
LEMMA TypeStep == TypeOK /\ [Next]_vars => TypeOK'
<1> SUFFICES ASSUME TypeOK, [Next]_vars PROVE TypeOK'
  OBVIOUS
<1> USE ClockAssumption DEF TypeOK, Location, BeforeClaim, AfterClaim, Writing, Go, Newer
<1>1. CASE Tick
  <2>1. /\ status' = status /\ dialect' = dialect /\ busy' = busy /\ at' = at
        /\ age' \in 0..Cap /\ quiet' \in 0..Cap
    BY <1>1 DEF Tick, Older
  <2>2. spent' \in 0..Timeout /\ paused' \in 0..Pause
    <3>1. CASE at \in BeforeClaim \cup AfterClaim
      BY <1>1, <3>1 DEF Tick
    <3>2. CASE at = "idle"
      BY <1>1, <3>2 DEF Tick
    <3>3. CASE at \notin BeforeClaim \cup AfterClaim /\ at # "idle"
      BY <1>1, <3>3 DEF Tick
    <3> QED
      BY <3>1, <3>2, <3>3
  <2>3. sweep' \in Sweep
    <3>1. CASE sweep.stage = "reading"
      <4>1. Older(sweep.seen) \in 0..Cap /\ sweep.lag + 1 \in 0..Lag
        BY <1>1, <3>1 DEF Tick, Older, Sweep
      <4>2. sweep' = [sweep EXCEPT !.seen = Older(@), !.lag = @ + 1]
        BY <1>1, <3>1 DEF Tick
      <4> QED
        BY <4>1, <4>2 DEF Sweep
    <3>2. CASE sweep.stage # "reading"
      BY <1>1, <3>2 DEF Tick
    <3> QED
      BY <3>1, <3>2
  <2> QED
    BY <2>1, <2>2, <2>3
<1>2. CASE Start
  BY <1>2 DEF Start
<1>3. CASE Probe
  BY <1>3 DEF Probe, CallEnds
<1>4. CASE Claim
  BY <1>4 DEF Claim
<1>5. CASE Resolve
  BY <1>5 DEF Resolve, WriteRow
<1>6. CASE Preflight
  BY <1>6 DEF Preflight, CallEnds
<1>7. CASE Ask
  BY <1>7 DEF Ask, CallEnds, WriteRow
<1>8. CASE End
  BY <1>8 DEF End, Close, WriteRow
<1>9. CASE Die
  BY <1>9 DEF Die
<1>10. CASE Reset
  BY <1>10 DEF Reset
<1>11. CASE SweepStep
  <2>0. NoSweep \in Sweep /\ 0 \in 0..Cap
    BY DEF NoSweep, Sweep
  <2>1. ASSUME NEW n \in StaleSeconds, SweepQuery(n) PROVE TypeOK'
    <3>1. sweep' = [stage |-> "reading", n |-> n, seen |-> age, lag |-> 0, blind |-> FALSE]
      BY <2>1 DEF SweepQuery, NoSweep
    <3>2. n \in StaleSeconds \cup {0} /\ age \in 0..Cap /\ 0 \in 0..Lag
      OBVIOUS
    <3>3. sweep' \in Sweep
      BY <3>1, <3>2 DEF Sweep
    <3> QED
      BY <2>1, <3>3 DEF SweepQuery
  <2>2. CASE SweepJudge
    <3>1. PICK log \in LogRead :
              \/ /\ sweep' = [stage |-> "judged", n |-> sweep.n, seen |-> 0, lag |-> 0,
                              blind |-> log # quiet]
                 /\ UNCHANGED quiet
              \/ sweep' = NoSweep /\ quiet' = quiet
      BY <2>2 DEF SweepJudge, Kept, NoSweep
    <3>2. sweep' \in Sweep
      <4>1. 0 \in 0..Lag
        OBVIOUS
      <4>2. sweep.n \in StaleSeconds \cup {0}
        BY DEF Sweep
      <4>3. CASE sweep' = NoSweep
        BY <2>0, <4>3
      <4>4. CASE sweep' # NoSweep
        <5>1. PICK b \in BOOLEAN : sweep' = [stage |-> "judged", n |-> sweep.n, seen |-> 0,
                                             lag |-> 0, blind |-> b]
          BY <3>1, <4>4
        <5> QED
          BY <2>0, <4>1, <4>2, <5>1 DEF Sweep
      <4> QED
        BY <4>3, <4>4
    <3> QED
      BY <2>2, <3>1, <3>2 DEF SweepJudge
  <2>3. CASE SweepFail
    <3>1. sweep' \in Sweep
      BY <2>0, <2>3 DEF SweepFail, NoSweep, Sweep
    <3> QED
      BY <2>3, <3>1 DEF SweepFail
  <2>4. CASE SweepLog
    BY <2>0, <2>4 DEF SweepLog
  <2> QED
    BY <1>11, <2>1, <2>2, <2>3, <2>4 DEF SweepStep
<1>12. CASE UNCHANGED vars
  BY <1>12 DEF vars
<1> QED
  BY <1>1, <1>2, <1>3, <1>4, <1>5, <1>6, <1>7, <1>8, <1>9, <1>10, <1>11, <1>12
     DEF Next, Runner

(* TypeOK is an invariant of every run of the clock, fair or not.            *)
THEOREM ClockTypes == Spec => []TypeOK
BY TypeInit, TypeStep, PTL DEF Spec

-----------------------------------------------------------------------------
(* Time between two rows.                                                    *)

(* In a second, what is newer gets one second older.                         *)
LEMMA OlderByOne == ASSUME NEW a \in 0..Cap, NEW b \in 0..Cap
                    PROVE  Newer(Older(a), Older(b)) <= Newer(a, b) + 1
BY ClockAssumption DEF Older, Newer

(* The newer of two times is no older than either.                           *)
LEMMA NewerIsLower == ASSUME NEW a \in Nat, NEW b \in Nat
                      PROVE  /\ Newer(a, b) \in Nat
                             /\ Newer(a, b) <= a
                             /\ Newer(a, b) <= b
BY DEF Newer

(* What a call takes at most is spent when it ends.                          *)
LEMMA SpentStep == TypeOK /\ CallTimeIsSpent /\ [Next]_vars => CallTimeIsSpent'
<1> SUFFICES ASSUME TypeOK, CallTimeIsSpent, [Next]_vars PROVE CallTimeIsSpent'
  OBVIOUS
<1> USE ClockAssumption DEF TypeOK, CallTimeIsSpent, Location, BeforeClaim, AfterClaim, Writing, Go
<1>1. CASE Tick
  BY <1>1 DEF Tick
<1>2. CASE Start
  BY <1>2 DEF Start
<1>3. CASE Probe
  BY <1>3 DEF Probe, CallEnds
<1>4. CASE Claim
  BY <1>4 DEF Claim
<1>5. CASE Resolve
  BY <1>5 DEF Resolve, WriteRow
<1>6. CASE Preflight
  BY <1>6 DEF Preflight, CallEnds
<1>7. CASE Ask
  BY <1>7 DEF Ask, CallEnds, WriteRow
<1>8. CASE End
  BY <1>8 DEF End, Close, WriteRow
<1>9. CASE Die
  BY <1>9 DEF Die
<1>10. CASE Reset
  BY <1>10 DEF Reset
<1>11. CASE SweepStep
  BY <1>11 DEF SweepStep, SweepQuery, SweepJudge, SweepFail, SweepLog
<1>12. CASE UNCHANGED vars
  BY <1>12 DEF vars
<1> QED
  BY <1>1, <1>2, <1>3, <1>4, <1>5, <1>6, <1>7, <1>8, <1>9, <1>10, <1>11, <1>12
     DEF Next, Runner

(* A runner is never longer without a row than its calls.                    *)
LEMMA InTimeStep == TypeOK /\ CallTimeIsSpent /\ InTime /\ [Next]_vars => InTime'
<1> SUFFICES ASSUME TypeOK, CallTimeIsSpent, InTime, [Next]_vars PROVE InTime'
  OBVIOUS
<1> USE ClockAssumption DEF TypeOK, CallTimeIsSpent, InTime, Holds, Location, BeforeClaim,
        AfterClaim, Writing, Go
<1>n. Newer(quiet, age) \in Nat
  BY NewerIsLower
<1>0. ASSUME quiet' = 0, age' \in Nat, paused' \in Nat, spent' \in Nat, at' # "catalog"
      PROVE  InTime'
  <2>1. Newer(quiet', age') = 0
    BY <1>0 DEF Newer
  <2>2. Quota' \in Nat
    BY <1>0, TypeStep DEF Quota, Catalogue, FetchesCatalog
  <2> QED
    BY <1>0, <2>1, <2>2
<1>1. CASE Tick
  <2>1. Newer(quiet', age') <= Newer(quiet, age) + 1
    BY <1>1, OlderByOne DEF Tick
  <2>2. at' = at /\ Quota' = Quota /\ FetchesCatalog' = FetchesCatalog
    BY <1>1 DEF Tick, Quota, Catalogue, FetchesCatalog
  <2>3. Quota \in Nat
    BY DEF Quota, Catalogue
  <2>4. Holds => \/ spent' = spent + 1 /\ paused' = paused
                 \/ spent' = spent /\ paused' = paused + 1
    BY <1>1 DEF Tick
  <2>5. PICK new \in Nat : new = Newer(quiet', age')
    BY <1>1, TypeStep, NewerIsLower
  <2>6. Holds => new <= Quota + spent' + paused'
    BY <1>n, <2>1, <2>3, <2>4, <2>5
  <2> QED
    BY <2>2, <2>5, <2>6
<1>2. CASE Start
  BY <1>2 DEF Start
<1>3. CASE Probe
  BY <1>3 DEF Probe, CallEnds
<1>4. CASE Claim
  <2>1. CASE at' = "idle"
    BY <2>1
  <2>2. CASE at' # "idle"
    BY <1>4, <2>2 DEF Claim, Newer, Quota
  <2> QED
    BY <2>1, <2>2
<1>5. CASE Resolve
  <2>1. CASE quiet' = 0
    BY <1>0, <1>5, <2>1 DEF Resolve, WriteRow
  <2>2. CASE quiet' # 0
    BY <1>n, <1>5, <2>2 DEF Resolve, WriteRow, Quota, Catalogue
  <2> QED
    BY <2>1, <2>2
<1>6. CASE Preflight
  BY <1>n, <1>6 DEF Preflight, CallEnds, Quota, Catalogue, FetchesCatalog
<1>7. CASE Ask
  BY <1>n, <1>7 DEF Ask, CallEnds, WriteRow, Quota, Catalogue, FetchesCatalog, Newer
<1>8. CASE End
  BY <1>n, <1>8 DEF End, Close, WriteRow, Quota, Catalogue, FetchesCatalog, Newer
<1>9. CASE Die
  BY <1>9 DEF Die
<1>10. CASE Reset
  BY <1>10 DEF Reset
<1>11. CASE SweepStep
  <2>0. /\ at' = at /\ dialect' = dialect /\ busy' = busy
        /\ spent' = spent /\ paused' = paused /\ age' = age
        /\ quiet' = quiet \/ quiet' = 0
    <3>1. CASE SweepJudge
      BY <3>1 DEF SweepJudge, Kept
    <3>2. CASE ~SweepJudge
      BY <1>11, <3>2 DEF SweepStep, SweepQuery, SweepFail, SweepLog
    <3> QED
      BY <3>1, <3>2
  <2>1. /\ at' = at /\ Quota' = Quota /\ FetchesCatalog' = FetchesCatalog
        /\ spent' = spent /\ paused' = paused /\ age' = age
        /\ quiet' = quiet \/ quiet' = 0
    BY <2>0 DEF Quota, Catalogue, FetchesCatalog
  <2>2. Newer(quiet', age') <= Newer(quiet, age) /\ Newer(quiet', age') \in Nat
    BY <2>1 DEF Newer
  <2>3. Quota \in Nat
    BY DEF Quota, Catalogue
  <2> QED
    BY <1>n, <2>1, <2>2, <2>3
<1>12. CASE UNCHANGED vars
  BY <1>12 DEF vars, Quota, Catalogue, FetchesCatalog
<1> QED
  BY <1>1, <1>2, <1>3, <1>4, <1>5, <1>6, <1>7, <1>8, <1>9, <1>10, <1>11, <1>12
     DEF Next, Runner

(* Nor is its claim ever older than its calls and pauses.                    *)
LEMMA WithinAttemptStep ==
    TypeOK /\ CallTimeIsSpent /\ InTime /\ WithinAttempt /\ [Next]_vars => WithinAttempt'
<1> SUFFICES ASSUME TypeOK, CallTimeIsSpent, InTime, WithinAttempt, [Next]_vars
             PROVE  WithinAttempt'
  OBVIOUS
<1> USE ClockAssumption DEF TypeOK, CallTimeIsSpent, InTime, WithinAttempt, Holds, Location,
        BeforeClaim, AfterClaim, Writing, Go
<1>1. CASE Tick
  <2>1. at' = at /\ Calls' = Calls /\ Pauses' = Pauses
    BY <1>1 DEF Tick, Calls, Pauses, Catalogue, FetchesCatalog
  <2>2. Calls \in Nat /\ Pauses \in Nat
    BY DEF Calls, Pauses, Catalogue
  <2>3. age' <= age + 1 /\ age' \in Nat
    BY <1>1 DEF Tick, Older, Newer
  <2>4. Holds => \/ spent' = spent + 1 /\ paused' = paused
                 \/ spent' = spent /\ paused' = paused + 1
    BY <1>1 DEF Tick
  <2>5. Holds => age' <= Calls + spent' + Pauses + paused'
    BY <2>2, <2>3, <2>4
  <2> QED
    BY <2>1, <2>5
<1>2. CASE Start
  BY <1>2 DEF Start
<1>3. CASE Probe
  BY <1>3 DEF Probe, CallEnds
<1>4. CASE Claim
  BY <1>4 DEF Claim, Calls, Pauses
<1>5. CASE Resolve
  BY <1>5 DEF Resolve, WriteRow, Calls, Pauses, Catalogue
<1>6. CASE Preflight
  BY <1>6 DEF Preflight, CallEnds, Calls, Pauses, Catalogue, FetchesCatalog
<1>7. CASE Ask
  BY <1>7 DEF Ask, CallEnds, WriteRow, Calls, Pauses, Catalogue, FetchesCatalog
<1>8. CASE End
  <2>1. CASE Close("complete", "completed", "logDone", "logFail")
    BY <2>1 DEF Close, Calls, Pauses, Catalogue, FetchesCatalog
  <2>2. CASE WriteRow("logFail", "fail")
    BY <2>2 DEF WriteRow, Calls, Pauses, Catalogue, FetchesCatalog
  <2>3. CASE at' = "idle"
    BY <2>3
  <2> QED
    BY <1>8, <2>1, <2>2, <2>3 DEF End, Close, WriteRow
<1>9. CASE Die
  BY <1>9 DEF Die
<1>10. CASE Reset
  BY <1>10 DEF Reset
<1>11. CASE SweepStep
  BY <1>11 DEF SweepStep, SweepQuery, SweepJudge, SweepFail, SweepLog, Calls, Pauses,
               Catalogue, FetchesCatalog
<1>12. CASE UNCHANGED vars
  BY <1>12 DEF vars, Calls, Pauses, Catalogue, FetchesCatalog
<1> QED
  BY <1>1, <1>2, <1>3, <1>4, <1>5, <1>6, <1>7, <1>8, <1>9, <1>10, <1>11, <1>12
     DEF Next, Runner

(* So that all of it is done within Attempt.                                 *)
LEMMA ClaimIsYoung == TypeOK /\ CallTimeIsSpent /\ WithinAttempt /\ Holds
                          => age <= Attempt
<1> SUFFICES ASSUME TypeOK, CallTimeIsSpent, WithinAttempt, Holds
             PROVE  age <= Attempt
  OBVIOUS
<1> USE ClockAssumption DEF TypeOK
<1>1. Attempt = 3 * Timeout + Catalogue + 7 * Pause
  BY DEF Attempt, Catalogue, FetchesCatalog
<1>2. Calls + spent <= 3 * Timeout + Catalogue
  BY DEF CallTimeIsSpent, Calls, Catalogue, Holds, Location, BeforeClaim, AfterClaim, Writing
<1>3. Pauses + paused <= 7 * Pause
  BY DEF Pauses
<1>4. Calls \in Nat /\ Pauses \in Nat /\ Catalogue \in Nat
  BY DEF Calls, Pauses, Catalogue
<1> QED
  BY <1>1, <1>2, <1>3, <1>4 DEF WithinAttempt

(* And its silence is no longer than Silence.                                *)
LEMMA SilenceIsShort == TypeOK /\ CallTimeIsSpent /\ InTime /\ Holds
                             => Newer(quiet, age) <= Silence
<1> SUFFICES ASSUME TypeOK, CallTimeIsSpent, InTime, Holds
             PROVE  Newer(quiet, age) <= Silence
  OBVIOUS
<1> USE ClockAssumption DEF TypeOK
<1>1. Silence = (IF busy THEN 3 * Timeout ELSE 2 * Timeout) + Catalogue + Pause
  BY DEF Silence, SilentCalls, Catalogue, FetchesCatalog
<1>2. Quota + spent <= (IF busy THEN 3 * Timeout ELSE 2 * Timeout) + Catalogue
  BY DEF CallTimeIsSpent, InTime, Quota, Catalogue, FetchesCatalog, Holds, Location, BeforeClaim,
         AfterClaim, Writing
<1>3. Newer(quiet, age) \in Nat /\ Quota \in Nat
  BY NewerIsLower DEF Quota, Catalogue
<1> QED
  BY <1>1, <1>2, <1>3 DEF InTime, Catalogue

-----------------------------------------------------------------------------
(* What sweep compares: numbers.                                             *)
LEMMA NumbersOfSweep ==
    ASSUME NEW r \in Sweep PROVE r.seen \in Nat /\ r.n \in Nat /\ r.lag \in Nat
<1>1. r.seen \in 0..Cap /\ r.lag \in 0..Lag /\ r.n \in StaleSeconds \cup {0}
  BY DEF Sweep
<1>2. StaleSeconds \cup {0} \subseteq Nat
  BY ClockAssumption
<1>3. 0..Cap \subseteq Nat /\ 0..Lag \subseteq Nat
  BY ClockAssumption
<1> QED
  BY <1>1, <1>2, <1>3

(* And what it is compared with.                                             *)
LEMMA NumbersOfClock ==
    ASSUME TypeOK
    PROVE  /\ quiet \in Nat /\ age \in Nat
           /\ sweep.seen \in Nat /\ sweep.n \in Nat /\ sweep.lag \in Nat
<1>1. sweep \in Sweep /\ quiet \in 0..Cap /\ age \in 0..Cap
  BY DEF TypeOK
<1> QED
  BY <1>1, NumbersOfSweep, ClockAssumption

(* Its stages follow each other.                                             *)
LEMMA SweepMoves ==
    ASSUME sweep \in Sweep, SweepStep
    PROVE  \/ /\ sweep.stage = "idle"
              /\ \E n \in StaleSeconds : SweepQuery(n) /\ sweep'.stage = "reading"
           \/ /\ sweep.stage = "reading"
              /\ SweepJudge
              /\ sweep'.stage = "judged" =>
                    \E log \in LogRead : /\ IsStale(log)
                                         /\ sweep'.n = sweep.n
                                         /\ sweep'.blind = (log # quiet)
              /\ sweep'.stage \in {"judged", "idle"}
           \/ sweep.stage = "judged" /\ SweepFail /\ sweep'.stage \in {"log", "idle"}
           \/ sweep.stage = "log" /\ sweep'.stage = "idle"
<1>1. ASSUME NEW n \in StaleSeconds, SweepQuery(n)
      PROVE  sweep.stage = "idle" /\ sweep'.stage = "reading"
  BY <1>1 DEF SweepQuery, NoSweep
<1>2. CASE SweepJudge
  <2>1. PICK log \in LogRead :
            \/ /\ IsStale(log)
               /\ sweep' = [NoSweep EXCEPT !.stage = "judged", !.n = sweep.n,
                                           !.blind = log # quiet]
            \/ sweep' = NoSweep
    BY <1>2 DEF SweepJudge
  <2>2. sweep.stage = "reading"
    BY <1>2 DEF SweepJudge
  <2>3. CASE sweep' = NoSweep
    BY <1>2, <2>2, <2>3 DEF NoSweep
  <2>4. CASE sweep' # NoSweep
    <3>1. /\ IsStale(log)
          /\ sweep'.stage = "judged" /\ sweep'.n = sweep.n /\ sweep'.blind = (log # quiet)
      BY <2>1, <2>4 DEF NoSweep
    <3> QED
      BY <1>2, <2>2, <3>1
  <2> QED
    BY <2>3, <2>4
<1>3. CASE SweepFail
  BY <1>3 DEF SweepFail, Sweep, NoSweep
<1>4. CASE SweepLog
  BY <1>4 DEF SweepLog, NoSweep
<1> QED
  BY <1>1, <1>2, <1>3, <1>4 DEF SweepStep

(* A row without a runner that is running stays so but for sweep.            *)
LEMMA DeadStaysDead == TypeOK /\ Dead /\ [Next]_vars => Dead' \/ SweepFail
<1> SUFFICES ASSUME TypeOK, Dead, [Next]_vars, ~SweepFail PROVE Dead'
  OBVIOUS
<1> USE DEF TypeOK, Dead, Holds, Location, BeforeClaim, AfterClaim, Writing, Go
<1>1. CASE Tick \/ Start \/ Claim \/ Die \/ Reset \/ UNCHANGED vars
  BY <1>1 DEF Tick, Start, Claim, Die, Reset, vars
<1>2. CASE Probe
  BY <1>2 DEF Probe, CallEnds
<1>3. CASE Resolve \/ Preflight \/ Ask \/ End
  BY <1>3 DEF Resolve, Preflight, Ask, End, Close, CallEnds, WriteRow
<1>4. CASE SweepStep
  BY <1>4 DEF SweepStep, SweepQuery, SweepJudge, SweepLog
<1> QED
  BY <1>1, <1>2, <1>3, <1>4 DEF Next, Runner

(* No step but sweep's own changes what sweep holds, a second aside.         *)
LEMMA OthersLeaveSweep ==
    ASSUME TypeOK, Start \/ Runner \/ Die \/ Reset \/ UNCHANGED vars
    PROVE  sweep' = sweep /\ (quiet' = quiet \/ quiet' = 0)
BY DEF Start, Runner, Probe, Claim, Resolve, Preflight, Ask, End, Close, CallEnds, WriteRow,
       Go, Die, Reset, vars

(* Nor does a runner change its dialect.                                     *)
LEMMA BoundsStay == ASSUME [Next]_vars
                    PROVE  /\ Silence' = Silence /\ Silence \in Nat
                           /\ Attempt' = Attempt /\ Attempt \in Nat
<1>1. dialect' = dialect /\ busy' = busy
  BY DEF Next, Tick, Start, Runner, Probe, Claim, Resolve, Preflight, Ask, End, Close, CallEnds,
         WriteRow, Go, Die, Reset, SweepStep, SweepQuery, SweepJudge, SweepFail, SweepLog, vars
<1> QED
  BY ClockAssumption, <1>1 DEF Silence, SilentCalls, Attempt, FetchesCatalog

(* What sweep reads of a row whose runner lives is not stale when it is read,
   and does not become so while it is looked at: not the log, and not the
   claim alone.                                                              *)
LEMMA FairStep == ClockInv /\ [Next]_vars => ReadingIsFair'
<1> SUFFICES ASSUME ClockInv, [Next]_vars, sweep'.stage = "reading", ~Dead'
             PROVE  /\ Silence <= sweep'.n
                          => Newer(quiet', sweep'.seen) <= sweep'.n + sweep'.lag
                    /\ Attempt <= sweep'.n => sweep'.seen <= sweep'.n + sweep'.lag
  BY BoundsStay DEF ReadingIsFair
<1> USE ClockAssumption
<1>t. /\ quiet \in Nat /\ age \in Nat
      /\ sweep.seen \in Nat /\ sweep.n \in Nat /\ sweep.lag \in Nat
  BY NumbersOfClock DEF ClockInv
<1>u. /\ quiet' \in Nat
      /\ sweep'.seen \in Nat /\ sweep'.n \in Nat /\ sweep'.lag \in Nat
  <2>1. TypeOK'
    BY TypeStep DEF ClockInv
  <2>2. \A r \in Sweep : r.seen \in Nat /\ r.n \in Nat /\ r.lag \in Nat
    BY NumbersOfSweep
  <2> QED
    BY <2>1, <2>2 DEF TypeOK
<1>0. Silence \in Nat /\ Attempt \in Nat
  BY BoundsStay
<1>1. CASE Tick
  <2>1. /\ sweep.stage = "reading" /\ sweep'.n = sweep.n /\ sweep'.lag = sweep.lag + 1
        /\ sweep'.seen = Older(sweep.seen) /\ quiet' = Older(quiet)
    BY <1>1 DEF Tick
  <2>2. ~Dead
    BY <1>1 DEF Tick, Dead, Holds
  <2>3. /\ Silence <= sweep.n => Newer(quiet, sweep.seen) <= sweep.n + sweep.lag
        /\ Attempt <= sweep.n => sweep.seen <= sweep.n + sweep.lag
    BY <2>1, <2>2 DEF ReadingIsFair, ClockInv
  <2>4. Newer(quiet', sweep'.seen) <= Newer(quiet, sweep.seen) + 1
    BY <2>1, OlderByOne DEF ClockInv, TypeOK, Sweep
  <2>5. Newer(quiet, sweep.seen) \in Nat /\ Newer(quiet', sweep'.seen) \in Nat
    BY <1>t, <1>u, NewerIsLower
  <2>6. sweep'.seen <= sweep.seen + 1
    BY <1>t, <2>1 DEF Older, Newer
  <2>7. Silence <= sweep'.n => Newer(quiet', sweep'.seen) <= sweep'.n + sweep'.lag
    BY <1>0, <1>t, <1>u, <2>1, <2>3, <2>4, <2>5
  <2>8. Attempt <= sweep'.n => sweep'.seen <= sweep'.n + sweep'.lag
    BY <1>0, <1>t, <1>u, <2>1, <2>3, <2>6
  <2> QED
    BY <2>7, <2>8
<1>2. CASE Start \/ Runner \/ Die \/ Reset \/ UNCHANGED vars
  <2>1. sweep' = sweep /\ (quiet' = quiet \/ quiet' = 0)
    BY <1>2, OthersLeaveSweep DEF ClockInv
  <2>2. ~Dead
    BY <1>2, <2>1, DeadStaysDead DEF SweepFail, ClockInv
  <2>3. /\ Silence <= sweep.n => Newer(quiet, sweep.seen) <= sweep.n + sweep.lag
        /\ Attempt <= sweep.n => sweep.seen <= sweep.n + sweep.lag
    BY <2>1, <2>2 DEF ReadingIsFair, ClockInv
  <2> QED
    BY <1>t, <2>1, <2>3 DEF Newer
<1>3. CASE SweepStep
  <2>1. PICK n \in StaleSeconds : SweepQuery(n)
    BY <1>3, SweepMoves DEF ClockInv, TypeOK
  <2>2. Holds /\ sweep'.seen = age /\ sweep'.n = n /\ sweep'.lag = 0 /\ quiet' = quiet
    BY <2>1 DEF SweepQuery, Dead, Holds, NoSweep
  <2>3. Newer(quiet, age) <= Silence /\ age <= Attempt
    BY <2>2, SilenceIsShort, ClaimIsYoung DEF ClockInv
  <2>4. Newer(quiet, age) \in Nat
    BY <1>t, NewerIsLower
  <2> QED
    BY <1>0, <1>t, <1>u, <2>2, <2>3, <2>4
<1> QED
  BY <1>1, <1>2, <1>3 DEF Next

(* So what it judges has no runner, and gets none before it is failed.       *)
LEMMA JudgedStep == ClockInv /\ [Next]_vars => JudgedIsDead'
<1> SUFFICES ASSUME ClockInv, [Next]_vars, sweep'.stage = "judged",
                    (IF sweep'.blind THEN Attempt ELSE Silence) <= sweep'.n
             PROVE  Dead'
  BY BoundsStay DEF JudgedIsDead, Needed
<1> USE ClockAssumption
<1>t. /\ quiet \in Nat /\ age \in Nat
      /\ sweep.seen \in Nat /\ sweep.n \in Nat /\ sweep.lag \in Nat
  BY NumbersOfClock DEF ClockInv
<1>0. Silence \in Nat /\ Attempt \in Nat
  BY BoundsStay
<1>1. CASE Tick
  <2>1. sweep.stage # "reading"
    BY <1>1 DEF Tick, ClockInv, TypeOK, Sweep
  <2>2. sweep' = sweep
    BY <1>1, <2>1 DEF Tick
  <2> QED
    BY <1>1, <2>2 DEF JudgedIsDead, Needed, ClockInv, Tick, Dead, Holds
<1>2. CASE Start \/ Runner \/ Die \/ Reset \/ UNCHANGED vars
  <2>1. sweep' = sweep
    BY <1>2, OthersLeaveSweep DEF ClockInv
  <2>2. Dead
    BY <2>1 DEF JudgedIsDead, Needed, ClockInv
  <2>3. CASE SweepFail
    BY <1>2, <2>1, <2>3, SweepMoves DEF ClockInv, TypeOK, SweepStep
  <2> QED
    BY <2>2, <2>3, DeadStaysDead DEF ClockInv
<1>3. CASE SweepStep
  <2>1. /\ SweepJudge /\ sweep.stage = "reading" /\ sweep'.n = sweep.n
        /\ \E log \in LogRead : IsStale(log) /\ sweep'.blind = (log # quiet)
    BY <1>3, SweepMoves DEF ClockInv, TypeOK
  <2>2. PICK log \in LogRead : IsStale(log) /\ sweep'.blind = (log # quiet)
    BY <2>1
  <2>3. log \in Nat
    BY <1>t DEF LogRead
  <2>4. Newer(log, sweep.seen) > sweep.n + sweep.lag
    BY <2>2 DEF IsStale, Activity
  <2>5. Newer(log, sweep.seen) \in Nat /\ Newer(log, sweep.seen) <= sweep.seen
    BY <1>t, <2>3, NewerIsLower
  <2>6. /\ Silence <= sweep.n => Dead \/ Newer(quiet, sweep.seen) <= sweep.n + sweep.lag
        /\ Attempt <= sweep.n => Dead \/ sweep.seen <= sweep.n + sweep.lag
    BY <2>1 DEF ReadingIsFair, ClockInv
  <2>7. ASSUME log = quiet PROVE Dead
    <3>1. Silence <= sweep.n
      BY <2>1, <2>2, <2>7
    <3> QED
      BY <1>t, <2>4, <2>5, <2>6, <2>7, <3>1
  <2>8. ASSUME log # quiet PROVE Dead
    <3>1. Attempt <= sweep.n
      BY <2>1, <2>2, <2>8
    <3> QED
      BY <1>t, <2>4, <2>5, <2>6, <3>1
  <2>9. Dead
    BY <2>7, <2>8
  <2> QED
    BY <2>1, <2>9 DEF SweepJudge, Dead, Holds
<1> QED
  BY <1>1, <1>2, <1>3 DEF Next

-----------------------------------------------------------------------------
(* The inductive invariant holds at the start and is kept by every step.     *)
LEMMA ClockInit == Init => ClockInv
BY TypeInit DEF Init, ClockInv, CallTimeIsSpent, InTime, WithinAttempt, ReadingIsFair,
                JudgedIsDead, Holds, AfterClaim, Writing, NoSweep

(* Every step keeps the invariant.                                           *)
LEMMA ClockStep == ClockInv /\ [Next]_vars => ClockInv'
BY TypeStep, SpentStep, InTimeStep, WithinAttemptStep, FairStep, JudgedStep DEF ClockInv

(* sweep fails no row a runner still works on when N is at least Silence, or,
   where its read of the log failed, at least Attempt: whatever the timeout,
   the pauses and the time sweep itself takes, and whichever statements fail. *)
THEOREM SweepSparesTheLiving == Spec => LiveRunnerSpared
<1>1. ClockInv /\ [Next]_vars
          => [sweep.stage = "judged" /\ sweep'.stage = "log" /\ sweep.n >= Needed
                  => ~Holds]_vars
  <2> SUFFICES ASSUME ClockInv, sweep.stage = "judged", sweep.n >= Needed
               PROVE  ~Holds
    OBVIOUS
  <2> QED
    BY DEF ClockInv, JudgedIsDead, Dead
<1> QED
  BY <1>1, ClockInit, ClockStep, PTL DEF Spec, LiveRunnerSpared
=============================================================================
