---------------------- MODULE WaitForConfirmation_proofs ----------------------
(***************************************************************************)
(* Proofs about WaitForConfirmation, for every timeout, delay, number of   *)
(* retries and event loop delay, without the bounds of the TLC runs.       *)
(***************************************************************************)
EXTENDS WaitForConfirmation, TLAPS

LatestWake == Timeout - 1 + LongerDelay

(* The deadline of a race is never early and late by one sleep at most.    *)
DeadlineInv ==
  pc = "polling" => /\ timer \in Timeout .. LatestWake + Lag
                    /\ now <= timer + Lag

(* A sleep begins before the timeout only. *)
SleepInv ==
  pc = "sleeping" => /\ wake <= LatestWake
                     /\ now <= wake + Lag
                     /\ inflight = {}

(* The requests in flight are at most one, the last made; what it has read *)
(* is still true of the network.                                           *)
InflightInv ==
  /\ \A c, d \in inflight : c = d
  /\ \A c \in inflight : /\ c.id = issued
                         /\ c.seen = "executed" => node = "executed"

(* attempts counts the failed polls until the one that settles. *)
AttemptsInv ==
  /\ outcome # "failed" => failures = attempts
  /\ outcome = "failed" => failures = MaxRetries + 1

OutcomeInv ==
  /\ ResolvesOnlyWhenExecuted
  /\ NoEarlyTimeout
  /\ settledAt <= Latest
  /\ NodeApi = 2 => ExecutionNotMissed

IInv == /\ TypeOK
        /\ TimersReleased
        /\ DeadlineInv
        /\ SleepInv
        /\ InflightInv
        /\ AttemptsInv
        /\ OutcomeInv
-----------------------------------------------------------------------------
(* The two delays lie between 1 and the longer of them. *)
LEMMA DelayBounds ==
  /\ LongerDelay \in Nat \ {0}
  /\ PollDelay <= LongerDelay /\ RetryDelay <= LongerDelay
  /\ LatestWake \in Nat /\ Latest = LatestWake + 2 * Lag
  /\ Timeout <= LatestWake
BY WaitAssumption DEF LongerDelay, LatestWake, Latest

(* The timer of a race is due at the deadline, or at once when it is past. *)
LEMMA TimerDueBounds ==
  ASSUME NEW t \in Nat
  PROVE  /\ TimerDue(t) \in Nat
         /\ TimerDue(t) >= Timeout /\ TimerDue(t) >= t
         /\ t <= LatestWake + Lag => TimerDue(t) <= LatestWake + Lag
BY WaitAssumption, DelayBounds DEF TimerDue

(* While the promise is pending the clock is at most at Latest. *)
LEMMA PendingBound ==
  ASSUME IInv, outcome = "pending"
  PROVE  now <= Latest
<1>1. CASE pc = "polling"
  BY <1>1, DelayBounds, WaitAssumption DEF IInv, TypeOK, DeadlineInv
<1>2. CASE pc = "sleeping"
  BY <1>2, DelayBounds, WaitAssumption
     DEF IInv, TypeOK, SleepInv, TimersReleased, NoTimer
<1> QED BY <1>1, <1>2 DEF IInv, TypeOK, TimersReleased

LEMMA InitInv == Init => IInv
<1> SUFFICES ASSUME Init PROVE IInv
  OBVIOUS
<1>1. timer \in Nat /\ timer >= Timeout /\ timer <= LatestWake + Lag
  BY TimerDueBounds, DelayBounds, WaitAssumption DEF Init
<1>2. TypeOK
  <2>1. inflight \subseteq Calls
    BY DEF Init, Calls, Call
  <2>2. /\ now \in Nat /\ settledAt \in Nat /\ issued \in Nat /\ failures \in Nat
        /\ attempts \in 0..MaxRetries
    BY WaitAssumption DEF Init
  <2>3. node \in NodeStates /\ pc \in {"polling", "sleeping", "settled"}
    BY DEF Init
  <2>4. outcome \in Outcomes /\ wake \in Nat \union {NoTimer}
    BY DEF Init, Outcomes
  <2>5. shown \in BOOLEAN
    BY Zenon DEF Init
  <2> QED
    BY <1>1, <2>1, <2>2, <2>3, <2>4, <2>5 DEF TypeOK
<1>3. TimersReleased /\ DeadlineInv /\ SleepInv
  BY <1>1, DelayBounds, WaitAssumption
     DEF Init, TimersReleased, NoTimer, DeadlineInv, SleepInv
<1>4. InflightInv /\ AttemptsInv /\ OutcomeInv
  BY DelayBounds, WaitAssumption
     DEF Init, InflightInv, Call, AttemptsInv, OutcomeInv,
         ResolvesOnlyWhenExecuted, NoEarlyTimeout, ExecutionNotMissed
<1> QED BY <1>2, <1>3, <1>4 DEF IInv
-----------------------------------------------------------------------------
(* What settling does to the parts of the invariant that say nothing of    *)
(* the reason.                                                             *)
LEMMA SettleStep ==
  ASSUME IInv, pc = "polling", NEW reason \in Outcomes \ {"pending"},
         Settle(reason), UNCHANGED <<now, node>>, inflight' \subseteq inflight,
         attempts' \in 0..MaxRetries, failures' \in Nat,
         shown' \in BOOLEAN
  PROVE  /\ TypeOK' /\ TimersReleased' /\ DeadlineInv' /\ SleepInv'
         /\ InflightInv' /\ settledAt' <= Latest
<1>1. outcome = "pending"
  BY DEF IInv, TypeOK, TimersReleased
<1>2. TypeOK'
  BY DEF IInv, TypeOK, Settle, NoTimer
<1>3. settledAt' <= Latest
  BY <1>1, PendingBound DEF Settle
<1>4. TimersReleased' /\ DeadlineInv' /\ SleepInv'
  BY DEF Settle, TimersReleased, DeadlineInv, SleepInv, Outcomes, NoTimer
<1>5. InflightInv'
  BY DEF IInv, InflightInv, Settle
<1> QED BY <1>2, <1>3, <1>4, <1>5

(* What going to sleep does to the same parts. *)
LEMMA SleepStep ==
  ASSUME IInv, pc = "polling", NEW delay \in {PollDelay, RetryDelay},
         now < Timeout, pc' = "sleeping", timer' = NoTimer, wake' = now + delay,
         UNCHANGED <<now, node, issued, outcome, settledAt>>, inflight' = {},
         attempts' \in 0..MaxRetries, failures' \in Nat,
         shown' \in BOOLEAN
  PROVE  /\ TypeOK' /\ TimersReleased' /\ DeadlineInv' /\ SleepInv'
         /\ InflightInv' /\ settledAt' <= Latest
<1>1. wake' \in Nat /\ wake' <= LatestWake /\ now <= wake'
  BY WaitAssumption, DelayBounds DEF IInv, TypeOK, LatestWake
<1>2. TypeOK'
  BY <1>1 DEF IInv, TypeOK, NoTimer
<1>3. TimersReleased'
  BY <1>1 DEF IInv, TypeOK, TimersReleased, NoTimer
<1>4. DeadlineInv' /\ SleepInv' /\ InflightInv'
  BY <1>1, WaitAssumption DEF IInv, TypeOK, DeadlineInv, SleepInv, InflightInv
<1>5. settledAt' <= Latest
  BY DEF IInv, OutcomeInv
<1> QED BY <1>2, <1>3, <1>4, <1>5

(* The awaited request is the only one in flight. *)
LEMMA AwaitedAlone ==
  ASSUME IInv, NEW c \in inflight
  PROVE  inflight \ {c} = {} /\ (c.seen = "executed" => node = "executed")
BY DEF IInv, InflightInv
-----------------------------------------------------------------------------
LEMMA NodeAdvancesInv == IInv /\ NodeAdvances => IInv'
<1> SUFFICES ASSUME IInv, NodeAdvances PROVE IInv'
  OBVIOUS
<1> USE DEF NodeAdvances, loopVars, historyVars, IInv
<1>1. TypeOK'
  BY DEF TypeOK, NodeStates
<1>2. TimersReleased' /\ DeadlineInv' /\ SleepInv' /\ AttemptsInv'
  BY DEF TimersReleased, DeadlineInv, SleepInv, AttemptsInv
<1>3. InflightInv'
  BY DEF InflightInv
<1>4. OutcomeInv'
  BY DEF OutcomeInv, ResolvesOnlyWhenExecuted, NoEarlyTimeout,
         ExecutionNotMissed
<1> QED BY <1>1, <1>2, <1>3, <1>4

LEMMA NodeServesInv ==
  ASSUME IInv, NEW c \in inflight, NodeServes(c)
  PROVE  IInv'
<1> USE DEF NodeServes, loopVars, historyVars, IInv
<1>1. inflight' = {Call(c.id, node)}
  BY AwaitedAlone
<1>2. TypeOK'
  <2>1. inflight' \subseteq Calls
    BY <1>1 DEF TypeOK, Calls, Call
  <2> QED BY <2>1 DEF TypeOK
<1>3. TimersReleased' /\ DeadlineInv' /\ AttemptsInv'
  BY DEF TimersReleased, DeadlineInv, AttemptsInv
<1>4. SleepInv'
  BY DEF SleepInv
<1>5. InflightInv'
  BY <1>1 DEF InflightInv, Call
<1>6. OutcomeInv'
  BY DEF OutcomeInv, ResolvesOnlyWhenExecuted, NoEarlyTimeout,
         ExecutionNotMissed
<1> QED BY <1>2, <1>3, <1>4, <1>5, <1>6

(* The parts that depend on what the polls answered. *)
LEMMA PollConfirmsInv ==
  ASSUME IInv, NEW c \in inflight, PollConfirms(c)
  PROVE  IInv'
<1> USE DEF PollConfirms, Awaited
<1>1. outcome = "pending" /\ c.seen = "executed" /\ node = "executed"
  BY AwaitedAlone DEF IInv, TimersReleased, HasExecutionInfo
<1>2. /\ attempts' \in 0..MaxRetries /\ failures' \in Nat
      /\ inflight' \subseteq inflight
  BY DEF IInv, TypeOK
<1>3. shown' \in BOOLEAN
  BY Zenon
<1>4. /\ TypeOK' /\ TimersReleased' /\ DeadlineInv' /\ SleepInv'
      /\ InflightInv' /\ settledAt' <= Latest
  BY <1>2, <1>3, SettleStep DEF Outcomes
<1>5. AttemptsInv'
  BY <1>1 DEF IInv, AttemptsInv, Settle
<1>6. OutcomeInv'
  BY <1>1, <1>4 DEF OutcomeInv, Settle, ResolvesOnlyWhenExecuted,
                    NoEarlyTimeout, ExecutionNotMissed
<1> QED BY <1>4, <1>5, <1>6 DEF IInv

LEMMA PollFindsNothingInv ==
  ASSUME IInv, NEW c \in inflight, PollFindsNothing(c)
  PROVE  IInv'
<1> USE DEF PollFindsNothing, Awaited
<1>1. /\ outcome = "pending" /\ failures = attempts
      /\ NodeApi = 2 => c.seen # "executed" /\ ~shown
  BY DEF IInv, TimersReleased, AttemptsInv, HasExecutionInfo, OutcomeInv,
         ExecutionNotMissed
<1>2. /\ attempts' \in 0..MaxRetries /\ failures' \in Nat
      /\ inflight' = {}
  BY AwaitedAlone DEF IInv, TypeOK
<1>3. shown' \in BOOLEAN /\ (NodeApi = 2 => ~shown')
  BY <1>1, Zenon
<1>4. CASE now >= Timeout /\ Settle("timeout")
  <2>1. /\ TypeOK' /\ TimersReleased' /\ DeadlineInv' /\ SleepInv'
        /\ InflightInv' /\ settledAt' <= Latest
    BY <1>2, <1>3, <1>4, SettleStep DEF Outcomes
  <2>2. AttemptsInv'
    BY <1>1, <1>4 DEF AttemptsInv, Settle
  <2>3. OutcomeInv'
    BY <1>3, <1>4, <2>1 DEF OutcomeInv, Settle, ResolvesOnlyWhenExecuted,
                            NoEarlyTimeout, ExecutionNotMissed
  <2> QED BY <2>1, <2>2, <2>3 DEF IInv
<1>5. CASE now < Timeout /\ UNCHANGED <<issued, outcome, settledAt>>
           /\ pc' = "sleeping" /\ timer' = NoTimer /\ wake' = now + PollDelay
  <2>1. /\ TypeOK' /\ TimersReleased' /\ DeadlineInv' /\ SleepInv'
        /\ InflightInv' /\ settledAt' <= Latest
    BY <1>2, <1>3, <1>5, SleepStep
  <2>2. AttemptsInv'
    BY <1>1, <1>5 DEF AttemptsInv
  <2>3. OutcomeInv'
    BY <1>1, <1>3, <1>5, <2>1 DEF OutcomeInv, ResolvesOnlyWhenExecuted,
                                  NoEarlyTimeout, ExecutionNotMissed
  <2> QED BY <2>1, <2>2, <2>3 DEF IInv
<1> QED BY <1>4, <1>5 DEF SleepOrTimeOut
(* A poll that threw, whatever the reason. *)
LEMMA FailedPollInv ==
  ASSUME IInv, NEW c \in inflight, Awaited(c), inflight' = inflight \ {c},
         failures' = failures + 1, RetryOrGiveUp,
         UNCHANGED <<now, node, shown>>
  PROVE  IInv'
<1> USE DEF Awaited
<1>1. /\ outcome = "pending" /\ failures = attempts
      /\ NodeApi = 2 => ~shown
  BY DEF IInv, TimersReleased, AttemptsInv, OutcomeInv, ExecutionNotMissed
<1>2. failures' \in Nat /\ inflight' = {}
  BY AwaitedAlone DEF IInv, TypeOK
<1>3. shown' \in BOOLEAN
  BY DEF IInv, TypeOK
<1>4. CASE attempts >= MaxRetries /\ Settle("failed") /\ UNCHANGED attempts
  <2>1. attempts' \in 0..MaxRetries
    BY <1>4 DEF IInv, TypeOK
  <2>2. /\ TypeOK' /\ TimersReleased' /\ DeadlineInv' /\ SleepInv'
        /\ InflightInv' /\ settledAt' <= Latest
    BY <1>2, <1>3, <1>4, <2>1, SettleStep DEF Outcomes
  <2>3. failures' = MaxRetries + 1
    BY <1>1, <1>4, WaitAssumption DEF IInv, TypeOK
  <2>4. AttemptsInv'
    BY <1>4, <2>3 DEF AttemptsInv, Settle
  <2>5. OutcomeInv'
    BY <1>1, <1>4, <2>2 DEF OutcomeInv, Settle, ResolvesOnlyWhenExecuted,
                            NoEarlyTimeout, ExecutionNotMissed
  <2> QED BY <2>2, <2>4, <2>5 DEF IInv
<1>5. ASSUME attempts < MaxRetries, attempts' = attempts + 1,
             SleepOrTimeOut(RetryDelay)
      PROVE  IInv'
  <2>1. attempts' \in 0..MaxRetries /\ failures' = attempts'
    BY <1>1, <1>5, WaitAssumption DEF IInv, TypeOK
  <2>2. CASE now >= Timeout /\ Settle("timeout")
    <3>1. /\ TypeOK' /\ TimersReleased' /\ DeadlineInv' /\ SleepInv'
          /\ InflightInv' /\ settledAt' <= Latest
      BY <1>2, <1>3, <2>1, <2>2, SettleStep DEF Outcomes
    <3>2. AttemptsInv'
      BY <2>1, <2>2 DEF AttemptsInv, Settle
    <3>3. OutcomeInv'
      BY <1>1, <2>2, <3>1 DEF OutcomeInv, Settle, ResolvesOnlyWhenExecuted,
                              NoEarlyTimeout, ExecutionNotMissed
    <3> QED BY <3>1, <3>2, <3>3 DEF IInv
  <2>3. CASE now < Timeout /\ UNCHANGED <<issued, outcome, settledAt>>
             /\ pc' = "sleeping" /\ timer' = NoTimer /\ wake' = now + RetryDelay
    <3>1. /\ TypeOK' /\ TimersReleased' /\ DeadlineInv' /\ SleepInv'
          /\ InflightInv' /\ settledAt' <= Latest
      BY <1>2, <1>3, <2>1, <2>3, SleepStep
    <3>2. AttemptsInv'
      BY <1>1, <2>1, <2>3 DEF AttemptsInv
    <3>3. OutcomeInv'
      BY <1>1, <2>3, <3>1 DEF OutcomeInv, ResolvesOnlyWhenExecuted,
                              NoEarlyTimeout, ExecutionNotMissed
    <3> QED BY <3>1, <3>2, <3>3 DEF IInv
  <2> QED BY <1>5, <2>2, <2>3 DEF SleepOrTimeOut
<1> QED BY <1>4, <1>5 DEF RetryOrGiveUp

LEMMA LateAnswerInv ==
  ASSUME IInv, NEW c \in inflight, LateAnswer(c)
  PROVE  IInv'
<1> USE DEF LateAnswer, loopVars, historyVars, IInv
<1>1. TypeOK'
  BY DEF TypeOK
<1>2. TimersReleased' /\ DeadlineInv' /\ SleepInv' /\ AttemptsInv'
  BY DEF TimersReleased, DeadlineInv, SleepInv, AttemptsInv
<1>3. InflightInv'
  BY DEF InflightInv
<1>4. OutcomeInv'
  BY DEF OutcomeInv, ResolvesOnlyWhenExecuted, NoEarlyTimeout,
         ExecutionNotMissed
<1> QED BY <1>1, <1>2, <1>3, <1>4

LEMMA DeadlineFiresInv == IInv /\ DeadlineFires => IInv'
<1> SUFFICES ASSUME IInv, DeadlineFires PROVE IInv'
  OBVIOUS
<1> USE DEF DeadlineFires, historyVars
<1>1. pc = "polling" /\ outcome = "pending" /\ now >= Timeout
  BY WaitAssumption, DelayBounds DEF IInv, TypeOK, TimersReleased, DeadlineInv
<1>2. NodeApi = 2 => ~shown
  BY <1>1 DEF IInv, OutcomeInv, ExecutionNotMissed
<1>3. /\ attempts' \in 0..MaxRetries /\ failures' \in Nat
      /\ shown' \in BOOLEAN /\ inflight' \subseteq inflight
  BY DEF IInv, TypeOK
<1>4. /\ TypeOK' /\ TimersReleased' /\ DeadlineInv' /\ SleepInv'
      /\ InflightInv' /\ settledAt' <= Latest
  BY <1>1, <1>3, SettleStep DEF Outcomes
<1>5. AttemptsInv'
  BY <1>1 DEF IInv, AttemptsInv, Settle
<1>6. OutcomeInv'
  BY <1>1, <1>2, <1>4 DEF OutcomeInv, Settle, ResolvesOnlyWhenExecuted,
                          NoEarlyTimeout, ExecutionNotMissed
<1> QED BY <1>4, <1>5, <1>6 DEF IInv

LEMMA WakeInv == IInv /\ Wake => IInv'
<1> SUFFICES ASSUME IInv, Wake PROVE IInv'
  OBVIOUS
<1> USE DEF Wake, historyVars
<1>1. /\ pc = "sleeping" /\ outcome = "pending" /\ inflight = {}
      /\ timer = NoTimer /\ now \in Nat /\ now <= LatestWake + Lag
  BY WaitAssumption, DelayBounds
     DEF IInv, TypeOK, TimersReleased, SleepInv, NoTimer
<1>2. /\ timer' \in Nat /\ timer' >= Timeout /\ timer' >= now
      /\ timer' <= LatestWake + Lag
  BY <1>1, TimerDueBounds
<1>3. issued' \in Nat /\ inflight' = {Call(issued', "nothing")}
  BY <1>1 DEF IInv, TypeOK
<1>4. TypeOK'
  <2>1. inflight' \subseteq Calls
    BY <1>3 DEF Calls, Call
  <2> QED BY <1>2, <1>3, <2>1 DEF IInv, TypeOK
<1>5. TimersReleased' /\ DeadlineInv' /\ SleepInv'
  BY <1>1, <1>2, DelayBounds, WaitAssumption
     DEF TimersReleased, DeadlineInv, SleepInv, NoTimer
<1>6. InflightInv'
  BY <1>3 DEF InflightInv, Call
<1>7. AttemptsInv' /\ OutcomeInv'
  BY DEF IInv, AttemptsInv, OutcomeInv, ResolvesOnlyWhenExecuted,
         NoEarlyTimeout, ExecutionNotMissed
<1> QED BY <1>4, <1>5, <1>6, <1>7 DEF IInv

LEMMA TickInv == IInv /\ Tick => IInv'
<1> SUFFICES ASSUME IInv, Tick PROVE IInv'
  OBVIOUS
<1> USE DEF Tick, loopVars, historyVars, IInv
<1>1. TypeOK'
  BY DEF TypeOK
<1>2. TimersReleased' /\ AttemptsInv' /\ InflightInv'
  BY DEF TimersReleased, AttemptsInv, InflightInv
<1>3. DeadlineInv' /\ SleepInv'
  BY WaitAssumption DEF TypeOK, TimersReleased, DeadlineInv, SleepInv, NoTimer
<1>4. OutcomeInv'
  BY DEF OutcomeInv, ResolvesOnlyWhenExecuted, NoEarlyTimeout,
         ExecutionNotMissed
<1> QED BY <1>1, <1>2, <1>3, <1>4
LEMMA StutterInv == IInv /\ UNCHANGED vars => IInv'
BY DEF vars, loopVars, historyVars, IInv, TypeOK, TimersReleased, DeadlineInv,
       SleepInv, InflightInv, AttemptsInv, OutcomeInv,
       ResolvesOnlyWhenExecuted, NoEarlyTimeout, ExecutionNotMissed

LEMMA NextInv == IInv /\ [Next]_vars => IInv'
<1> SUFFICES ASSUME IInv, [Next]_vars PROVE IInv'
  OBVIOUS
<1>1. CASE NodeAdvances
  BY <1>1, NodeAdvancesInv
<1>2. ASSUME NEW c \in inflight, NodeServes(c) PROVE IInv'
  BY <1>2, NodeServesInv
<1>3. ASSUME NEW c \in inflight, PollConfirms(c) PROVE IInv'
  BY <1>3, PollConfirmsInv
<1>4. ASSUME NEW c \in inflight, PollFindsNothing(c) PROVE IInv'
  BY <1>4, PollFindsNothingInv
<1>5. ASSUME NEW c \in inflight, NodeRejects(c) PROVE IInv'
  BY <1>5, FailedPollInv DEF NodeRejects
<1>6. ASSUME NEW c \in inflight, TransportFails(c) PROVE IInv'
  BY <1>6, FailedPollInv DEF TransportFails
<1>7. ASSUME NEW c \in inflight, LateAnswer(c) PROVE IInv'
  BY <1>7, LateAnswerInv
<1>8. CASE DeadlineFires
  BY <1>8, DeadlineFiresInv
<1>9. CASE Wake
  BY <1>9, WakeInv
<1>10. CASE Tick
  BY <1>10, TickInv
<1>11. CASE UNCHANGED vars
  BY <1>11, StutterInv
<1> QED
  BY <1>1, <1>2, <1>3, <1>4, <1>5, <1>6, <1>7, <1>8, <1>9, <1>10, <1>11
     DEF Next, Network, Answer
-----------------------------------------------------------------------------
(* IInv holds in every reachable state: what the theorems below rest on. *)
THEOREM Invariance == Spec => []IInv
BY InitInv, NextInv, PTL DEF Spec

(* Every variable of the wait keeps its type. *)
THEOREM TypeCorrect == Spec => []TypeOK
<1>1. IInv => TypeOK
  BY DEF IInv
<1> QED BY <1>1, Invariance, PTL

(* waitForConfirmation resolves only once the node has executed the        *)
(* transaction.                                                            *)
THEOREM ResolutionSound == Spec => []ResolvesOnlyWhenExecuted
<1>1. IInv => ResolvesOnlyWhenExecuted
  BY DEF IInv, OutcomeInv
<1> QED BY <1>1, Invariance, PTL

(* It forgives maxRetries failed polls, no more and no fewer. *)
THEOREM RetryBudgetExact == Spec => []RetryBudget
<1>1. IInv => RetryBudget
  BY WaitAssumption DEF IInv, TypeOK, AttemptsInv, RetryBudget
<1> QED BY <1>1, Invariance, PTL

(* It rejects with 'Timeout' no sooner than the timeout. *)
THEOREM TimeoutNotEarly == Spec => []NoEarlyTimeout
<1>1. IInv => NoEarlyTimeout
  BY DEF IInv, OutcomeInv
<1> QED BY <1>1, Invariance, PTL

(* It is pending for at most one sleep and the event loop's delays beyond  *)
(* the timeout, whether or not the node ever answers.                      *)
THEOREM LatenessBounded == Spec => []SettledByLatest
<1>1. IInv => SettledByLatest
  BY PendingBound DEF IInv, OutcomeInv, SettledByLatest
<1> QED BY <1>1, Invariance, PTL

(* It keeps to its timeout, from both sides. *)
THEOREM TimeoutIsKept == Spec => []KeepsTimeout
<1> QED BY TimeoutNotEarly, LatenessBounded, PTL DEF KeepsTimeout

(* No timer of it survives the promise. *)
THEOREM TimersDoNotLeak == Spec => []TimersReleased
<1>1. IInv => TimersReleased
  BY DEF IInv
<1> QED BY <1>1, Invariance, PTL

(* Its polls never overlap. *)
THEOREM PollsDoNotOverlap == Spec => []OneRequestAtATime
<1>1. IInv => OneRequestAtATime
  BY DEF IInv, InflightInv, OneRequestAtATime
<1> QED BY <1>1, Invariance, PTL

(* It holds one timer and one request at most, and none afterwards. *)
THEOREM WaitsLeaveNothing == Spec => []NothingPilesUp
<1> QED BY TimersDoNotLeak, PollsDoNotOverlap, PTL DEF NothingPilesUp

(* On an API 2 node an execution result that a poll has read confirms,     *)
(* even when the deadline is past.                                         *)
THEOREM ConfirmationNotMissed ==
  ASSUME NodeApi = 2
  PROVE  Spec => []ExecutionNotMissed
<1>1. IInv => ExecutionNotMissed
  BY DEF IInv, OutcomeInv
<1> QED BY <1>1, Invariance, PTL

(* A promise that has settled is final and its loop makes no more requests. *)
THEOREM SettlingIsFinal == Spec => SilentOnceSettled
<1>1. IInv /\ [Next]_vars
        => [outcome # "pending" => UNCHANGED <<outcome, settledAt, issued>>]_vars
  <2> SUFFICES ASSUME IInv, Next, outcome # "pending"
               PROVE  UNCHANGED <<outcome, settledAt, issued>>
    OBVIOUS
  <2>1. pc = "settled" /\ timer = NoTimer /\ wake = NoTimer
    BY DEF IInv, TimersReleased, TypeOK
  <2> QED
    BY <2>1 DEF Next, Network, Answer, NodeAdvances, NodeServes, PollConfirms,
                PollFindsNothing, NodeRejects, TransportFails, LateAnswer,
                DeadlineFires, Wake, Tick, Awaited, loopVars
<1> QED BY <1>1, Invariance, PTL DEF Spec, SilentOnceSettled
-----------------------------------------------------------------------------
(* Every step of the loop is a step of the promise or leaves it alone. *)
LEMMA StepSimulation ==
  IInv /\ [Next]_vars => [Promise!PNext]_(Promise!promiseVars)
<1> SUFFICES ASSUME IInv, [Next]_vars
             PROVE  [Promise!PNext]_(Promise!promiseVars)
  OBVIOUS
<1> USE DEF Promise!PNext, Promise!promiseVars
<1>1. ASSUME pc = "polling", NEW reason \in Promise!Reasons, Settle(reason),
             UNCHANGED <<now, node>>, reason = "confirmed" => node = "executed",
             reason = "timeout" => now >= Timeout
      PROVE  Promise!PNext
  BY <1>1 DEF Promise!PSettle, Settle, IInv, TimersReleased
<1>2. ASSUME pc = "polling", NEW delay, SleepOrTimeOut(delay),
             UNCHANGED <<now, node>>
      PROVE  [Promise!PNext]_(Promise!promiseVars)
  BY <1>1, <1>2 DEF SleepOrTimeOut, Promise!Reasons
<1>3. ASSUME pc = "polling", RetryOrGiveUp, UNCHANGED <<now, node>>
      PROVE  [Promise!PNext]_(Promise!promiseVars)
  BY <1>1, <1>2, <1>3 DEF RetryOrGiveUp, Promise!Reasons
<1>4. CASE NodeAdvances
  BY <1>4 DEF NodeAdvances, loopVars, Promise!PNode
<1>5. ASSUME NEW c \in inflight, PollConfirms(c) PROVE Promise!PNext
  BY <1>1, <1>5, AwaitedAlone
     DEF PollConfirms, Awaited, HasExecutionInfo, Promise!Reasons
<1>6. CASE DeadlineFires
  BY <1>1, <1>6, WaitAssumption, DelayBounds
     DEF DeadlineFires, IInv, TypeOK, TimersReleased, DeadlineInv,
         Promise!Reasons
<1>7. CASE Wake
  BY <1>7 DEF Wake
<1>8. CASE Tick
  <2>1. outcome = "pending" => now < Latest
    BY <1>8, WaitAssumption, DelayBounds
       DEF Tick, IInv, TypeOK, TimersReleased, DeadlineInv, SleepInv, NoTimer
  <2> QED BY <1>8, <2>1 DEF Tick, loopVars, Promise!PTick
<1>9. CASE \E c \in inflight : NodeServes(c) \/ LateAnswer(c)
  BY <1>9 DEF NodeServes, LateAnswer, loopVars
<1>10. CASE \E c \in inflight :
              PollFindsNothing(c) \/ NodeRejects(c) \/ TransportFails(c)
  BY <1>2, <1>3, <1>10
     DEF PollFindsNothing, NodeRejects, TransportFails, Awaited
<1>11. CASE UNCHANGED vars
  BY <1>11 DEF vars, loopVars
<1> QED
  BY <1>4, <1>5, <1>6, <1>7, <1>8, <1>9, <1>10, <1>11
     DEF Next, Network, Answer

(* The polling loop implements the promise its callers rely on. *)
THEOREM LoopImplementsPromise == Spec => ImplementsPromise
<1>1. Init => Promise!PInit
  BY DEF Init, Promise!PInit, NodeStates, Promise!NodeStates
<1> QED BY <1>1, StepSimulation, Invariance, PTL
        DEF Spec, ImplementsPromise, Promise!PSpec
=============================================================================
