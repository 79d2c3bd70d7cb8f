------------------------- MODULE WaitForConfirmation -------------------------
(***************************************************************************)
(* RpcClient.waitForConfirmation (src/src/rpc/rpc_client.ts), the polling  *)
(* loop behind waitForTransaction and waitForDeploy.  One wait is modelled *)
(* with its promise race, its two kinds of JavaScript timer (the deadline  *)
(* of a race and the sleep between polls), the requests it has in flight   *)
(* and the node that answers them.  A request that loses the race against  *)
(* the deadline stays in flight.  Time is discrete; Lag is how late the    *)
(* event loop may run a timer that is due.                                 *)
(***************************************************************************)
EXTENDS Integers

CONSTANTS
  Timeout,     (* timeout, the caller's argument                           *)
  PollDelay,   (* sleep after a poll without an execution result (400 ms)  *)
  RetryDelay,  (* retryDelay, sleep after a failed poll (500 ms)           *)
  MaxRetries,  (* maxRetries, failed polls that are forgiven (3)           *)
  Lag,         (* how long a due timer may wait for the event loop         *)
  Horizon,     (* bound of the clock                                       *)
  GetInfo,     (* the poll: "getDeploy" or "getTransactionByTransactionHash" *)
  Origin,      (* of the awaited transaction: "Deploy" or "TransactionV1"  *)
  NodeApi      (* major version of the node's API: 1 or 2                  *)

NoTimer == -1

ASSUME WaitAssumption ==
  /\ Timeout \in Nat /\ MaxRetries \in Nat /\ Lag \in Nat /\ Horizon \in Nat
  /\ PollDelay \in Nat \ {0} /\ RetryDelay \in Nat \ {0}
  /\ GetInfo \in {"getDeploy", "getTransactionByTransactionHash"}
  /\ Origin \in {"Deploy", "TransactionV1"}
  /\ NodeApi \in {1, 2}
  /\ GetInfo = "getDeploy" => Origin = "Deploy"
  /\ NodeApi = 1 => Origin = "Deploy"

VARIABLES
  now,         (* Date.now() minus the time of the call                    *)
  node,        (* what the network has done with the transaction           *)
  pc,          (* where the loop awaits: "polling", "sleeping", "settled"  *)
  attempts,    (* attempts                                                 *)
  timer,       (* when the timer of beforeDeadline is due, or NoTimer      *)
  wake,        (* when the pending sleep is due, or NoTimer                *)
  inflight,    (* the requests without an answer: what each has read       *)
  issued,      (* number of requests made so far                           *)
  outcome,     (* of the returned promise                                  *)
  settledAt,   (* when it settled                                          *)
  failures,    (* history: polls that failed                               *)
  shown        (* history: an answer has carried an execution result       *)

loopVars    == <<pc, attempts, timer, wake, issued, outcome, settledAt>>
historyVars == <<failures, shown>>
vars        == <<now, node, inflight, loopVars, historyVars>>

NodeStates == {"unknown", "accepted", "executed"}
Outcomes   == {"pending", "confirmed", "timeout", "failed"}

Call(id, seen) == [id |-> id, seen |-> seen]

(* Mutants of the definitions are marked so and used by no specification. *)

(* Mutant: a deadline per poll. *)
TimerDue_PerPoll(t) == t + Timeout

(* The delay passed to setTimeout is Max(0, deadline - Date.now()). *)
TimerDue(t) == IF t < Timeout THEN Timeout ELSE t
-----------------------------------------------------------------------------
(***************************************************************************)
(* What the poll makes of the state the node read, when nothing fails on   *)
(* the way.  getDeploy knows deploys only and finds the results of an API  *)
(* 1 node in execution_results, which is not the executionInfo that the    *)
(* loop looks at.  getTransactionByTransactionHash asks for a Version1     *)
(* hash: a deploy has none, and an API 1 node lacks the method.            *)
(***************************************************************************)
KnownToNode(seen) ==
  /\ seen # "unknown"
  /\ GetInfo = "getTransactionByTransactionHash" => /\ NodeApi = 2
                                                    /\ Origin = "TransactionV1"

(* Mutant: any info confirms. *)
HasExecutionInfo_Any(seen) == NodeApi = 2

HasExecutionInfo(seen) == seen = "executed" /\ NodeApi = 2

Init ==
  /\ now = 0
  /\ node \in NodeStates
  /\ pc = "polling"
  /\ attempts = 0
  /\ timer = TimerDue(0)
  /\ wake = NoTimer
  /\ issued = 1
  /\ inflight = {Call(1, "nothing")}
  /\ outcome = "pending"
  /\ settledAt = 0
  /\ failures = 0
  /\ shown = FALSE

-----------------------------------------------------------------------------
(* The network executes the transaction, at its own pace or never. *)
NodeAdvances ==
  /\ \/ node = "unknown"  /\ node' = "accepted"
     \/ node = "accepted" /\ node' = "executed"
  /\ UNCHANGED <<now, inflight, loopVars, historyVars>>

(* The node serves a request: the answer says what it read at this moment. *)
NodeServes(c) ==
  /\ c.seen = "nothing"
  /\ inflight' = (inflight \ {c}) \union {Call(c.id, node)}
  /\ UNCHANGED <<now, node, loopVars, historyVars>>

Settle(reason) ==
  /\ pc' = "settled"
  /\ outcome' = reason
  /\ settledAt' = now
  /\ timer' = NoTimer
  /\ wake' = NoTimer
  /\ UNCHANGED issued

(* Mutant: the loop does not look at the clock before it sleeps. *)
SleepOrTimeOut_NoClock(delay) ==
  /\ pc' = "sleeping"
  /\ timer' = NoTimer
  /\ wake' = now + delay
  /\ UNCHANGED <<issued, outcome, settledAt>>

(* timedOut() before the sleep; the finally of beforeDeadline has cleared  *)
(* its timer by then.                                                      *)
SleepOrTimeOut(delay) ==
  \/ now >= Timeout /\ Settle("timeout")
  \/ /\ now < Timeout
     /\ pc' = "sleeping"
     /\ timer' = NoTimer
     /\ wake' = now + delay
     /\ UNCHANGED <<issued, outcome, settledAt>>

Awaited(c) == pc = "polling" /\ c.id = issued

(* Mutant: the clock is looked at before the result. *)
PollConfirms_ClockFirst(c) ==
  /\ Awaited(c)
  /\ c.seen # "nothing" /\ KnownToNode(c.seen) /\ HasExecutionInfo(c.seen)
  /\ inflight' = inflight \ {c}
  /\ shown' = (shown \/ c.seen = "executed")
  /\ Settle(IF now >= Timeout THEN "timeout" ELSE "confirmed")
  /\ UNCHANGED <<now, node, attempts, failures>>

(* The poll returns info with an executionResult. *)
PollConfirms(c) ==
  /\ Awaited(c)
  /\ c.seen # "nothing" /\ KnownToNode(c.seen) /\ HasExecutionInfo(c.seen)
  /\ inflight' = inflight \ {c}
  /\ shown' = (shown \/ c.seen = "executed")
  /\ Settle("confirmed")
  /\ UNCHANGED <<now, node, attempts, failures>>

(* Mutant: a poll that succeeds resets the attempts. *)
PollFindsNothing_Resets(c) ==
  /\ Awaited(c)
  /\ c.seen # "nothing" /\ KnownToNode(c.seen) /\ ~HasExecutionInfo(c.seen)
  /\ inflight' = inflight \ {c}
  /\ shown' = (shown \/ c.seen = "executed")
  /\ attempts' = 0
  /\ SleepOrTimeOut(PollDelay)
  /\ UNCHANGED <<now, node, failures>>

(* The poll returns info without an executionResult. *)
PollFindsNothing(c) ==
  /\ Awaited(c)
  /\ c.seen # "nothing" /\ KnownToNode(c.seen) /\ ~HasExecutionInfo(c.seen)
  /\ inflight' = inflight \ {c}
  /\ shown' = (shown \/ c.seen = "executed")
  /\ SleepOrTimeOut(PollDelay)
  /\ UNCHANGED <<now, node, attempts, failures>>

(* retries and attempts: what the loop does with a poll that threw. *)
RetryOrGiveUp ==
  \/ attempts >= MaxRetries /\ Settle("failed") /\ UNCHANGED attempts
  \/ /\ attempts < MaxRetries
     /\ attempts' = attempts + 1
     /\ SleepOrTimeOut(RetryDelay)

(* The poll throws because the node answers with an error: it does not     *)
(* know the hash that was asked for, or the method.                        *)
NodeRejects(c) ==
  /\ Awaited(c)
  /\ c.seen # "nothing" /\ ~KnownToNode(c.seen)
  /\ inflight' = inflight \ {c}
  /\ failures' = failures + 1
  /\ RetryOrGiveUp
  /\ UNCHANGED <<now, node, shown>>

(* The poll throws because the transport fails or the body does not parse. *)
TransportFails(c) ==
  /\ Awaited(c)
  /\ inflight' = inflight \ {c}
  /\ failures' = failures + 1
  /\ RetryOrGiveUp
  /\ UNCHANGED <<now, node, shown>>

(* A request that lost its race is answered, or fails: nobody listens. *)
LateAnswer(c) ==
  /\ ~Awaited(c)
  /\ inflight' = inflight \ {c}
  /\ UNCHANGED <<now, node, loopVars, historyVars>>

(* Mutants: the deadline's rejection is retried like any other; it settles *)
(* the promise while the loop goes on behind it.                           *)
DeadlineFires_Retried ==
  /\ timer # NoTimer /\ now >= timer
  /\ pc' = "sleeping"
  /\ timer' = NoTimer
  /\ wake' = now + RetryDelay
  /\ UNCHANGED <<now, node, attempts, inflight, issued, outcome, settledAt,
                 historyVars>>

DeadlineFires_LoopGoesOn ==
  /\ timer # NoTimer /\ now >= timer
  /\ outcome' = "timeout"
  /\ settledAt' = now
  /\ timer' = NoTimer
  /\ UNCHANGED <<now, node, pc, attempts, wake, inflight, issued, historyVars>>

(* deadlinePassed wins the race and the loop rethrows expired. *)
DeadlineFires ==
  /\ timer # NoTimer /\ now >= timer
  /\ Settle("timeout")
  /\ UNCHANGED <<now, node, attempts, inflight, historyVars>>

(* Mutant: only the first poll races against the deadline. *)
Wake_NoDeadline ==
  /\ wake # NoTimer /\ now >= wake
  /\ pc' = "polling"
  /\ wake' = NoTimer
  /\ issued' = issued + 1
  /\ inflight' = inflight \union {Call(issued + 1, "nothing")}
  /\ UNCHANGED <<now, node, attempts, timer, outcome, settledAt, historyVars>>

(* The sleep ends and the loop polls again, under a new deadline timer. *)
Wake ==
  /\ wake # NoTimer /\ now >= wake
  /\ pc' = "polling"
  /\ wake' = NoTimer
  /\ timer' = TimerDue(now)
  /\ issued' = issued + 1
  /\ inflight' = inflight \union {Call(issued + 1, "nothing")}
  /\ UNCHANGED <<now, node, attempts, outcome, settledAt, historyVars>>

(* Time passes, but no timer that is due waits longer than Lag. *)
Tick ==
  /\ now < Horizon
  /\ timer # NoTimer => now < timer + Lag
  /\ wake # NoTimer => now < wake + Lag
  /\ now' = now + 1
  /\ UNCHANGED <<node, inflight, loopVars, historyVars>>

Network == \/ NodeAdvances
           \/ \E c \in inflight : NodeServes(c)

Answer == \E c \in inflight : \/ PollConfirms(c)
                              \/ PollFindsNothing(c)
                              \/ NodeRejects(c)
                              \/ TransportFails(c)
                              \/ LateAnswer(c)

Next == Network \/ Answer \/ DeadlineFires \/ Wake \/ Tick

(* Time passes and the event loop runs what is due.  The node owes nothing: *)
(* it may never answer.                                                    *)
Fairness == WF_vars(Tick) /\ WF_vars(DeadlineFires) /\ WF_vars(Wake)

Spec     == Init /\ [][Next]_vars
FairSpec == Spec /\ Fairness
-----------------------------------------------------------------------------
(* Properties *)

Calls == [id : Nat, seen : NodeStates \union {"nothing"}]

(* The variables keep their types. *)
TypeOK ==
  /\ now \in Nat /\ settledAt \in Nat /\ issued \in Nat
  /\ attempts \in 0..MaxRetries
  /\ failures \in Nat
  /\ shown \in BOOLEAN
  /\ node \in NodeStates
  /\ pc \in {"polling", "sleeping", "settled"}
  /\ outcome \in Outcomes
  /\ timer \in Nat \union {NoTimer}
  /\ wake \in Nat \union {NoTimer}
  /\ inflight \in SUBSET Calls

(* The promise resolves only for a transaction that the node has executed, *)
(* whatever answers were late, stale or lost on the way.                   *)
ResolvesOnlyWhenExecuted == outcome = "confirmed" => node = "executed"

(* The retry budget: the promise is rejected as failed at the failed poll  *)
(* number MaxRetries + 1 and at no other, over the whole wait.             *)
RetryBudget ==
  /\ failures <= MaxRetries + 1
  /\ outcome = "failed" <=> failures = MaxRetries + 1

(* A 'Timeout' rejection never comes before the timeout has elapsed. *)
NoEarlyTimeout == outcome = "timeout" => settledAt >= Timeout

(* The loop looks at the clock before it sleeps and arms a timer for every *)
(* poll, so the promise is never pending for longer than one sleep and the *)
(* event loop's delays beyond the timeout.                                 *)
LongerDelay == IF PollDelay < RetryDelay THEN RetryDelay ELSE PollDelay
Latest      == Timeout + LongerDelay - 1 + 2 * Lag

SettledByLatest == /\ outcome = "pending" => now <= Latest
                   /\ settledAt <= Latest

(* The promise keeps to its timeout, from both sides.                      *)
KeepsTimeout == NoEarlyTimeout /\ SettledByLatest

(* beforeDeadline clears its timer however the race ends: a promise that   *)
(* has settled keeps no timer alive, a pending one exactly one.            *)
TimersReleased ==
  /\ timer # NoTimer <=> pc = "polling"
  /\ wake # NoTimer <=> pc = "sleeping"
  /\ pc = "settled" <=> outcome # "pending"

(* Polls never overlap: a request in flight is the latest one made, also   *)
(* when it has lost its race and nobody awaits it.                         *)
OneRequestAtATime == \A c \in inflight : c.id = issued

(* A wait, however long, holds one timer and one request at most, and no   *)
(* timer once it is over.                                                  *)
NothingPilesUp == TimersReleased /\ OneRequestAtATime

(* Once an answer has carried an execution result, that is what the        *)
(* promise settled with: no confirmation is read and then missed.          *)
ExecutionNotMissed == shown => outcome = "confirmed"

(* A promise that has settled is final, and the loop behind it has ended:  *)
(* it makes no more requests.                                              *)
SilentOnceSettled ==
  [][outcome # "pending" => UNCHANGED <<outcome, settledAt, issued>>]_vars

(* The promise settles even if the node never answers. *)
Settles == <>(outcome # "pending")

(* The loop implements the promise its callers rely on. *)
Promise == INSTANCE ConfirmationPromise
ImplementsPromise == Promise!PSpec

(* What the documentation says and the code does otherwise. *)

(* "Polls the node until a legacy deploy is confirmed on-chain (i.e., has  *)
(* an execution result)": a wait whose poll returned one does not time out. *)
LegacyResultConfirms == shown => outcome # "timeout"
=============================================================================
