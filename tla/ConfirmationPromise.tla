------------------------- MODULE ConfirmationPromise -------------------------
(***************************************************************************)
(* What a caller of RpcClient.waitForTransaction or RpcClient.waitForDeploy *)
(* is promised, without saying how it is obtained: one promise that        *)
(* settles once, resolves only for a transaction the node has executed,    *)
(* rejects with 'Timeout' no sooner than the timeout and is not left       *)
(* pending beyond Latest.  WaitForConfirmation implements it by polling.   *)
(***************************************************************************)
EXTENDS Integers

CONSTANTS
  Timeout,    (* the timeout the caller passed, in clock units            *)
  Latest,     (* by when the promise has settled, in clock units          *)
  Horizon     (* bound of the clock                                       *)

VARIABLES
  now,        (* time since the call                                      *)
  node,       (* what the network has done with the transaction           *)
  outcome,    (* of the promise                                           *)
  settledAt   (* when it settled; 0 while it is pending                   *)

promiseVars == <<now, node, outcome, settledAt>>

NodeStates == {"unknown", "accepted", "executed"}
Reasons    == {"confirmed", "timeout", "failed"}

PInit ==
  /\ now = 0
  /\ node \in NodeStates
  /\ outcome = "pending"
  /\ settledAt = 0

(* The network moves on by itself and never undoes an execution. *)
PNode ==
  /\ \/ node = "unknown"  /\ node' = "accepted"
     \/ node = "accepted" /\ node' = "executed"
  /\ UNCHANGED <<now, outcome, settledAt>>

PTick ==
  /\ now < Horizon
  /\ outcome = "pending" => now < Latest
  /\ now' = now + 1
  /\ UNCHANGED <<node, outcome, settledAt>>

PSettle(reason) ==
  /\ outcome = "pending"
  /\ reason = "confirmed" => node = "executed"
  /\ reason = "timeout" => now >= Timeout
  /\ outcome' = reason
  /\ settledAt' = now
  /\ UNCHANGED <<now, node>>

PNext == PNode \/ PTick \/ \E reason \in Reasons : PSettle(reason)

PSpec == PInit /\ [][PNext]_promiseVars
=============================================================================
