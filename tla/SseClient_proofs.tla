--------------------------- MODULE SseClient_proofs ---------------------------
(***************************************************************************)
(* Proofs about SseClient, for every set of event names and handlers and   *)
(* every number of streams.                                                *)
(***************************************************************************)
EXTENDS SseClient, TLAPS

OneSubscriptionPerEvent ==
  \A a, b \in subscribedTo : a.eventName = b.eventName => a = b

(* While the loop has a handler to call it has called none, it runs none,  *)
(* and nothing has changed since the event arrived.                        *)
LoopInv ==
  /\ \A a, b \in todo : a = b
  /\ todo # {} => /\ running = {} /\ calls = 0 /\ newcomers = {}
                  /\ todo \subseteq subscribedTo
                  /\ StopFirst => ~stopped
  /\ HandledAtMostOnce

IInv == /\ TypeOK
        /\ OneSubscriptionPerEvent
        /\ LoopInv
        /\ OnlyOneStreamLives
-----------------------------------------------------------------------------
LEMMA InitInv == Init => IInv
<1> SUFFICES ASSUME Init PROVE IInv
  OBVIOUS
<1>1. TypeOK
  <2>1. opened \in 0..MaxStreams /\ eventSource \in 0..MaxStreams /\ calls \in Nat
    BY SseAssumption DEF Init
  <2>2. streams \in [StreamIds -> ReadyStates]
    BY DEF Init, ReadyStates
  <2>3. stopped \in BOOLEAN
    BY Zenon DEF Init
  <2> QED BY <2>1, <2>2, <2>3 DEF Init, TypeOK
<1>2. OneSubscriptionPerEvent /\ LoopInv /\ OnlyOneStreamLives
  BY DEF Init, OneSubscriptionPerEvent, LoopInv, HandledAtMostOnce,
         OnlyOneStreamLives
<1> QED BY <1>1, <1>2 DEF IInv

(* User code runs when the loop has nothing left to call. *)
LEMMA UserCodeBetween == IInv /\ UserCode => todo = {}
BY DEF IInv, LoopInv, UserCode, Idle

LEMMA SubscribeInv ==
  ASSUME IInv, NEW sub \in Subscription, Subscribe(sub)
  PROVE  IInv'
<1> USE DEF Subscribe, loopVars
<1>1. TypeOK'
  BY DEF IInv, TypeOK
<1>2. OneSubscriptionPerEvent'
  BY DEF IInv, OneSubscriptionPerEvent
<1>3. LoopInv'
  BY UserCodeBetween DEF IInv, LoopInv, HandledAtMostOnce
<1>4. OnlyOneStreamLives'
  BY DEF IInv, OnlyOneStreamLives
<1> QED BY <1>1, <1>2, <1>3, <1>4 DEF IInv

LEMMA UnsubscribeInv ==
  ASSUME IInv, NEW name \in Names, Unsubscribe(name)
  PROVE  IInv'
<1> USE DEF Unsubscribe, loopVars
<1>1. TypeOK'
  BY DEF IInv, TypeOK
<1>2. OneSubscriptionPerEvent'
  BY DEF IInv, OneSubscriptionPerEvent
<1>3. LoopInv'
  BY UserCodeBetween DEF IInv, LoopInv, HandledAtMostOnce
<1>4. OnlyOneStreamLives'
  BY DEF IInv, OnlyOneStreamLives
<1> QED BY <1>1, <1>2, <1>3, <1>4 DEF IInv

LEMMA StartInv == IInv /\ Start => IInv'
<1> SUFFICES ASSUME IInv, Start PROVE IInv'
  OBVIOUS
<1> USE DEF Start, loopVars
<1>1. opened + 1 \in StreamIds
  BY SseAssumption DEF IInv, TypeOK, StreamIds
<1>2. TypeOK'
  <2>1. opened' \in 0..MaxStreams /\ eventSource' \in 0..MaxStreams
    BY <1>1 DEF StreamIds
  <2>2. streams' \in [StreamIds -> ReadyStates]
    BY DEF IInv, TypeOK, ReadyStates
  <2>3. stopped' \in BOOLEAN
    BY Zenon
  <2> QED BY <2>1, <2>2, <2>3 DEF IInv, TypeOK
<1>3. OneSubscriptionPerEvent'
  BY DEF IInv, OneSubscriptionPerEvent
<1>4. LoopInv'
  BY UserCodeBetween DEF IInv, LoopInv, HandledAtMostOnce
<1>5. ASSUME StopFirst, NEW s \in StreamIds,
             streams'[s] \in {"connecting", "open"}
      PROVE  s = eventSource' /\ ~stopped'
  <2>1. ~(streams[s] \in {"connecting", "open"})
    BY <1>5 DEF IInv, OnlyOneStreamLives, StreamIds
  <2> QED BY <1>5, <2>1 DEF IInv, TypeOK
<1>6. OnlyOneStreamLives'
  BY <1>5 DEF OnlyOneStreamLives
<1> QED BY <1>2, <1>3, <1>4, <1>6 DEF IInv

LEMMA StopInv == IInv /\ Stop => IInv'
<1> SUFFICES ASSUME IInv, Stop PROVE IInv'
  OBVIOUS
<1> USE DEF Stop, loopVars
<1>1. TypeOK'
  <2>1. streams' \in [StreamIds -> ReadyStates]
    BY DEF IInv, TypeOK, ReadyStates
  <2>2. stopped' \in BOOLEAN
    BY Zenon
  <2> QED BY <2>1, <2>2 DEF IInv, TypeOK
<1>2. OneSubscriptionPerEvent'
  BY DEF IInv, OneSubscriptionPerEvent
<1>3. LoopInv'
  BY UserCodeBetween DEF IInv, LoopInv, HandledAtMostOnce
<1>4. OnlyOneStreamLives'
  BY DEF IInv, TypeOK, OnlyOneStreamLives
<1> QED BY <1>1, <1>2, <1>3, <1>4 DEF IInv

LEMMA StreamMovesInv ==
  ASSUME IInv, NEW s \in StreamIds, NEW from, NEW to \in ReadyStates,
         from \subseteq {"connecting", "open"}, StreamMoves(s, from, to)
  PROVE  IInv'
<1> USE DEF StreamMoves, loopVars
<1>1. TypeOK'
  BY DEF IInv, TypeOK
<1>2. OneSubscriptionPerEvent' /\ LoopInv'
  BY DEF IInv, OneSubscriptionPerEvent, LoopInv, HandledAtMostOnce
<1>3. OnlyOneStreamLives'
  BY DEF IInv, TypeOK, OnlyOneStreamLives
<1> QED BY <1>1, <1>2, <1>3 DEF IInv

LEMMA StreamDeliversInv ==
  ASSUME IInv, NEW s \in StreamIds, NEW keys \in Payloads,
         StreamDelivers(s, keys)
  PROVE  IInv'
<1> USE DEF StreamDelivers, clientVars
<1>1. TypeOK'
  BY DEF IInv, TypeOK
<1>2. OneSubscriptionPerEvent'
  BY DEF IInv, OneSubscriptionPerEvent
<1>3. LoopInv'
  <2>1. \A a, b \in todo' : a = b
    BY SseAssumption DEF IInv, OneSubscriptionPerEvent
  <2>2. StopFirst => ~stopped
    BY DEF IInv, OnlyOneStreamLives
  <2> QED BY <2>1, <2>2 DEF LoopInv, HandledAtMostOnce, Idle
<1>4. OnlyOneStreamLives'
  BY DEF IInv, OnlyOneStreamLives
<1> QED BY <1>1, <1>2, <1>3, <1>4 DEF IInv

LEMMA LoopStepInv == IInv /\ Loop => IInv'
<1> SUFFICES ASSUME IInv, Loop PROVE IInv'
  OBVIOUS
<1> USE DEF clientVars
<1>1. ASSUME NEW sub \in todo, HandlerBegins(sub) PROVE IInv'
  <2> USE <1>1 DEF HandlerBegins
  <2>1. TypeOK'
    BY DEF IInv, TypeOK
  <2>2. LoopInv'
    BY DEF IInv, LoopInv, HandledAtMostOnce
  <2>3. OneSubscriptionPerEvent' /\ OnlyOneStreamLives'
    BY DEF IInv, OneSubscriptionPerEvent, OnlyOneStreamLives
  <2> QED BY <2>1, <2>2, <2>3 DEF IInv
<1>2. CASE HandlerReturns \/ HandlerThrows
  <2> USE <1>2 DEF HandlerReturns, HandlerThrows
  <2>1. TypeOK'
    BY DEF IInv, TypeOK
  <2>2. LoopInv'
    BY DEF IInv, LoopInv, HandledAtMostOnce
  <2>3. OneSubscriptionPerEvent' /\ OnlyOneStreamLives'
    BY DEF IInv, OneSubscriptionPerEvent, OnlyOneStreamLives
  <2> QED BY <2>1, <2>2, <2>3 DEF IInv
<1> QED BY <1>1, <1>2 DEF Loop

LEMMA NextInv == IInv /\ [Next]_vars => IInv'
<1> SUFFICES ASSUME IInv, [Next]_vars PROVE IInv'
  OBVIOUS
<1>1. CASE User
  BY <1>1, SubscribeInv, UnsubscribeInv, StartInv, StopInv DEF User
<1>2. CASE Stream
  BY <1>2, StreamMovesInv, StreamDeliversInv
     DEF Stream, StreamConnects, StreamIsLost, StreamFails, ReadyStates
<1>3. CASE Loop
  BY <1>3, LoopStepInv
<1>4. CASE UNCHANGED vars
  BY <1>4 DEF vars, clientVars, loopVars, IInv, TypeOK, LoopInv,
              OneSubscriptionPerEvent, HandledAtMostOnce, OnlyOneStreamLives
<1> QED BY <1>1, <1>2, <1>3, <1>4 DEF Next
-----------------------------------------------------------------------------
THEOREM Invariance == Spec => []IInv
BY InitInv, NextInv, PTL DEF Spec

(* Every variable of the client keeps its type. *)
THEOREM TypeCorrect == Spec => []TypeOK
<1>1. IInv => TypeOK
  BY DEF IInv
<1> QED BY <1>1, Invariance, PTL

(* runEventsLoop hands an event to one handler at most. *)
THEOREM AtMostOneHandler == Spec => []HandledAtMostOnce
<1>1. IInv => HandledAtMostOnce
  BY DEF IInv, LoopInv
<1> QED BY <1>1, Invariance, PTL

(* With callers that stop() first, start() leaves no stream behind. *)
THEOREM NoStreamLeaks == Spec => []OnlyOneStreamLives
<1>1. IInv => OnlyOneStreamLives
  BY DEF IInv
<1> QED BY <1>1, Invariance, PTL

(* The only step that lets a handler run is one of the loop's. *)
LEMMA OnlyHandlerBegins ==
  ASSUME IInv, [Next]_vars, ~(running' \subseteq running)
  PROVE  /\ todo # {} /\ running = {} /\ running' \subseteq todo
         /\ UNCHANGED <<clientVars, newcomers>>
BY DEF Next, User, Stream, Loop, Subscribe, Unsubscribe, Start, Stop, StreamMoves,
       StreamConnects, StreamIsLost, StreamFails, StreamDelivers, HandlerBegins,
       HandlerReturns, HandlerThrows, vars, loopVars

(* No handler is called after unsubscribe() has removed it. *)
THEOREM UnsubscribeIsFinal == Spec => CalledWhileSubscribed
<1>1. IInv /\ [Next]_vars => [running' \ running \subseteq subscribedTo]_vars
  BY OnlyHandlerBegins DEF IInv, LoopInv
<1> QED BY <1>1, Invariance, PTL DEF Spec, CalledWhileSubscribed

(* No handler is called for an event that arrived before subscribe(). *)
THEOREM SubscribeWaits == Spec => NewcomersWait
<1>1. IInv /\ [Next]_vars
        => [(running' \ running) \intersect newcomers = {}]_vars
  BY OnlyHandlerBegins DEF IInv, LoopInv
<1> QED BY <1>1, Invariance, PTL DEF Spec, NewcomersWait

(* Whoever is called was subscribed when the event came and still is. *)
THEOREM CalledInTheirTurn == Spec => CalledInTurn
<1> QED BY UnsubscribeIsFinal, SubscribeWaits DEF CalledInTurn

(* With callers that stop() before they start() again, no handler is       *)
(* called between stop() and the next start().                             *)
THEOREM StopIsEffective ==
  ASSUME StopFirst
  PROVE  Spec => StopEndsProcessing
<1>1. IInv /\ [Next]_vars => [stopped => running' \subseteq running]_vars
  BY OnlyHandlerBegins DEF IInv, LoopInv
<1> QED BY <1>1, Invariance, PTL DEF Spec, StopEndsProcessing
=============================================================================
