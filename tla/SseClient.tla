------------------------------ MODULE SseClient ------------------------------
(***************************************************************************)
(* SseClient (src/src/sse/client.ts): the subscriptions, the event streams *)
(* that start() opens and the loop that hands an event to its handlers.    *)
(* User code runs between events, and inside a handler it may call back    *)
(* into the client while the loop that called it is not finished.  The     *)
(* EventSource of the eventsource package is external: it connects,        *)
(* reconnects after a loss by itself, gives up after an HTTP error, and    *)
(* delivers nothing once closed.                                           *)
(***************************************************************************)
EXTENDS Integers, FiniteSets

CONSTANTS
  Names,       (* event names                                              *)
  Handlers,    (* event handler functions                                  *)
  Payloads,    (* what the node sends: the names that are keys of the JSON *)
  MaxStreams,  (* bound: calls of start()                                  *)
  StopFirst    (* whether callers call stop() before they start() again    *)

(* A node's event is an object with one key, its name, or something that   *)
(* has none of the names: Shutdown, malformed JSON.                        *)
ASSUME SseAssumption ==
  /\ Payloads \subseteq SUBSET Names
  /\ \A keys \in Payloads : \A m, n \in keys : m = n
  /\ MaxStreams \in Nat
  /\ StopFirst \in BOOLEAN

VARIABLES
  subscribedTo,  (* subscribedTo: the subscriptions                        *)
  eventSource,   (* eventSource: the stream of the last start(), 0 at first *)
  streams,       (* readyState of every EventSource made                   *)
  opened,        (* number of streams made                                 *)
  todo,          (* subscriptions the current loop has still to call       *)
  running,       (* the subscription whose handler runs, if any            *)
  calls,         (* history: handlers called for the current event         *)
  newcomers,     (* history: subscriptions made since the event arrived    *)
  stopped        (* history: stop() was called after the last start()      *)

clientVars == <<subscribedTo, eventSource, streams, opened, stopped>>
loopVars   == <<todo, running, calls>>
vars       == <<clientVars, loopVars, newcomers>>

Subscription == [eventName : Names, eventHandlerFn : Handlers]
StreamIds    == 1..MaxStreams
ReadyStates  == {"unused", "connecting", "open", "closed"}

Init ==
  /\ subscribedTo = {}
  /\ eventSource = 0
  /\ streams = [s \in StreamIds |-> "unused"]
  /\ opened = 0
  /\ todo = {} /\ running = {} /\ calls = 0
  /\ newcomers = {}
  /\ stopped = FALSE

(* The loop is synchronous: other code runs when it is over, or inside the *)
(* handler it has called.                                                  *)
Idle == todo = {} /\ running = {}

UserCode == Idle \/ running # {}
-----------------------------------------------------------------------------
(* Mutant: a subscription is a duplicate only with the same handler.      *)
Subscribe_PerHandler(sub) ==
  /\ UserCode
  /\ sub \notin subscribedTo
  /\ subscribedTo' = subscribedTo \union {sub}
  /\ newcomers' = newcomers \union {sub}
  /\ UNCHANGED <<eventSource, streams, opened, stopped, loopVars>>

(* Returns Err and changes nothing when the event has a subscription. *)
Subscribe(sub) ==
  /\ UserCode
  /\ \A other \in subscribedTo : other.eventName # sub.eventName
  /\ subscribedTo' = subscribedTo \union {sub}
  /\ newcomers' = newcomers \union {sub}
  /\ UNCHANGED <<eventSource, streams, opened, stopped, loopVars>>

(* Returns Err and changes nothing when the event has no subscription.     *)
(* The filter makes a new array: a loop that runs keeps the one it has.    *)
Unsubscribe(name) ==
  /\ UserCode
  /\ \E sub \in subscribedTo : sub.eventName = name
  /\ subscribedTo' = {sub \in subscribedTo : sub.eventName # name}
  /\ UNCHANGED <<eventSource, streams, opened, stopped, newcomers, loopVars>>

(* start(): a new stream replaces eventSource; an earlier one is not closed. *)
Start ==
  /\ UserCode
  /\ opened < MaxStreams
  /\ StopFirst => eventSource = 0 \/ stopped
  /\ opened' = opened + 1
  /\ streams' = [streams EXCEPT ![opened + 1] = "connecting"]
  /\ eventSource' = opened + 1
  /\ stopped' = FALSE
  /\ UNCHANGED <<subscribedTo, newcomers, loopVars>>

(* Mutant: eventSource is forgotten and not closed. *)
Stop_Forgets ==
  /\ UserCode
  /\ eventSource' = 0
  /\ stopped' = TRUE
  /\ UNCHANGED <<subscribedTo, streams, opened, newcomers, loopVars>>

(* stop(): closes the stream of the last start(), when there is one. *)
Stop ==
  /\ UserCode
  /\ eventSource # 0
  /\ streams' = [streams EXCEPT ![eventSource] = "closed"]
  /\ stopped' = TRUE
  /\ UNCHANGED <<subscribedTo, eventSource, opened, newcomers, loopVars>>
-----------------------------------------------------------------------------
(* The external EventSource, and onerror, which tells the user and changes *)
(* nothing.                                                                *)
StreamMoves(s, from, to) ==
  /\ Idle
  /\ streams[s] \in from
  /\ streams' = [streams EXCEPT ![s] = to]
  /\ UNCHANGED <<subscribedTo, eventSource, opened, stopped, newcomers, loopVars>>

StreamConnects(s) == StreamMoves(s, {"connecting"}, "open")
StreamIsLost(s)   == StreamMoves(s, {"open"}, "connecting")
StreamFails(s)    == StreamMoves(s, {"connecting"}, "closed")

(* onmessage: runEventsLoop begins.  forEach visits the subscriptions the  *)
(* array has now, and shouldHandleEvent picks those the payload names.     *)
StreamDelivers(s, keys) ==
  /\ Idle
  /\ streams[s] = "open"
  /\ todo' = {sub \in subscribedTo : sub.eventName \in keys}
  /\ calls' = 0
  /\ newcomers' = {}
  /\ UNCHANGED <<clientVars, running>>

(* forEach calls eventHandlerFn with the parsed RawEvent. *)
HandlerBegins(sub) ==
  /\ running = {}
  /\ sub \in todo
  /\ running' = {sub}
  /\ todo' = todo \ {sub}
  /\ calls' = calls + 1
  /\ UNCHANGED <<clientVars, newcomers>>

(* Mutant: the loop visits what was subscribed meanwhile for the same name. *)
HandlerReturns_Live ==
  /\ running # {}
  /\ running' = {}
  /\ todo' = todo \union {new \in newcomers \intersect subscribedTo :
                            \E sub \in running : new.eventName = sub.eventName}
  /\ UNCHANGED <<clientVars, newcomers, calls>>

HandlerReturns ==
  /\ running # {}
  /\ running' = {}
  /\ UNCHANGED <<clientVars, newcomers, todo, calls>>

(* A throw leaves forEach: the rest of the subscriptions is not visited.   *)
HandlerThrows ==
  /\ running # {}
  /\ running' = {}
  /\ todo' = {}
  /\ UNCHANGED <<clientVars, newcomers, calls>>

User == \/ \E sub \in Subscription : Subscribe(sub)
        \/ \E name \in Names : Unsubscribe(name)
        \/ Start
        \/ Stop

Stream == \E s \in StreamIds : \/ StreamConnects(s)
                               \/ StreamIsLost(s)
                               \/ StreamFails(s)
                               \/ \E keys \in Payloads : StreamDelivers(s, keys)

Loop == \/ \E sub \in todo : HandlerBegins(sub)
        \/ HandlerReturns
        \/ HandlerThrows

Next == User \/ Stream \/ Loop

Spec == Init /\ [][Next]_vars
-----------------------------------------------------------------------------
(* Properties *)

(* The variables keep their types. *)
TypeOK ==
  /\ subscribedTo \in SUBSET Subscription
  /\ eventSource \in 0..MaxStreams /\ opened \in 0..MaxStreams
  /\ streams \in [StreamIds -> ReadyStates]
  /\ todo \in SUBSET Subscription /\ running \in SUBSET Subscription
  /\ calls \in Nat
  /\ newcomers \in SUBSET Subscription
  /\ stopped \in BOOLEAN

(* An event is handed to one handler at most, whatever handlers subscribe  *)
(* and unsubscribe while it is handed out.                                 *)
HandledAtMostOnce == calls <= 1

(* Callers that stop() before they start() again leave no stream behind    *)
(* that stop() cannot reach: a stream that may deliver is eventSource.     *)
OnlyOneStreamLives ==
  StopFirst => \A s \in StreamIds :
                 streams[s] \in {"connecting", "open"} => s = eventSource /\ ~stopped

(* A handler is called only while it is subscribed: after unsubscribe()    *)
(* has returned it is never called again, also for an event on its way.    *)
CalledWhileSubscribed == [][running' \ running \subseteq subscribedTo]_vars

(* A handler that is subscribed while an event is handed out waits for the *)
(* next event, also when it replaces the handler that runs.                *)
NewcomersWait == [][(running' \ running) \intersect newcomers = {}]_vars

(* So whoever is called was subscribed when the event came and still is.   *)
CalledInTurn == CalledWhileSubscribed /\ NewcomersWait

(* "Closes the SSE connection, stopping further event processing" *)
StopEndsProcessing == [][stopped => running' \subseteq running]_vars
=============================================================================
