------------------------- MODULE CasperNetwork_proofs -------------------------
(***************************************************************************)
(* Proofs about CasperNetwork.  The invariant says that a session which    *)
(* found the version itself knows no more than the node can do, that every *)
(* request was chosen for the session's version, and what the kinds of the *)
(* transactions say of the answers that are still to come.                 *)
(***************************************************************************)
EXTENDS CasperNetwork, TLAPS

(* What the session knows of the version is true or was true before. *)
SessionInv ==
  /\ ~given => apiVersion <= nodeApi
  /\ status = "2.x" => nodeApi = 2
  /\ status # "no" => apiVersion = 0
  /\ created # {} \/ submitted # {} => apiVersion # 0
  /\ \A t \in created : kind[t] = KindFor(apiVersion)

(* A call is made on a session, by the methods of its version, and what is *)
(* refused is refused by a version that was given, or at once.             *)
MethodInv ==
  \A c \in Callers :
    /\ call[c].outcome = "pending" =>
         apiVersion # 0 /\ call[c].method \in Served(apiVersion)
    /\ call[c].answer = "method not found" => given
    /\ call[c].outcome = "refused" =>
         \/ given
         \/ call[c].op = "put" /\ kind[call[c].tx] # "Deploy" /\ apiVersion = 1

(* What a put can have left with the node. *)
SubmitInv ==
  /\ \A t \in known : Acceptable(t)
  /\ submitted \subseteq known
  /\ \A t \in submitted : apiVersion # 2 => kind[t] = "Deploy"
  /\ \A c \in Callers :
       call[c].outcome = "pending" /\ call[c].op = "put" =>
         /\ \/ call[c].method = "account_put_transaction" /\ apiVersion = 2
            \/ kind[call[c].tx] = "Deploy"
         /\ call[c].answer = "ok" => call[c].tx \in known

(* The lookups that have to succeed: by a hash that fits, of a transaction *)
(* that the session had submitted, or that the node knew and the session's *)
(* version has methods for.                                                *)
Sure(c) == /\ call[c].op = "get" /\ Fits(c)
           /\ call[c].own \/ (call[c].knew /\ (kind[call[c].tx] = "Deploy" \/ apiVersion = 2))

LookupInv ==
  \A c \in Callers : Sure(c) =>
    /\ call[c].tx \in known
    /\ call[c].method \in Lookups
    /\ call[c].method = "info_get_transaction by Version1" => call[c].form # "Deploy"
    /\ call[c].method # "info_get_transaction by Version1" =>
         kind[call[c].tx] = "Deploy"
    /\ call[c].answer = "no such transaction" =>
         call[c].form = "Hash" /\ kind[call[c].tx] = "Deploy"
         /\ call[c].method = "info_get_transaction by Version1"
    /\ call[c].outcome # "not found"

(* Lookups are made on a session that has its version.                     *)
AskedInv == \A c \in Callers : call[c].op = "get" => apiVersion # 0

IInv == TypeOK /\ SessionInv /\ AskedInv /\ MethodInv /\ SubmitInv /\ LookupInv
-----------------------------------------------------------------------------
(* A call that begins is a call. *)
LEMMA BeginType ==
  ASSUME TypeOK, NEW c \in Callers, NEW op \in {"put", "get", "balance"},
         NEW t \in Transactions, NEW form \in Forms, NEW method \in Api2Methods,
         NEW outcome \in Outcomes, Begin(c, op, t, form, method, outcome)
  PROVE  call' \in [Callers -> Call]
BY DEF TypeOK, Begin, Call, Answers

(* Every step of a call leaves a call. *)
LEMMA CallsType ==
  ASSUME TypeOK, NEW c \in Callers, Calls(c)
  PROVE  TypeOK'
<1>a. call[c] \in Call
  BY DEF TypeOK
<1>b. call[c].tx \in Transactions /\ call[c].answer \in Answers
  BY <1>a DEF Call
<1>1. ASSUME NEW t \in Transactions, PutTransaction(c, t) PROVE TypeOK'
  <2>1. call' \in [Callers -> Call]
    BY <1>1, BeginType DEF PutTransaction, Forms, Api1Methods, Api2Methods, Outcomes
  <2> QED BY <1>1, <2>1 DEF PutTransaction, Begin, TypeOK, nodeVars, sessionVars, history
<1>2. ASSUME NEW t \in Transactions, NEW form \in Forms, GetTransaction(c, t, form)
      PROVE  TypeOK'
  <2>1. FirstLookup(form) \in Api2Methods
    BY DEF FirstLookup, Api1Methods, Api2Methods
  <2>2. call' \in [Callers -> Call]
    BY <1>2, <2>1, BeginType DEF GetTransaction, Outcomes
  <2> QED BY <1>2, <2>2 DEF GetTransaction, Begin, TypeOK, nodeVars, sessionVars, history
<1>3. CASE QueryLatestBalance(c)
  <2>1. call' \in [Callers -> Call]
    BY <1>3, <1>b, BeginType
    DEF QueryLatestBalance, Forms, Api1Methods, Api2Methods, Outcomes
  <2> QED BY <1>3, <2>1 DEF QueryLatestBalance, Begin, TypeOK, nodeVars, sessionVars, history
<1>4. CASE NodeServes(c)
  <2>1. PICK a \in Answers : call' = [call EXCEPT ![c].answer = a]
    BY <1>4, Zenon DEF NodeServes, Answers
  <2>2. call' \in [Callers -> Call]
    BY <2>1 DEF TypeOK, Call
  <2> QED BY <1>4, <1>b, <2>2 DEF NodeServes, TypeOK, sessionVars, history
<1>5. CASE TransportFails(c)
  <2>1. PICK a \in Answers : call' = [call EXCEPT ![c].answer = a]
    BY <1>5, Zenon DEF TransportFails, Answers
  <2>2. call' \in [Callers -> Call]
    BY <2>1 DEF TypeOK, Call
  <2> QED BY <1>5, <2>2 DEF TransportFails, TypeOK, nodeVars, sessionVars, history
<1>6. CASE GetFallsBack(c) \/ BalanceAtRoot(c)
  <2>1. \A m \in {"info_get_transaction by Deploy", "state_get_balance"} :
          m \in Api2Methods
    BY DEF Api1Methods, Api2Methods
  <2>2. "none" \in Answers
    BY DEF Answers
  <2>3. PICK m \in Api2Methods, a \in Answers :
          call' = [call EXCEPT ![c].method = m, ![c].answer = a]
    BY <1>6, <2>1, <2>2, Zenon DEF GetFallsBack, BalanceAtRoot
  <2>4. [call[c] EXCEPT !.method = m, !.answer = a] \in Call
    BY <1>a, <2>3 DEF Call
  <2>5. call' = [call EXCEPT ![c] = [call[c] EXCEPT !.method = m, !.answer = a]]
    BY <2>3 DEF TypeOK
  <2>6. call' \in [Callers -> Call]
    BY <2>4, <2>5 DEF TypeOK
  <2> QED BY <1>6, <2>6 DEF GetFallsBack, BalanceAtRoot, TypeOK,
                            nodeVars, sessionVars, history
<1>7. CASE CallEnds(c)
  <2>1. PICK o \in Outcomes : call' = [call EXCEPT ![c].outcome = o]
    BY <1>7, Zenon DEF CallEnds, Settled, Outcomes
  <2>2. call' \in [Callers -> Call]
    BY <2>1 DEF TypeOK, Call
  <2> QED BY <1>7, <1>b, <2>2 DEF CallEnds, TypeOK, nodeVars, sessionVars
<1> QED BY <1>1, <1>2, <1>3, <1>4, <1>5, <1>6, <1>7 DEF Calls

(* The variables have their types at the start. *)
LEMMA InitType ==
  ASSUME Init
  PROVE  TypeOK
<1>1. ASSUME NEW t \in Transactions
      PROVE  [op |-> "none", tx |-> t, form |-> "Hash",
              method |-> "info_get_deploy", answer |-> "none",
              outcome |-> "failed", knew |-> FALSE, own |-> FALSE] \in Call
  BY DEF Call, Forms, Answers, Outcomes, Api1Methods, Api2Methods
<1>2. call \in [Callers -> Call]
  BY <1>1 DEF Init
<1> QED BY <1>2 DEF Init, TypeOK

(* Every step keeps them. *)
LEMMA NextType ==
  ASSUME TypeOK, [Next]_vars
  PROVE  TypeOK'
<1>1. CASE Create
  BY <1>1, NetworkAssumption
  DEF Create, CreateGiven, CreateAsks, StatusServed, StatusFails, CreateResolves,
      TypeOK, nodeVars, history
<1>2. ASSUME NEW t \in Transactions, CreateTransaction(t) PROVE TypeOK'
  BY <1>2 DEF CreateTransaction, TypeOK, nodeVars, sessionVars
<1>3. CASE Network
  BY <1>3 DEF Network, Upgrade, NetworkLearns, TypeOK, sessionVars, history
<1>4. ASSUME NEW c \in Callers, Calls(c) PROVE TypeOK'
  BY <1>4, CallsType
<1>5. CASE UNCHANGED vars
  BY <1>5 DEF vars, nodeVars, sessionVars, history, TypeOK
<1> QED BY <1>1, <1>2, <1>3, <1>4, <1>5 DEF Next

(* Type correctness: the session's version is 1 or 2 from the moment it    *)
(* exists, and calls stay among the methods and the outcomes of the code.  *)
THEOREM TypeCorrect == Spec => []TypeOK
<1>1. Init => TypeOK
  BY InitType
<1>2. TypeOK /\ [Next]_vars => TypeOK'
  BY NextType
<1> QED BY <1>1, <1>2, PTL DEF Spec
-----------------------------------------------------------------------------
(* The steps of a call leave the session alone and forget nothing.         *)
LEMMA CallsFrame ==
  ASSUME TypeOK, NEW c \in Callers, Calls(c)
  PROVE  /\ UNCHANGED <<nodeApi, kind, apiVersion, status, given, created>>
         /\ known \subseteq known' /\ submitted \subseteq submitted'
         /\ \A d \in Callers \ {c} : call'[d] = call[d]
<1>1. UNCHANGED <<nodeApi, kind, apiVersion, status, given, created>>
  BY DEF Calls, PutTransaction, GetTransaction, QueryLatestBalance, Begin, NodeServes,
         TransportFails, GetFallsBack, BalanceAtRoot, CallEnds,
         nodeVars, sessionVars, history
<1>2. known \subseteq known' /\ submitted \subseteq submitted'
  BY DEF Calls, PutTransaction, GetTransaction, QueryLatestBalance, Begin, NodeServes,
         TransportFails, GetFallsBack, BalanceAtRoot, CallEnds,
         nodeVars, sessionVars, history
<1>3. \A d \in Callers \ {c} : call'[d] = call[d]
  BY DEF Calls, PutTransaction, GetTransaction, QueryLatestBalance, Begin, NodeServes,
         TransportFails, GetFallsBack, BalanceAtRoot, CallEnds, TypeOK
<1> QED BY <1>1, <1>2, <1>3

(* The steps of create: the version changes only where there was none.     *)
LEMMA CreateFrame ==
  ASSUME TypeOK, Create
  PROVE  /\ UNCHANGED <<nodeApi, known, kind, call, created, submitted>>
         /\ apiVersion' = apiVersion \/ status # "no" \/ apiVersion = 0
         /\ given => given'
BY DEF Create, CreateGiven, CreateAsks, StatusServed, StatusFails, CreateResolves,
       TypeOK, nodeVars, history

(* What the session knows of the version stays true.                       *)
LEMMA SessionStep ==
  ASSUME TypeOK, SessionInv, SubmitInv, MethodInv, [Next]_vars
  PROVE  SessionInv'
<1>1. CASE CreateResolves
  BY <1>1 DEF CreateResolves, SessionInv, TypeOK, nodeVars, history
<1>2. CASE \E version \in GivenVersions : CreateGiven(version)
  BY <1>2 DEF CreateGiven, SessionInv, TypeOK, nodeVars, history
<1>3. CASE CreateAsks \/ StatusServed \/ StatusFails
  BY <1>3 DEF CreateAsks, StatusServed, StatusFails, SessionInv, TypeOK, nodeVars,
              history
<1>4. ASSUME NEW t \in Transactions, CreateTransaction(t) PROVE SessionInv'
  BY <1>4 DEF CreateTransaction, SessionInv, TypeOK, nodeVars, sessionVars
<1>5. CASE Network
  BY <1>5 DEF Network, Upgrade, NetworkLearns, SessionInv, TypeOK, sessionVars, history
<1>6. ASSUME NEW c \in Callers, Calls(c) PROVE SessionInv'
  <2>1. UNCHANGED <<nodeApi, kind, apiVersion, status, given, created>>
    BY <1>6, CallsFrame
  <2>2. submitted' # {} => apiVersion # 0
    BY <1>6
    DEF Calls, PutTransaction, GetTransaction, QueryLatestBalance, Begin, NodeServes,
        TransportFails, GetFallsBack, BalanceAtRoot, CallEnds, SessionInv, MethodInv,
        nodeVars, sessionVars, history
  <2> QED BY <2>1, <2>2 DEF SessionInv
<1>7. CASE UNCHANGED vars
  BY <1>7 DEF vars, nodeVars, sessionVars, history, SessionInv
<1> QED BY <1>1, <1>2, <1>3, <1>4, <1>5, <1>6, <1>7 DEF Next, Create

(* A call that goes on is still the same call. *)
Progress(c) == NodeServes(c) \/ TransportFails(c) \/ GetFallsBack(c)
               \/ BalanceAtRoot(c) \/ CallEnds(c)

LEMMA ProgressCall ==
  ASSUME TypeOK, NEW c \in Callers, Progress(c)
  PROVE  /\ call[c].outcome = "pending"
         /\ call'[c].op = call[c].op /\ call'[c].tx = call[c].tx
         /\ call'[c].form = call[c].form
         /\ call'[c].own = call[c].own /\ call'[c].knew = call[c].knew
<1>a. call[c] \in Call
  BY DEF TypeOK
<1>1. CASE NodeServes(c)
  BY <1>a, <1>1 DEF NodeServes, TypeOK, Call
<1>2. CASE TransportFails(c)
  BY <1>a, <1>2 DEF TransportFails, TypeOK, Call
<1>3. CASE GetFallsBack(c)
  BY <1>a, <1>3 DEF GetFallsBack, TypeOK, Call
<1>4. CASE BalanceAtRoot(c)
  BY <1>a, <1>4 DEF BalanceAtRoot, TypeOK, Call
<1>5. CASE CallEnds(c)
  BY <1>a, <1>5 DEF CallEnds, TypeOK, Call
<1> QED BY <1>1, <1>2, <1>3, <1>4, <1>5 DEF Progress

(* Requests go by the methods of the session's version.                    *)
LEMMA MethodStep ==
  ASSUME TypeOK, SessionInv, MethodInv, [Next]_vars
  PROVE  MethodInv'
<1> DEFINE Ok(d) ==
      /\ call[d].outcome = "pending" =>
           apiVersion # 0 /\ call[d].method \in Served(apiVersion)
      /\ call[d].answer = "method not found" => given
      /\ call[d].outcome = "refused" =>
           \/ given
           \/ call[d].op = "put" /\ kind[call[d].tx] # "Deploy" /\ apiVersion = 1
<1>a. \A d \in Callers : Ok(d)
  BY DEF MethodInv
<1>b. SUFFICES \A d \in Callers : Ok(d)'
  BY DEF MethodInv
<1> HIDE DEF Ok
<1>1. CASE Create
  <2>1. UNCHANGED <<kind, call>> /\ (given => given')
    BY <1>1, CreateFrame
  <2>2. apiVersion # 0 => apiVersion' = apiVersion
    BY <1>1, CreateFrame DEF SessionInv
  <2>3. CASE apiVersion' = apiVersion
    BY <1>a, <2>1, <2>3, Zenon DEF Ok
  <2>4. CASE apiVersion = 0
    <3>0. ~(apiVersion # 0) /\ ~(apiVersion = 1)
      BY <2>4
    <3>1. ASSUME NEW d \in Callers
          PROVE  call[d].outcome # "pending" /\ (call[d].outcome = "refused" => given)
      BY <1>a, <3>0, Zenon DEF Ok
    <3> QED BY <1>a, <2>1, <3>1, Zenon DEF Ok
  <2> QED BY <2>2, <2>3, <2>4
<1>2. ASSUME NEW t \in Transactions, CreateTransaction(t) PROVE \A d \in Callers : Ok(d)'
  BY <1>a, <1>2 DEF Ok, CreateTransaction, nodeVars, sessionVars
<1>3. CASE Network
  <2>1. UNCHANGED <<kind, call, apiVersion, given>>
    BY <1>3 DEF Network, Upgrade, NetworkLearns, sessionVars, history
  <2>2. ASSUME NEW d \in Callers PROVE Ok(d)'
    BY <1>a, <2>1, Zenon DEF Ok
  <2> QED BY <2>2
<1>4. ASSUME NEW c \in Callers, Calls(c) PROVE \A d \in Callers : Ok(d)'
  <2>a. UNCHANGED <<nodeApi, kind, apiVersion, status, given, created>>
    BY <1>4, CallsFrame
  <2>b. ASSUME NEW d \in Callers \ {c} PROVE Ok(d)'
    <3>1. call'[d] = call[d]
      BY <1>4, CallsFrame
    <3> QED BY <1>a, <2>a, <3>1 DEF Ok, Served
  <2>c. SUFFICES Ok(c)'
    BY <2>b
  <2>d. apiVersion \in {0, 1, 2} /\ nodeApi \in {1, 2} /\ call[c] \in Call
    BY DEF TypeOK
  <2>1. ASSUME NEW t \in Transactions, PutTransaction(c, t) PROVE Ok(c)'
    <3>1. CASE apiVersion = 2 /\ Begin(c, "put", t, "Hash", "account_put_transaction", "pending")
      <4>1. call'[c].outcome = "pending" /\ call'[c].method = "account_put_transaction"
            /\ call'[c].answer = "none"
        BY <3>1 DEF Begin, TypeOK
      <4> QED BY <2>a, <3>1, <4>1 DEF Ok, Served, Api2Methods
    <3>2. CASE apiVersion # 2 /\ Begin(c, "put", t, "Hash", "account_put_deploy", "pending")
      <4>1. call'[c].outcome = "pending" /\ call'[c].method = "account_put_deploy"
            /\ call'[c].answer = "none" /\ apiVersion # 0
        BY <3>2 DEF Begin, Free, TypeOK
      <4> QED BY <2>a, <3>2, <4>1 DEF Ok, Served, Api1Methods
    <3>3. CASE apiVersion # 2 /\ kind[t] # "Deploy"
               /\ Begin(c, "put", t, "Hash", "account_put_deploy", "refused")
      <4>1. call'[c].outcome = "refused" /\ call'[c].op = "put" /\ call'[c].tx = t
            /\ call'[c].answer = "none" /\ apiVersion # 0
        BY <3>3 DEF Begin, Free, TypeOK
      <4> QED BY <2>a, <2>d, <3>3, <4>1 DEF Ok
    <3> QED BY <2>1, <3>1, <3>2, <3>3 DEF PutTransaction
  <2>2. ASSUME NEW t \in Transactions, NEW form \in Forms, GetTransaction(c, t, form)
        PROVE  Ok(c)'
    <3>1. call'[c].outcome = "pending" /\ call'[c].method = FirstLookup(form)
          /\ call'[c].answer = "none" /\ apiVersion # 0
      BY <2>2 DEF GetTransaction, Begin, Free, TypeOK
    <3> QED BY <2>a, <3>1 DEF Ok, FirstLookup, Served, Api1Methods, Api2Methods
  <2>3. CASE QueryLatestBalance(c)
    <3>1. /\ apiVersion # 0 /\ call'[c].answer = "none"
          /\ \/ call'[c].outcome = "pending"
                /\ call'[c].method = (IF apiVersion = 2 THEN "query_balance"
                                      ELSE "chain_get_state_root_hash")
             \/ call'[c].outcome = "undefined"
      BY <2>3 DEF QueryLatestBalance, Begin, Free, TypeOK
    <3> QED BY <2>a, <3>1 DEF Ok, Served, Api1Methods, Api2Methods
  <2>4. CASE NodeServes(c)
    <3>1. call'[c].outcome = "pending" /\ call'[c].method = call[c].method
      BY <2>4, <2>d DEF NodeServes, TypeOK, Call
    <3>2. call'[c].answer = "method not found" => call[c].method \notin Served(nodeApi)
      BY <2>4, <2>d DEF NodeServes, TypeOK, Call
    <3>3. call[c].method \in Served(apiVersion) /\ apiVersion # 0
      BY <1>a, <2>4 DEF Ok, NodeServes
    <3>4. ~given => (apiVersion = 2 => nodeApi = 2)
      BY <2>d DEF SessionInv
    <3>5. ~given => call[c].method \in Served(nodeApi)
      BY <3>3, <3>4, Zenon DEF Served, Api2Methods
    <3> QED BY <2>a, <3>1, <3>2, <3>3, <3>5 DEF Ok
  <2>5. CASE TransportFails(c)
    <3>1. call'[c].outcome = "pending" /\ call'[c].method = call[c].method
          /\ call'[c].answer = "transport error" /\ call[c].outcome = "pending"
      BY <2>5, <2>d DEF TransportFails, TypeOK, Call
    <3> QED BY <1>a, <2>a, <3>1 DEF Ok, Served
  <2>6. CASE GetFallsBack(c)
    <3>1. /\ call[c].outcome = "pending" /\ call[c].method = "info_get_transaction by Version1"
          /\ call'[c].method = "info_get_transaction by Deploy"
          /\ call'[c].answer = "none" /\ call'[c].outcome = "pending"
      BY <2>6, <2>d DEF GetFallsBack, FallsBack, TypeOK, Call
    <3>2. apiVersion = 2
      BY <1>a, <2>d, <3>1 DEF Ok, Served, Api1Methods
    <3>3. apiVersion' = 2
      BY <2>a, <3>2
    <3>4. call'[c].method \in Served(apiVersion')
      BY <3>1, <3>3, Zenon DEF Served, Api2Methods
    <3>5. apiVersion' # 0
      BY <3>3
    <3> QED BY <3>1, <3>4, <3>5, Zenon DEF Ok
  <2>7. CASE BalanceAtRoot(c)
    <3>1. /\ call[c].outcome = "pending" /\ call'[c].method = "state_get_balance"
          /\ call'[c].answer = "none" /\ call'[c].outcome = "pending"
      BY <2>7, <2>d DEF BalanceAtRoot, TypeOK, Call
    <3>2. apiVersion # 0
      BY <1>a, <3>1 DEF Ok
    <3> QED BY <2>a, <3>1, <3>2 DEF Ok, Served, Api1Methods, Api2Methods
  <2>8. CASE CallEnds(c)
    <3>1. call'[c].outcome = Settled(call[c].answer) /\ call'[c].answer = call[c].answer
      BY <2>8, <2>d DEF CallEnds, TypeOK, Call
    <3> QED BY <1>a, <2>a, <3>1 DEF Ok, Settled
  <2> QED BY <1>4, <2>1, <2>2, <2>3, <2>4, <2>5, <2>6, <2>7, <2>8 DEF Calls
<1>5. CASE UNCHANGED vars
  BY <1>a, <1>5 DEF Ok, vars, nodeVars, sessionVars
<1> QED BY <1>1, <1>2, <1>3, <1>4, <1>5 DEF Next

(* What a put leaves with the node stays there.                            *)
LEMMA SubmitStep ==
  ASSUME TypeOK, SessionInv, MethodInv, SubmitInv, [Next]_vars
  PROVE  SubmitInv'
<1> DEFINE Ok(d) ==
      call[d].outcome = "pending" /\ call[d].op = "put" =>
        /\ \/ call[d].method = "account_put_transaction" /\ apiVersion = 2
           \/ kind[call[d].tx] = "Deploy"
        /\ call[d].answer = "ok" => call[d].tx \in known
<1>a. \A d \in Callers : Ok(d)
  BY DEF SubmitInv
<1>b. \A d \in Callers : call[d].outcome = "pending" => apiVersion # 0
  BY DEF MethodInv
<1>c. submitted # {} => apiVersion # 0
  BY DEF SessionInv
<1>d. /\ \A t \in known : Acceptable(t)
      /\ submitted \subseteq known
      /\ \A t \in submitted : apiVersion # 2 => kind[t] = "Deploy"
  BY DEF SubmitInv
<1>e. ASSUME \A t \in known' : Acceptable(t)',
             submitted' \subseteq known',
             \A t \in submitted' : apiVersion' # 2 => kind'[t] = "Deploy",
             \A d \in Callers : Ok(d)'
      PROVE  SubmitInv'
  BY <1>e DEF SubmitInv
<1>f. ASSUME UNCHANGED kind, nodeApi' = nodeApi \/ nodeApi' = 2
      PROVE  \A t \in known : Acceptable(t)'
  BY <1>d, <1>f DEF Acceptable
<1> HIDE DEF Ok
<1>1. CASE Create
  <2>1. UNCHANGED <<nodeApi, known, kind, call, submitted>>
    BY <1>1, CreateFrame
  <2>2. apiVersion # 0 => apiVersion' = apiVersion
    BY <1>1, CreateFrame DEF SessionInv
  <2>3. \A t \in submitted' : apiVersion' # 2 => kind'[t] = "Deploy"
    BY <1>c, <1>d, <2>1, <2>2
  <2>4. ASSUME NEW d \in Callers PROVE Ok(d)'
    <3>1. CASE call[d].outcome = "pending"
      BY <1>a, <1>b, <2>1, <2>2, <3>1 DEF Ok
    <3> QED BY <2>1, <3>1 DEF Ok
  <2> QED BY <1>d, <1>e, <1>f, <2>1, <2>3, <2>4
<1>2. ASSUME NEW t \in Transactions, CreateTransaction(t) PROVE SubmitInv'
  BY <1>2 DEF CreateTransaction, SubmitInv, Acceptable, nodeVars, sessionVars
<1>3. CASE Network
  <2>1. /\ UNCHANGED <<kind, call, apiVersion, submitted>> /\ known \subseteq known'
        /\ nodeApi' = nodeApi \/ nodeApi' = 2
        /\ \A t \in known' \ known : Acceptable(t) /\ nodeApi' = nodeApi
    BY <1>3 DEF Network, Upgrade, NetworkLearns, sessionVars, history
  <2>2. \A t \in known' : Acceptable(t)'
    BY <1>f, <2>1 DEF Acceptable
  <2>3. \A d \in Callers : Ok(d)'
    BY <1>a, <2>1 DEF Ok
  <2> QED BY <1>d, <1>e, <2>1, <2>2, <2>3
<1>4. ASSUME NEW c \in Callers, Calls(c) PROVE SubmitInv'
  <2>a. /\ UNCHANGED <<nodeApi, kind, apiVersion, status, given, created>>
        /\ known \subseteq known' /\ submitted \subseteq submitted'
    BY <1>4, CallsFrame
  <2>b. ASSUME NEW d \in Callers \ {c} PROVE Ok(d)'
    <3>1. call'[d] = call[d]
      BY <1>4, CallsFrame
    <3> QED BY <1>a, <2>a, <3>1 DEF Ok
  <2>c. apiVersion \in {0, 1, 2} /\ nodeApi \in {1, 2} /\ call[c] \in Call
    BY DEF TypeOK
  <2>d. ASSUME known' = known, submitted' = submitted, Ok(c)' PROVE SubmitInv'
    BY <1>d, <1>e, <1>f, <2>a, <2>b, <2>d
  <2>1. ASSUME NEW t \in Transactions, PutTransaction(c, t) PROVE SubmitInv'
    <3>1. known' = known /\ submitted' = submitted
      BY <2>1 DEF PutTransaction, Begin, nodeVars, history
    <3>2. /\ call'[c].answer = "none" /\ call'[c].tx = t
          /\ \/ call'[c].outcome = "refused" \/ kind[t] = "Deploy"
             \/ call'[c].method = "account_put_transaction" /\ apiVersion = 2
      BY <2>1 DEF PutTransaction, Begin, TypeOK
    <3> QED BY <2>a, <2>d, <3>1, <3>2 DEF Ok
  <2>2. ASSUME NEW t \in Transactions, NEW form \in Forms, GetTransaction(c, t, form)
        PROVE  SubmitInv'
    <3>1. known' = known /\ submitted' = submitted /\ call'[c].op = "get"
      BY <2>2 DEF GetTransaction, Begin, TypeOK, nodeVars, history
    <3> QED BY <2>d, <3>1 DEF Ok
  <2>3. CASE QueryLatestBalance(c)
    <3>1. known' = known /\ submitted' = submitted /\ call'[c].op = "balance"
      BY <2>3 DEF QueryLatestBalance, Begin, TypeOK, nodeVars, history
    <3> QED BY <2>d, <3>1 DEF Ok
  <2>4. CASE NodeServes(c)
    <3>1. /\ call[c].outcome = "pending" /\ submitted' = submitted
          /\ call'[c].op = call[c].op /\ call'[c].tx = call[c].tx
          /\ call'[c].method = call[c].method
          /\ call'[c].answer = "ok" => call[c].method \in Served(nodeApi)
      BY <2>4, <2>c DEF NodeServes, TypeOK, Call, history
    <3>2. known' = IF call[c].op = "put" /\ call[c].method \in Served(nodeApi)
                   THEN known \union {call[c].tx} ELSE known
      BY <2>4 DEF NodeServes
    <3>3. Ok(c)'
      BY <1>a, <2>a, <3>1, <3>2 DEF Ok
    <3>4. ASSUME call[c].op = "put", call[c].method \in Served(nodeApi)
          PROVE  Acceptable(call[c].tx)
      <4>1. call[c].method = "account_put_transaction" => nodeApi = 2
        BY <2>c, <3>4 DEF Served, Api1Methods
      <4> QED BY <1>a, <3>1, <3>4, <4>1 DEF Ok, Acceptable
    <3>5. \A t \in known' : Acceptable(t)'
      BY <1>f, <2>a, <3>2, <3>4 DEF Acceptable
    <3> QED BY <1>d, <1>e, <2>a, <2>b, <3>1, <3>3, <3>5
  <2>5. CASE TransportFails(c)
    <3>1. /\ known' = known /\ submitted' = submitted /\ call[c].outcome = "pending"
          /\ call'[c].op = call[c].op /\ call'[c].tx = call[c].tx
          /\ call'[c].method = call[c].method /\ call'[c].answer = "transport error"
      BY <2>5, <2>c DEF TransportFails, TypeOK, Call, nodeVars, history
    <3> QED BY <1>a, <2>a, <2>d, <3>1 DEF Ok
  <2>6. CASE GetFallsBack(c)
    <3>1. known' = known /\ submitted' = submitted /\ call'[c].op = "get"
      BY <2>6, <2>c DEF GetFallsBack, FallsBack, TypeOK, Call, nodeVars, history
    <3> QED BY <2>d, <3>1 DEF Ok
  <2>7. CASE BalanceAtRoot(c)
    <3>1. /\ known' = known /\ submitted' = submitted /\ call[c].outcome = "pending"
          /\ call'[c].op = call[c].op /\ call'[c].tx = call[c].tx
          /\ call[c].method = "chain_get_state_root_hash" /\ call'[c].answer = "none"
      BY <2>7, <2>c DEF BalanceAtRoot, TypeOK, Call, nodeVars, history
    <3> QED BY <1>a, <2>a, <2>d, <3>1 DEF Ok
  <2>8. CASE CallEnds(c)
    <3>1. known' = known /\ call[c].outcome = "pending"
          /\ call'[c].outcome = Settled(call[c].answer)
      BY <2>8, <2>c DEF CallEnds, TypeOK, Call, nodeVars
    <3>2. call'[c].outcome # "pending"
      BY <3>1 DEF Settled
    <3>3. submitted' = submitted \/
          (submitted' = submitted \union {call[c].tx}
           /\ call[c].op = "put" /\ call[c].answer = "ok")
      BY <2>8 DEF CallEnds
    <3>4. submitted' \subseteq known'
      BY <1>a, <1>d, <3>1, <3>3 DEF Ok
    <3>5. ASSUME call[c].op = "put", apiVersion # 2 PROVE kind[call[c].tx] = "Deploy"
      BY <1>a, <3>1, <3>5 DEF Ok
    <3>6. \A t \in submitted' : apiVersion' # 2 => kind'[t] = "Deploy"
      BY <1>d, <2>a, <3>3, <3>5
    <3>7. Ok(c)'
      BY <3>2 DEF Ok
    <3> QED BY <1>d, <1>e, <1>f, <2>a, <2>b, <3>1, <3>4, <3>6, <3>7
  <2> QED BY <1>4, <2>1, <2>2, <2>3, <2>4, <2>5, <2>6, <2>7, <2>8 DEF Calls
<1>5. CASE UNCHANGED vars
  BY <1>5 DEF vars, nodeVars, sessionVars, history, SubmitInv, Acceptable
<1> QED BY <1>1, <1>2, <1>3, <1>4, <1>5 DEF Next

(* A lookup that has to succeed stays on a way that leads to its answer.   *)
LEMMA LookupStep ==
  ASSUME TypeOK, SessionInv, AskedInv, SubmitInv, LookupInv, [Next]_vars
  PROVE  LookupInv'
<1> DEFINE Way(d) ==
      /\ call[d].tx \in known
      /\ call[d].method \in Lookups
      /\ call[d].method = "info_get_transaction by Version1" => call[d].form # "Deploy"
      /\ call[d].method # "info_get_transaction by Version1" =>
           kind[call[d].tx] = "Deploy"
      /\ call[d].answer = "no such transaction" =>
           call[d].form = "Hash" /\ kind[call[d].tx] = "Deploy"
           /\ call[d].method = "info_get_transaction by Version1"
      /\ call[d].outcome # "not found"
<1>a. \A d \in Callers : Sure(d) => Way(d)
  BY DEF LookupInv
<1>b. ASSUME \A d \in Callers : Sure(d)' => Way(d)' PROVE LookupInv'
  BY <1>b DEF LookupInv
<1> HIDE DEF Way
<1>c. ASSUME UNCHANGED <<kind, call>>, known \subseteq known',
             apiVersion' = apiVersion \/ apiVersion = 0
      PROVE  LookupInv'
  <2>1. ASSUME NEW d \in Callers, Sure(d)' PROVE Way(d)'
    <3>1. Sure(d)
      BY <1>c, <2>1 DEF Sure, Fits, AskedInv
    <3> QED BY <1>a, <1>c, <3>1 DEF Way
  <2> QED BY <1>b, <2>1
<1>1. CASE Create
  <2>1. apiVersion' = apiVersion \/ apiVersion = 0
    BY <1>1, CreateFrame DEF SessionInv
  <2> QED BY <1>1, <1>c, <2>1, CreateFrame
<1>2. ASSUME NEW t \in Transactions, CreateTransaction(t) PROVE LookupInv'
  BY <1>2, <1>c DEF CreateTransaction, nodeVars, sessionVars
<1>3. CASE Network
  BY <1>3, <1>c DEF Network, Upgrade, NetworkLearns, sessionVars
<1>4. ASSUME NEW c \in Callers, Calls(c) PROVE LookupInv'
  <2>a. UNCHANGED <<kind, apiVersion>> /\ known \subseteq known'
    BY <1>4, CallsFrame
  <2>b. ASSUME NEW d \in Callers \ {c}, Sure(d)' PROVE Way(d)'
    <3>1. call'[d] = call[d]
      BY <1>4, CallsFrame
    <3>2. Sure(d)
      BY <2>a, <2>b, <3>1 DEF Sure, Fits
    <3> QED BY <1>a, <2>a, <3>1, <3>2 DEF Way
  <2>c. ASSUME Sure(c)' => Way(c)' PROVE LookupInv'
    BY <1>b, <2>b, <2>c
  <2>d. apiVersion \in {0, 1, 2} /\ nodeApi \in {1, 2} /\ call[c] \in Call
        /\ kind \in [Transactions -> Kinds]
    BY DEF TypeOK
  <2>1. ASSUME NEW t \in Transactions, PutTransaction(c, t) PROVE LookupInv'
    <3>1. call'[c].op = "put"
      BY <2>1 DEF PutTransaction, Begin, TypeOK
    <3> QED BY <2>c, <3>1 DEF Sure
  <2>2. ASSUME NEW t \in Transactions, NEW form \in Forms, GetTransaction(c, t, form)
        PROVE  LookupInv'
    <3>1. /\ apiVersion # 0 /\ known' = known
          /\ call'[c].tx = t /\ call'[c].form = form
          /\ call'[c].method = FirstLookup(form)
          /\ call'[c].answer = "none" /\ call'[c].outcome = "pending"
          /\ call'[c].own => t \in submitted
          /\ call'[c].knew => t \in known
      BY <2>2 DEF GetTransaction, Begin, Free, TypeOK, nodeVars
    <3>2. ASSUME Sure(c)'
          PROVE  /\ t \in known
                 /\ apiVersion # 2 => kind[t] = "Deploy"
                 /\ form = "Hash" \/ form = kind[t]
      <4>1. form = "Hash" \/ form = kind[t]
        BY <2>a, <3>1, <3>2 DEF Sure, Fits
      <4>2. CASE call'[c].own
        BY <3>1, <4>1, <4>2 DEF SubmitInv
      <4>3. CASE call'[c].knew /\ (kind[t] = "Deploy" \/ apiVersion = 2)
        BY <3>1, <4>1, <4>3
      <4> QED BY <2>a, <3>1, <3>2, <4>2, <4>3 DEF Sure
    <3>3. FirstLookup(form) \in Lookups
      BY DEF FirstLookup, Lookups
    <3>4. ASSUME Sure(c)'
          PROVE  /\ FirstLookup(form) = "info_get_transaction by Version1" => form # "Deploy"
                 /\ FirstLookup(form) # "info_get_transaction by Version1" => kind[t] = "Deploy"
      BY <3>2, <3>4 DEF FirstLookup
    <3>5. Sure(c)' => Way(c)'
      BY <2>a, <3>1, <3>2, <3>3, <3>4 DEF Way
    <3> QED BY <2>c, <3>5
  <2>3. CASE QueryLatestBalance(c)
    <3>1. call'[c].op = "balance"
      BY <2>3 DEF QueryLatestBalance, Begin, TypeOK
    <3> QED BY <2>c, <3>1 DEF Sure
  <2>e. ASSUME Progress(c), Sure(c)' PROVE Way(c) /\ Sure(c) /\ Fits(c)
    <3>1. Sure(c)
      BY <2>a, <2>e, ProgressCall DEF Sure, Fits
    <3> QED BY <1>a, <3>1 DEF Sure
  <2>4. CASE NodeServes(c)
    <3>1. Progress(c)
      BY <2>4 DEF Progress
    <3>2. /\ call'[c].tx = call[c].tx /\ call'[c].form = call[c].form
          /\ call'[c].method = call[c].method /\ call'[c].outcome = "pending"
          /\ call'[c].answer = "no such transaction" =>
               call[c].method \in Lookups /\ ~Finds(call[c].method, call[c].tx)
      BY <2>4, <2>d DEF NodeServes, TypeOK, Call
    <3>3. ASSUME Way(c), Fits(c), ~Finds(call[c].method, call[c].tx)
          PROVE  /\ call[c].form = "Hash" /\ kind[call[c].tx] = "Deploy"
                 /\ call[c].method = "info_get_transaction by Version1"
      <4>1. call[c].tx \in Transactions /\ kind[call[c].tx] \in Kinds
        BY <2>d DEF Call
      <4> QED BY <3>3, <4>1 DEF Way, Fits, Finds, Kinds
    <3>4. Sure(c)' => Way(c)'
      BY <2>a, <2>e, <3>1, <3>2, <3>3 DEF Way
    <3> QED BY <2>c, <3>4
  <2>5. CASE TransportFails(c)
    <3>1. Progress(c)
      BY <2>5 DEF Progress
    <3>2. /\ call'[c].tx = call[c].tx /\ call'[c].form = call[c].form
          /\ call'[c].method = call[c].method /\ call'[c].outcome = "pending"
          /\ call'[c].answer = "transport error"
      BY <2>5, <2>d DEF TransportFails, TypeOK, Call
    <3>3. Sure(c)' => Way(c)'
      BY <2>a, <2>e, <3>1, <3>2 DEF Way
    <3> QED BY <2>c, <3>3
  <2>6. CASE GetFallsBack(c)
    <3>1. Progress(c)
      BY <2>6 DEF Progress
    <3>2. /\ call'[c].tx = call[c].tx /\ call'[c].outcome = "pending"
          /\ call'[c].method = "info_get_transaction by Deploy"
          /\ call'[c].answer = "none" /\ call[c].answer = "no such transaction"
      BY <2>6, <2>d DEF GetFallsBack, FallsBack, TypeOK, Call
    <3>3. call'[c].method \in Lookups
      BY <3>2 DEF Lookups
    <3>4. Sure(c)' => Way(c)'
      BY <2>a, <2>e, <3>1, <3>2, <3>3 DEF Way
    <3> QED BY <2>c, <3>4
  <2>7. CASE BalanceAtRoot(c)
    <3>1. Progress(c)
      BY <2>7 DEF Progress
    <3>2. call[c].method = "chain_get_state_root_hash"
      BY <2>7 DEF BalanceAtRoot
    <3>3. ~Sure(c)'
      BY <2>e, <3>1, <3>2 DEF Way, Lookups
    <3> QED BY <2>c, <3>3
  <2>8. CASE CallEnds(c)
    <3>1. Progress(c)
      BY <2>8 DEF Progress
    <3>2. /\ call'[c].tx = call[c].tx /\ call'[c].form = call[c].form
          /\ call'[c].method = call[c].method /\ call'[c].answer = call[c].answer
          /\ call'[c].outcome = Settled(call[c].answer) /\ ~FallsBack(c)
      BY <2>8, <2>d DEF CallEnds, TypeOK, Call
    <3>3. ASSUME Way(c), Sure(c) PROVE call'[c].outcome # "not found"
      BY <3>2, <3>3 DEF Way, Sure, FallsBack, Settled
    <3>4. Sure(c)' => Way(c)'
      BY <2>a, <2>e, <3>1, <3>2, <3>3 DEF Way
    <3> QED BY <2>c, <3>4
  <2> QED BY <1>4, <2>1, <2>2, <2>3, <2>4, <2>5, <2>6, <2>7, <2>8 DEF Calls
<1>5. CASE UNCHANGED vars
  BY <1>5, <1>c DEF vars, nodeVars, sessionVars
<1> QED BY <1>1, <1>2, <1>3, <1>4, <1>5 DEF Next

(* No lookup is made before the version is known, and it stays known.      *)
LEMMA AskedStep ==
  ASSUME TypeOK, SessionInv, AskedInv, [Next]_vars
  PROVE  AskedInv'
<1>1. CASE UNCHANGED call
  <2>1. apiVersion # 0 => apiVersion' # 0
    BY CreateFrame, CallsFrame
    DEF Next, Create, CreateGiven, CreateAsks, StatusServed, StatusFails, CreateResolves,
        CreateTransaction, Network, Upgrade, NetworkLearns, sessionVars, vars
  <2> QED BY <1>1, <2>1 DEF AskedInv
<1>2. ASSUME NEW c \in Callers, Calls(c) PROVE AskedInv'
  <2>1. UNCHANGED apiVersion /\ \A d \in Callers \ {c} : call'[d] = call[d]
    BY <1>2, CallsFrame
  <2>2. CASE Progress(c)
    BY <2>1, <2>2, ProgressCall DEF AskedInv
  <2>3. CASE ~Progress(c)
    <3>1. Free(c)
      BY <1>2, <2>3 DEF Calls, Progress, PutTransaction, GetTransaction,
                        QueryLatestBalance, Begin
    <3> QED BY <2>1, <3>1 DEF Free, AskedInv
  <2> QED BY <2>2, <2>3
<1>3. UNCHANGED call \/ \E c \in Callers : Calls(c)
  BY CreateFrame DEF Next, CreateTransaction, Network, Upgrade, NetworkLearns, vars
<1> QED BY <1>1, <1>2, <1>3
-----------------------------------------------------------------------------
(* The invariant holds.                                                    *)
LEMMA Invariance == Spec => []IInv
<1>1. Init => IInv
  <2> SUFFICES ASSUME Init PROVE IInv
    OBVIOUS
  <2>1. \A c \in Callers : /\ call[c].op = "none" /\ call[c].outcome = "failed"
                           /\ call[c].answer = "none"
    BY DEF Init
  <2>2. SessionInv /\ SubmitInv
    BY <2>1 DEF Init, SessionInv, SubmitInv
  <2>3. MethodInv
    BY <2>1 DEF MethodInv
  <2>4. LookupInv /\ AskedInv
    BY <2>1 DEF LookupInv, AskedInv, Sure
  <2>5. TypeOK
    BY InitType
  <2> QED BY <2>2, <2>3, <2>4, <2>5 DEF IInv
<1>2. IInv /\ [Next]_vars => IInv'
  <2> SUFFICES ASSUME IInv, [Next]_vars PROVE IInv'
    OBVIOUS
  <2> USE DEF IInv
  <2>1. TypeOK'
    BY NextType
  <2>2. SessionInv'
    BY SessionStep
  <2>3. MethodInv'
    BY MethodStep
  <2>4. SubmitInv'
    BY SubmitStep
  <2>5. LookupInv'
    BY LookupStep
  <2>6. AskedInv'
    BY AskedStep
  <2> QED BY <2>1, <2>2, <2>3, <2>4, <2>5, <2>6
<1> QED BY <1>1, <1>2, PTL DEF Spec

(* A session that has found out the version itself is never refused, for   *)
(* any number of transactions and of concurrent calls, with an upgrade at  *)
(* any moment.                                                             *)
THEOREM SessionNeverRefused == Spec => []NeverRefused
<1>1. IInv => NeverRefused
  <2>1. KindFor(1) = "Deploy"
    BY DEF KindFor
  <2> QED BY <2>1, Zenon DEF IInv, SessionInv, MethodInv, NeverRefused
<1> QED BY <1>1, Invariance, PTL

(* What the session submitted is found by every later lookup, by whichever *)
(* hash and after however many fallbacks and upgrades.                     *)
THEOREM SessionReadsItsWrites == Spec => []ReadYourWrites
<1>1. IInv => ReadYourWrites
  BY DEF IInv, LookupInv, Sure, ReadYourWrites
<1> QED BY <1>1, Invariance, PTL

(* Whatever the node knew when a lookup began is found, if the session's   *)
(* version has methods for it.                                             *)
THEOREM LookupsFindKnown == Spec => []KnownIsFound
<1>1. IInv => KnownIsFound
  BY DEF IInv, LookupInv, Sure, KnownIsFound
<1> QED BY <1>1, Invariance, PTL
=============================================================================
