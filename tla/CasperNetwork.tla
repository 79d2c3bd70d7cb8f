---------------------------- MODULE CasperNetwork ----------------------------
(***************************************************************************)
(* CasperNetwork (src/src/utils/casper-network.ts): one session object     *)
(* that learns the API version of the node once and dispatches every call  *)
(* by it, over RpcClient.  The node may be upgraded from API 1 to API 2 at *)
(* any moment, and calls run concurrently.  A lookup by a hash of unknown  *)
(* kind and a balance on API 1 take two requests each.                     *)
(***************************************************************************)
EXTENDS Integers

CONSTANTS
  Transactions,   (* transactions that exist, each under a hash of its own *)
  Callers,        (* concurrent callers of the session                     *)
  GivenVersions   (* apiVersion arguments that callers pass to create      *)

ASSUME NetworkAssumption == GivenVersions \subseteq {1, 2}

VARIABLES
  nodeApi,     (* the node's API: 1 or 2                                   *)
  known,       (* the transactions that the node knows                     *)
  kind,        (* what each transaction is: a "Deploy" or a "Version1"     *)
  apiVersion,  (* apiVersion of the session; 0 before create has resolved  *)
  status,      (* create awaits getStatus: "no", "waiting", or the answer  *)
  call,        (* the call of each caller                                  *)
  given,       (* history: the caller passed the version to create         *)
  created,     (* history: transactions made by the session                *)
  submitted    (* history: transactions whose putTransaction resolved      *)

sessionVars == <<apiVersion, status, given>>
nodeVars    == <<nodeApi, known, kind>>
history     == <<created, submitted>>
vars        == <<nodeVars, sessionVars, call, history>>

Kinds == {"Deploy", "Version1"}
Forms == {"Deploy", "Version1", "Hash"}

Api1Methods == {"account_put_deploy", "info_get_deploy",
                "chain_get_state_root_hash", "state_get_balance"}
Api2Methods == Api1Methods \union
               {"account_put_transaction", "info_get_transaction by Version1",
                "info_get_transaction by Deploy", "query_balance"}
Served(api) == IF api = 2 THEN Api2Methods ELSE Api1Methods

Answers  == {"none", "ok", "no such transaction", "method not found",
             "transport error"}
Outcomes == {"pending", "resolved", "undefined", "not found", "refused", "failed"}

Call == [op : {"none", "put", "get", "balance"}, tx : Transactions,
         form : Forms, method : Api2Methods, answer : Answers,
         outcome : Outcomes, knew : BOOLEAN, own : BOOLEAN]

Init ==
  /\ nodeApi \in {1, 2}
  /\ known = {}
  /\ kind \in [Transactions -> Kinds]
  /\ apiVersion = 0
  /\ status = "no"
  /\ given = FALSE
  /\ created = {} /\ submitted = {}
  /\ \E t \in Transactions :
       call = [c \in Callers |->
                 [op |-> "none", tx |-> t, form |-> "Hash",
                  method |-> "info_get_deploy", answer |-> "none",
                  outcome |-> "failed", knew |-> FALSE, own |-> FALSE]]
-----------------------------------------------------------------------------
(* The node and the network. *)

Upgrade ==
  /\ nodeApi = 1
  /\ nodeApi' = 2
  /\ UNCHANGED <<known, kind, sessionVars, call, history>>

(* An API 1 network has deploys only. *)
Acceptable(t) == kind[t] = "Version1" => nodeApi = 2

(* Somebody else submits a transaction. *)
NetworkLearns(t) ==
  /\ Acceptable(t)
  /\ known' = known \union {t}
  /\ UNCHANGED <<nodeApi, kind, sessionVars, call, history>>

(* What the node answers to a lookup. *)
Finds(method, t) ==
  /\ t \in known
  /\ method = "info_get_deploy" => kind[t] = "Deploy"
  /\ method = "info_get_transaction by Deploy" => kind[t] = "Deploy"
  /\ method = "info_get_transaction by Version1" => kind[t] = "Version1"

Lookups == {"info_get_deploy", "info_get_transaction by Deploy",
            "info_get_transaction by Version1"}

NodeServes(c) ==
  LET m == call[c].method
      t == call[c].tx
  IN  /\ call[c].outcome = "pending"
      /\ call[c].answer = "none"
      /\ call' = [call EXCEPT ![c].answer =
                    IF m \notin Served(nodeApi) THEN "method not found"
                    ELSE IF m \in Lookups /\ ~Finds(m, t) THEN "no such transaction"
                    ELSE "ok"]
      /\ known' = IF call[c].op = "put" /\ m \in Served(nodeApi)
                  THEN known \union {t} ELSE known
      /\ UNCHANGED <<nodeApi, kind, sessionVars, history>>

(* The request, or the answer to a request that was served, is lost. *)
TransportFails(c) ==
  /\ call[c].outcome = "pending"
  /\ call' = [call EXCEPT ![c].answer = "transport error"]
  /\ UNCHANGED <<nodeVars, sessionVars, history>>
-----------------------------------------------------------------------------
(* CasperNetwork.create *)

CreateGiven(version) ==
  /\ apiVersion = 0 /\ status = "no"
  /\ apiVersion' = version
  /\ given' = TRUE
  /\ UNCHANGED <<nodeVars, status, call, history>>

CreateAsks ==
  /\ apiVersion = 0 /\ status = "no"
  /\ status' = "waiting"
  /\ UNCHANGED <<nodeVars, apiVersion, given, call, history>>

StatusServed ==
  /\ status = "waiting"
  /\ status' = IF nodeApi = 2 THEN "2.x" ELSE "1.x"
  /\ UNCHANGED <<nodeVars, apiVersion, given, call, history>>

StatusFails ==
  /\ status # "no"
  /\ status' = "no"
  /\ UNCHANGED <<nodeVars, apiVersion, given, call, history>>

CreateResolves ==
  /\ status \in {"1.x", "2.x"}
  /\ apiVersion' = IF status = "2.x" THEN 2 ELSE 1
  /\ status' = "no"
  /\ UNCHANGED <<nodeVars, given, call, history>>

(* create...Transaction: build() on API 2, buildFor1_5() otherwise. *)
KindFor(version) == IF version = 2 THEN "Version1" ELSE "Deploy"

CreateTransaction(t) ==
  /\ apiVersion # 0
  /\ kind[t] = KindFor(apiVersion)
  /\ created' = created \union {t}
  /\ UNCHANGED <<nodeVars, sessionVars, call, submitted>>
-----------------------------------------------------------------------------
(* The calls. *)

Free(c) == apiVersion # 0 /\ call[c].outcome # "pending"

Begin(c, op, t, form, method, outcome) ==
  /\ Free(c)
  /\ call' = [call EXCEPT ![c] =
                [op |-> op, tx |-> t, form |-> form, method |-> method,
                 answer |-> "none", outcome |-> outcome,
                 knew |-> op = "get" /\ t \in known,
                 own |-> op = "get" /\ t \in submitted]]
  /\ UNCHANGED <<nodeVars, sessionVars, history>>

(* putTransaction throws at once for what an API 1 node cannot take. *)
PutTransaction(c, t) ==
  \/ apiVersion = 2
     /\ Begin(c, "put", t, "Hash", "account_put_transaction", "pending")
  \/ apiVersion # 2 /\ kind[t] = "Deploy"
     /\ Begin(c, "put", t, "Hash", "account_put_deploy", "pending")
  \/ apiVersion # 2 /\ kind[t] # "Deploy"
     /\ Begin(c, "put", t, "Hash", "account_put_deploy", "refused")

(* Mutant: the methods of API 2 whatever the session's version. *)
FirstLookup_Newest(form) ==
  IF form = "Deploy" THEN "info_get_transaction by Deploy"
  ELSE "info_get_transaction by Version1"

(* getTransactionOnCasper2x goes by the kind of a TransactionHash and tries *)
(* a plain Hash as a transaction first; getTransactionOnCasper1x goes by   *)
(* the deploy.                                                             *)
FirstLookup(form) ==
  IF apiVersion # 2 THEN "info_get_deploy"
  ELSE IF form = "Deploy" THEN "info_get_transaction by Deploy"
  ELSE "info_get_transaction by Version1"

GetTransaction(c, t, form) ==
  Begin(c, "get", t, form, FirstLookup(form), "pending")

(* Mutants: any error makes the lookup fall back; none does. *)
FallsBack_OnAnyError(c) ==
  /\ call[c].op = "get" /\ call[c].form = "Hash"
  /\ call[c].method = "info_get_transaction by Version1"
  /\ call[c].answer # "ok"

FallsBack_Never(c) == FALSE

(* isHttpError and toRpcErrorCode: only NoSuchTransaction makes the lookup *)
(* of a plain Hash fall back to the deploy hash.                           *)
FallsBack(c) ==
  /\ call[c].op = "get" /\ call[c].form = "Hash"
  /\ call[c].method = "info_get_transaction by Version1"
  /\ call[c].answer = "no such transaction"

GetFallsBack(c) ==
  /\ call[c].outcome = "pending" /\ call[c].answer # "none"
  /\ FallsBack(c)
  /\ call' = [call EXCEPT ![c].method = "info_get_transaction by Deploy",
                          ![c].answer = "none"]
  /\ UNCHANGED <<nodeVars, sessionVars, history>>

(* queryLatestBalance: on API 1 the identifier must be a purse, and the    *)
(* balance is read at the state root that a first request returns.         *)
QueryLatestBalance(c) ==
  LET Asks(method, outcome) ==
        Begin(c, "balance", call[c].tx, "Hash", method, outcome)
  IN  \/ apiVersion = 2 /\ Asks("query_balance", "pending")
      \/ apiVersion # 2 /\ \/ Asks("chain_get_state_root_hash", "pending")
                           \/ Asks("state_get_balance", "undefined")

BalanceAtRoot(c) ==
  /\ call[c].outcome = "pending"
  /\ call[c].method = "chain_get_state_root_hash" /\ call[c].answer = "ok"
  /\ call' = [call EXCEPT ![c].method = "state_get_balance", ![c].answer = "none"]
  /\ UNCHANGED <<nodeVars, sessionVars, history>>

(* The last request of a call is answered, and its promise settles. *)
Settled(answer) ==
  IF answer = "ok" THEN "resolved"
  ELSE IF answer = "no such transaction" THEN "not found"
  ELSE IF answer = "method not found" THEN "refused"
  ELSE "failed"

CallEnds(c) ==
  /\ call[c].outcome = "pending" /\ call[c].answer # "none"
  /\ ~FallsBack(c)
  /\ ~(call[c].method = "chain_get_state_root_hash" /\ call[c].answer = "ok")
  /\ call' = [call EXCEPT ![c].outcome = Settled(call[c].answer)]
  /\ submitted' = IF call[c].op = "put" /\ call[c].answer = "ok"
                  THEN submitted \union {call[c].tx} ELSE submitted
  /\ UNCHANGED <<nodeVars, sessionVars, created>>
-----------------------------------------------------------------------------
Create == \/ \E version \in GivenVersions : CreateGiven(version)
          \/ CreateAsks
          \/ StatusServed
          \/ StatusFails
          \/ CreateResolves

Network == \/ Upgrade
           \/ \E t \in Transactions : NetworkLearns(t)

Calls(c) == \/ \E t \in Transactions :
                 \/ PutTransaction(c, t)
                 \/ \E form \in Forms : GetTransaction(c, t, form)
            \/ QueryLatestBalance(c)
            \/ NodeServes(c)
            \/ TransportFails(c)
            \/ GetFallsBack(c)
            \/ BalanceAtRoot(c)
            \/ CallEnds(c)

Next == \/ Create
        \/ \E t \in Transactions : CreateTransaction(t)
        \/ Network
        \/ \E c \in Callers : Calls(c)

Spec == Init /\ [][Next]_vars
-----------------------------------------------------------------------------
(* Properties *)

(* The variables keep their types. *)
TypeOK ==
  /\ nodeApi \in {1, 2} /\ apiVersion \in {0, 1, 2}
  /\ status \in {"no", "waiting", "1.x", "2.x"}
  /\ kind \in [Transactions -> Kinds]
  /\ known \in SUBSET Transactions
  /\ created \in SUBSET Transactions /\ submitted \in SUBSET Transactions
  /\ given \in BOOLEAN
  /\ call \in [Callers -> Call]

(* The hash that the caller has is that of the transaction. *)
Fits(c) == call[c].form \in {"Hash", kind[call[c].tx]}

(* A session that has found out the version itself never sends a request   *)
(* that the node refuses, however old what it knows of the version is, and *)
(* refuses none of the transactions it has made.                           *)
NeverRefused ==
  \A c \in Callers : call[c].outcome = "refused" =>
    \/ given
    \/ call[c].op = "put" /\ call[c].tx \notin created

(* What a putTransaction has resolved for is found by every getTransaction *)
(* that begins later, on any session version and across an upgrade; it may *)
(* fail in transport, but never with "not found".                          *)
ReadYourWrites ==
  \A c \in Callers : call[c].op = "get" /\ call[c].own /\ Fits(c) =>
    call[c].outcome # "not found"

(* A lookup does not report as unknown what the node knew when the call    *)
(* began, if the session's version has methods for it: deploys, and on     *)
(* API 2 every transaction, by every hash that fits.                       *)
KnownIsFound ==
  \A c \in Callers :
    /\ call[c].op = "get" /\ call[c].knew /\ Fits(c)
    /\ kind[call[c].tx] = "Deploy" \/ apiVersion = 2
    => call[c].outcome # "not found"
=============================================================================
