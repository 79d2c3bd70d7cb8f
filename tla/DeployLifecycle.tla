--------------------------- MODULE DeployLifecycle ---------------------------
(***************************************************************************)
(* Deploys (src/src/types/Deploy.ts) and the Transactions made from them   *)
(* (src/src/types/Transaction.ts) as the mutable objects they are: a       *)
(* deploy refers to its header, its session and its approvals, operations  *)
(* share these objects between deploys and change them in place, and a     *)
(* Transaction pushes its signatures into the deploy it comes from.        *)
(* Hashing is injective: a body hash is the body, a deploy hash the header.*)
(***************************************************************************)
EXTENDS Integers

CONSTANTS
  ArgNames,    (* names of runtime arguments                               *)
  Values,      (* their values                                             *)
  Signers,     (* private keys                                             *)
  MaxDeploys,  (* bound: Deploy objects made                               *)
  KeepsOld     (* whether callers go on with a deploy after addArgToDeploy *)

ASSUME DeployAssumption == MaxDeploys \in Nat \ {0} /\ KeepsOld \in BOOLEAN

VARIABLES
  made,         (* number of Deploy objects made                           *)
  deploys,      (* their fields hash, header and session                   *)
  approvals,    (* their approvals arrays                                  *)
  headers,      (* DeployHeader objects: all that is not the hash, bodyHash *)
  sessions,     (* ExecutableDeployItem objects: their args                *)
  transactions, (* Transaction objects: hash and originDeployV1            *)
  inUse         (* history: the deploys that the caller has not given up   *)

vars == <<made, deploys, approvals, headers, sessions, transactions, inUse>>

Ids    == 1..MaxDeploys
Args   == {args \in SUBSET (ArgNames \X Values) :
             \A a, b \in args : a[1] = b[1] => a = b}
Header == [fields : 0..MaxDeploys, bodyHash : Args]
Deploy == [hash : Header, header : Ids, session : Ids]

Approval    == [signer : Signers, signedHash : Header]
Transaction == [hash : Header, originDeployV1 : Ids]

NewHeader == [fields |-> 0, bodyHash |-> {}]

Init ==
  /\ made = 0
  /\ deploys = [i \in Ids |-> [hash |-> NewHeader, header |-> i, session |-> i]]
  /\ approvals = [i \in Ids |-> {}]
  /\ headers = [i \in Ids |-> NewHeader]
  /\ sessions = [i \in Ids |-> {}]
  /\ transactions = {}
  /\ inUse = {}

HeaderOf(d) == headers[deploys[d].header]
BodyOf(d)   == sessions[deploys[d].session]

(* The two halves of validate(): the hashes, the signatures. *)
HashesMatch(d) == /\ HeaderOf(d).bodyHash = BodyOf(d)
                  /\ deploys[d].hash = HeaderOf(d)

SignaturesMatch(d) == \A a \in approvals[d] : a.signedHash = deploys[d].hash

Valid(d) == HashesMatch(d) /\ SignaturesMatch(d)
-----------------------------------------------------------------------------
(* makeDeploy: the body hash is stored in the header object that the       *)
(* caller passed, the deploy refers to the objects, not to copies.         *)
MakeDeployOf(header, fields, session, body) ==
  LET newHeader == [fields |-> fields, bodyHash |-> body]
  IN  /\ made < MaxDeploys
      /\ made' = made + 1
      /\ headers' = [headers EXCEPT ![header] = newHeader]
      /\ sessions' = [sessions EXCEPT ![session] = body]
      /\ deploys' = [deploys EXCEPT ![made + 1] = [hash    |-> newHeader,
                                                   header  |-> header,
                                                   session |-> session]]
      /\ UNCHANGED <<approvals, transactions>>

(* A caller makes a deploy of a header and a session of its own. *)
MakeDeploy(body) ==
  /\ MakeDeployOf(made + 1, made + 1, made + 1, body)
  /\ inUse' = inUse \union {made + 1}

Insert(args, name, value) == {a \in args : a[1] # name} \union {<<name, value>>}

(* Mutants: a copy of the session gets the argument, the header is shared; *)
(* a signed deploy is not refused.                                         *)
AddArgToDeploy_CopiesSession(d, name, value) ==
  /\ d \in inUse
  /\ approvals[d] = {}
  /\ MakeDeployOf(deploys[d].header, HeaderOf(d).fields, made + 1,
                  Insert(BodyOf(d), name, value))
  /\ inUse' = inUse \union {made + 1}

AddArgToDeploy_Signed(d, name, value) ==
  /\ d \in inUse
  /\ MakeDeployOf(deploys[d].header, HeaderOf(d).fields, deploys[d].session,
                  Insert(BodyOf(d), name, value))
  /\ inUse' = (inUse \ {d}) \union {made + 1}

(* addArgToDeploy: the session changes in place, and the new deploy shares *)
(* it, and the header, with the old one.                                   *)
AddArgToDeploy(d, name, value) ==
  /\ d \in inUse
  /\ approvals[d] = {}
  /\ MakeDeployOf(deploys[d].header, HeaderOf(d).fields, deploys[d].session,
                  Insert(BodyOf(d), name, value))
  /\ inUse' = (IF KeepsOld THEN inUse ELSE inUse \ {d}) \union {made + 1}

Approve(d, signer, signedHash) ==
  /\ approvals' = [approvals EXCEPT ![d] =
                     @ \union {[signer |-> signer, signedHash |-> signedHash]}]
  /\ UNCHANGED <<made, deploys, headers, sessions, transactions, inUse>>

(* Mutant: the header as it is now is signed, and not the deploy's hash. *)
Sign_Header(d, signer) ==
  /\ d \in inUse
  /\ Approve(d, signer, [HeaderOf(d) EXCEPT !.bodyHash = {}])

Sign(d, signer) ==
  /\ d \in inUse
  /\ Approve(d, signer, deploys[d].hash)

(* A wallet signs a hash it was shown at any time, and the caller attaches *)
(* what it returns: setSignature does not verify it.                       *)
SetSignature(d, signer, signedHash) ==
  /\ d \in inUse
  /\ Approve(d, signer, signedHash)

(* Mutant: the JSON is not validated when it is read back. *)
FromJSON_Unchecked(d) ==
  /\ d \in inUse
  /\ made < MaxDeploys
  /\ made' = made + 1
  /\ headers' = [headers EXCEPT ![made + 1] = HeaderOf(d)]
  /\ sessions' = [sessions EXCEPT ![made + 1] = BodyOf(d)]
  /\ deploys' = [deploys EXCEPT ![made + 1] = [hash    |-> deploys[d].hash,
                                               header  |-> made + 1,
                                               session |-> made + 1]]
  /\ approvals' = [approvals EXCEPT ![made + 1] = approvals[d]]
  /\ inUse' = inUse \union {made + 1}
  /\ UNCHANGED transactions

(* fromJSON of a deploy's toJSON: a deep copy, refused unless it validates. *)
FromJSON(d) ==
  /\ d \in inUse
  /\ Valid(d)
  /\ made < MaxDeploys
  /\ made' = made + 1
  /\ headers' = [headers EXCEPT ![made + 1] = HeaderOf(d)]
  /\ sessions' = [sessions EXCEPT ![made + 1] = BodyOf(d)]
  /\ deploys' = [deploys EXCEPT ![made + 1] = [hash    |-> deploys[d].hash,
                                               header  |-> made + 1,
                                               session |-> made + 1]]
  /\ approvals' = [approvals EXCEPT ![made + 1] = approvals[d]]
  /\ inUse' = inUse \union {made + 1}
  /\ UNCHANGED transactions

NewTransactionFromDeploy(d) ==
  /\ d \in inUse
  /\ transactions' = transactions \union
                       {[hash |-> deploys[d].hash, originDeployV1 |-> d]}
  /\ UNCHANGED <<made, deploys, approvals, headers, sessions, inUse>>

(* Transaction.sign and Transaction.setSignature: the hash is that of the  *)
(* Transaction, the approval goes to the deploy.                           *)
TransactionSign(t, signer) ==
  /\ t.originDeployV1 \in inUse
  /\ Approve(t.originDeployV1, signer, t.hash)

Next ==
  \/ \E body \in Args : MakeDeploy(body)
  \/ \E d \in inUse :
       \/ \E name \in ArgNames, value \in Values : AddArgToDeploy(d, name, value)
       \/ \E signer \in Signers : Sign(d, signer)
       \/ \E signer \in Signers, e \in 1..made :
            SetSignature(d, signer, deploys[e].hash)
       \/ FromJSON(d)
       \/ NewTransactionFromDeploy(d)
  \/ \E t \in transactions, signer \in Signers : TransactionSign(t, signer)

Spec == Init /\ [][Next]_vars
-----------------------------------------------------------------------------
(* Properties *)

(* The variables keep their types. *)
TypeOK ==
  /\ made \in 0..MaxDeploys
  /\ deploys \in [Ids -> Deploy]
  /\ approvals \in [Ids -> SUBSET Approval]
  /\ headers \in [Ids -> Header]
  /\ sessions \in [Ids -> Args]
  /\ transactions \in SUBSET Transaction
  /\ inUse \in SUBSET (1..made)

(* The hash of a deploy that is in use is that of the header and the body  *)
(* it would be sent with, whatever was done to the objects it shares with  *)
(* deploys that were given up.                                             *)
HashesStayMatched == \A d \in inUse : HashesMatch(d)

(* What the SDK returns validates: a made deploy, one with an argument     *)
(* added, one read back from JSON.                                         *)
NewDeployIsValid ==
  [][\A d \in Ids : made < d /\ d <= made' => Valid(d)']_vars

(* What a signed deploy that is in use executes is what was signed: its    *)
(* arguments never change.                                                 *)
SignedNeverChanges ==
  [][\A d \in inUse : approvals[d] # {} => BodyOf(d)' = BodyOf(d)]_vars

(* A deploy that validates goes on validating until the caller attaches a  *)
(* signature of something else, also when its Transaction is signed.       *)
ValidStaysValid ==
  [][\A d \in inUse \intersect inUse' :
       Valid(d) => \/ Valid(d)'
                   \/ \E signer \in Signers, e \in 1..made :
                        /\ deploys[e].hash # deploys[d].hash
                        /\ SetSignature(d, signer, deploys[e].hash)]_vars
=============================================================================
