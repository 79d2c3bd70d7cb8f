------------------------ MODULE DeployLifecycle_proofs ------------------------
(***************************************************************************)
(* Proofs about DeployLifecycle, for every set of arguments, values and    *)
(* signers and every number of deploys, and for callers that give up a     *)
(* deploy that they passed to addArgToDeploy.                              *)
(***************************************************************************)
EXTENDS DeployLifecycle, TLAPS

(* No two deploys in use share an object, although deploys do share.       *)
Separated ==
  \A d, e \in inUse : \/ deploys[d].header = deploys[e].header
                      \/ deploys[d].session = deploys[e].session
                      => d = e

(* The objects of a deploy have been made; the next are not in use yet.    *)
Allocated ==
  /\ \A d \in 1..made : deploys[d].header \in 1..made /\ deploys[d].session \in 1..made
  /\ \A i \in Ids : i > made => approvals[i] = {}

(* The hash a Transaction signs is that of the deploy it signs for.        *)
TransactionsMatch ==
  \A t \in transactions : t.hash = deploys[t.originDeployV1].hash
                          /\ t.originDeployV1 \in 1..made

IInv == /\ TypeOK
        /\ HashesStayMatched
        /\ Separated
        /\ Allocated
        /\ TransactionsMatch
(* What a step that makes a deploy makes validates. *)
MakesValid == \A d \in Ids : made < d /\ d <= made' => Valid(d)'
-----------------------------------------------------------------------------
LEMMA InsertArgs ==
  ASSUME NEW args \in Args, NEW name \in ArgNames, NEW value \in Values
  PROVE  Insert(args, name, value) \in Args
BY DEF Insert, Args

LEMMA InitInv == Init => IInv
<1> SUFFICES ASSUME Init PROVE IInv
  OBVIOUS
<1>1. NewHeader \in Header
  BY DeployAssumption DEF NewHeader, Header, Args
<1>2. TypeOK
  <2>1. deploys \in [Ids -> Deploy]
    BY <1>1 DEF Init, Deploy
  <2>2. headers \in [Ids -> Header]
    BY <1>1 DEF Init
  <2>3. sessions \in [Ids -> Args]
    BY DEF Init, Args
  <2>4. approvals \in [Ids -> SUBSET Approval]
    BY DEF Init
  <2>5. made \in 0..MaxDeploys
    BY DeployAssumption DEF Init
  <2> QED BY <2>1, <2>2, <2>3, <2>4, <2>5 DEF Init, TypeOK
<1>3. HashesStayMatched /\ Separated /\ Allocated /\ TransactionsMatch
  BY DEF Init, HashesStayMatched, Separated, Allocated, TransactionsMatch
<1> QED BY <1>2, <1>3 DEF IInv

(* Deploys in use have been made. *)
LEMMA InUseMade ==
  ASSUME IInv, NEW d \in inUse
  PROVE  /\ d \in 1..made /\ d \in Ids
         /\ deploys[d].header \in 1..made /\ deploys[d].header \in Ids
         /\ deploys[d].session \in 1..made /\ deploys[d].session \in Ids
         /\ HeaderOf(d) \in Header /\ BodyOf(d) \in Args
<1>1. d \in 1..made /\ 1..made \subseteq Ids
  BY DeployAssumption DEF IInv, TypeOK, Ids
<1>2. deploys[d].header \in 1..made /\ deploys[d].session \in 1..made
  BY <1>1 DEF IInv, Allocated
<1> QED BY <1>1, <1>2 DEF IInv, TypeOK, HeaderOf, BodyOf

LEMMA HashesTyped == IInv => \A d \in 1..made : deploys[d].hash \in Header
BY DeployAssumption DEF IInv, TypeOK, Ids, Deploy

(* makeDeploy keeps the invariant, and what it returns validates, when no  *)
(* other deploy in use refers to the header and the session it is given.   *)
LEMMA MakeDeployOfInv ==
  ASSUME IInv, NEW header \in 1..(made + 1), NEW fields \in 0..MaxDeploys,
         NEW session \in 1..(made + 1), NEW body \in Args,
         MakeDeployOf(header, fields, session, body),
         inUse' \subseteq inUse \union {made + 1},
         \A d \in inUse' \ {made + 1} : /\ deploys[d].header # header
                                        /\ deploys[d].session # session
  PROVE  IInv' /\ MakesValid
<1> USE DEF MakeDeployOf
<1>0. PICK new \in Ids : new = made + 1
  BY DeployAssumption DEF IInv, TypeOK, Ids
<1>1. /\ made \in Nat /\ header \in Ids /\ session \in Ids
      /\ made' = new /\ new = made + 1
  BY <1>0, DeployAssumption DEF IInv, TypeOK, Ids
<1>2. [fields |-> fields, bodyHash |-> body] \in Header
  BY DeployAssumption DEF Header
<1>3. /\ deploys'[new].header = header /\ deploys'[new].session = session
      /\ deploys'[new].hash = [fields |-> fields, bodyHash |-> body]
  BY <1>1 DEF IInv, TypeOK
<1>4. \A d \in Ids : d # new => deploys'[d] = deploys[d]
  BY <1>1 DEF IInv, TypeOK
<1>5. Valid(new)'
  <2>1. /\ headers'[header] = [fields |-> fields, bodyHash |-> body]
        /\ sessions'[session] = body
    BY <1>1 DEF IInv, TypeOK
  <2>2. approvals'[new] = {}
    BY <1>1 DEF IInv, Allocated
  <2>3. HashesMatch(new)'
    BY <1>3, <2>1 DEF HashesMatch, HeaderOf, BodyOf
  <2>4. SignaturesMatch(new)'
    BY <2>2 DEF SignaturesMatch
  <2> QED BY <2>3, <2>4 DEF Valid
<1>6. TypeOK'
  <2>1. deploys' \in [Ids -> Deploy]
    BY <1>1, <1>2 DEF IInv, TypeOK, Deploy
  <2>2. headers' \in [Ids -> Header]
    BY <1>2 DEF IInv, TypeOK
  <2>3. sessions' \in [Ids -> Args]
    BY DEF IInv, TypeOK
  <2>4. made' \in 0..MaxDeploys /\ inUse' \in SUBSET (1..made')
    BY <1>1 DEF IInv, TypeOK, Ids
  <2> QED BY <2>1, <2>2, <2>3, <2>4 DEF IInv, TypeOK
<1>7. ASSUME NEW d \in inUse', d # new
      PROVE  /\ d \in inUse /\ d \in Ids /\ deploys'[d] = deploys[d]
             /\ deploys[d].header # header /\ deploys[d].session # session
  BY <1>1, <1>4, <1>7, InUseMade
<1>8. HashesStayMatched'
  <2>1. ASSUME NEW d \in inUse', d # new PROVE HashesMatch(d)'
    <3>1. headers'[deploys[d].header] = headers[deploys[d].header]
      BY <1>7, <2>1, InUseMade DEF IInv, TypeOK
    <3>2. sessions'[deploys[d].session] = sessions[deploys[d].session]
      BY <1>7, <2>1, InUseMade DEF IInv, TypeOK
    <3>3. HashesMatch(d) /\ deploys'[d] = deploys[d]
      BY <1>7, <2>1 DEF IInv, HashesStayMatched
    <3> QED BY <3>1, <3>2, <3>3 DEF HashesMatch, HeaderOf, BodyOf
  <2> QED BY <1>5, <2>1 DEF HashesStayMatched, Valid
<1>9. Separated'
  BY <1>3, <1>7 DEF IInv, Separated
<1>10. Allocated'
  <2>1. ASSUME NEW d \in 1..made'
        PROVE  deploys'[d].header \in 1..made' /\ deploys'[d].session \in 1..made'
    BY <1>1, <1>3, <1>4 DEF IInv, Allocated, Ids
  <2>2. ASSUME NEW i \in Ids, i > made' PROVE approvals'[i] = {}
    BY <1>1, <2>2 DEF IInv, Allocated, Ids
  <2> QED BY <2>1, <2>2 DEF Allocated
<1>11. TransactionsMatch'
  BY <1>1, <1>4 DEF IInv, TransactionsMatch, Ids
<1>12. MakesValid
  BY <1>1, <1>5 DEF MakesValid, Ids
<1> QED BY <1>12, <1>6, <1>8, <1>9, <1>10, <1>11 DEF IInv

LEMMA MakeDeployInv ==
  ASSUME IInv, NEW body \in Args, MakeDeploy(body)
  PROVE  IInv' /\ MakesValid
<1>1. made \in Nat /\ made + 1 \in 1..(made + 1) /\ made + 1 \in 1..MaxDeploys
  BY DeployAssumption DEF IInv, TypeOK, MakeDeploy, MakeDeployOf
<1>2. \A d \in inUse' \ {made + 1} : /\ deploys[d].header # made + 1
                                     /\ deploys[d].session # made + 1
  BY <1>1, InUseMade DEF MakeDeploy
<1> QED BY <1>1, <1>2, MakeDeployOfInv DEF MakeDeploy

LEMMA AddArgToDeployInv ==
  ASSUME IInv, ~KeepsOld, NEW d \in inUse, NEW name \in ArgNames,
         NEW value \in Values, AddArgToDeploy(d, name, value)
  PROVE  IInv' /\ MakesValid
<1> DEFINE header  == deploys[d].header
           session == deploys[d].session
           body    == Insert(BodyOf(d), name, value)
<1>1. /\ made \in Nat /\ header \in 1..(made + 1) /\ session \in 1..(made + 1)
      /\ body \in Args
  BY InUseMade, InsertArgs, DeployAssumption DEF IInv, TypeOK
<1>2. HeaderOf(d).fields \in 0..MaxDeploys
  BY InUseMade DEF Header
<1>3. \A e \in inUse' \ {made + 1} : /\ deploys[e].header # header
                                     /\ deploys[e].session # session
  BY InUseMade DEF AddArgToDeploy, IInv, Separated
<1> QED BY <1>1, <1>2, <1>3, MakeDeployOfInv DEF AddArgToDeploy

LEMMA FromJSONInv ==
  ASSUME IInv, NEW d \in inUse, FromJSON(d)
  PROVE  IInv' /\ MakesValid
<1> USE DEF FromJSON
<1>1. PICK new \in Ids : new = made + 1
  BY DeployAssumption DEF IInv, TypeOK, Ids
<1>2. /\ made \in Nat /\ made' = new /\ d \in Ids /\ d # new
      /\ HeaderOf(d) \in Header /\ BodyOf(d) \in Args
  BY <1>1, InUseMade DEF IInv, TypeOK
<1>3. /\ deploys'[new].header = new /\ deploys'[new].session = new
      /\ deploys'[new].hash = deploys[d].hash
      /\ headers'[new] = HeaderOf(d) /\ sessions'[new] = BodyOf(d)
      /\ approvals'[new] = approvals[d]
  BY <1>1 DEF IInv, TypeOK
<1>4. \A i \in Ids : i # new => /\ deploys'[i] = deploys[i]
                               /\ headers'[i] = headers[i]
                               /\ sessions'[i] = sessions[i]
                               /\ approvals'[i] = approvals[i]
  BY <1>1 DEF IInv, TypeOK
<1>5. Valid(new)'
  <2>1. HashesMatch(new)'
    BY <1>3 DEF Valid, HashesMatch, HeaderOf, BodyOf
  <2>2. SignaturesMatch(new)'
    BY <1>3 DEF Valid, SignaturesMatch
  <2> QED BY <2>1, <2>2 DEF Valid
<1>6. TypeOK'
  <2>1. deploys' \in [Ids -> Deploy]
    BY <1>1, <1>2 DEF IInv, TypeOK, Deploy
  <2>2. headers' \in [Ids -> Header] /\ sessions' \in [Ids -> Args]
    BY <1>2 DEF IInv, TypeOK
  <2>3. approvals' \in [Ids -> SUBSET Approval]
    BY <1>2 DEF IInv, TypeOK
  <2>4. made' \in 0..MaxDeploys /\ inUse' \in SUBSET (1..made')
    BY <1>1, <1>2 DEF IInv, TypeOK, Ids
  <2> QED BY <2>1, <2>2, <2>3, <2>4 DEF IInv, TypeOK
<1>7. ASSUME NEW e \in inUse', e # new
      PROVE  /\ e \in inUse /\ e \in Ids /\ deploys'[e] = deploys[e]
             /\ deploys[e].header \in Ids \ {new}
             /\ deploys[e].session \in Ids \ {new}
  <2>1. e \in inUse
    BY <1>1, <1>7
  <2>2. /\ e \in Ids /\ deploys[e].header \in 1..made
        /\ deploys[e].header \in Ids /\ deploys[e].session \in 1..made
        /\ deploys[e].session \in Ids
    BY <2>1, InUseMade
  <2> QED BY <1>1, <1>2, <1>4, <1>7, <2>1, <2>2
<1>8. HashesStayMatched'
  <2>1. ASSUME NEW e \in inUse', e # new PROVE HashesMatch(e)'
    BY <1>4, <1>7, <2>1 DEF IInv, HashesStayMatched, HashesMatch, HeaderOf, BodyOf
  <2> QED BY <1>5, <2>1 DEF HashesStayMatched, Valid
<1>9. Separated'
  BY <1>3, <1>7 DEF IInv, Separated
<1>10. Allocated'
  <2>1. ASSUME NEW e \in 1..made'
        PROVE  deploys'[e].header \in 1..made' /\ deploys'[e].session \in 1..made'
    BY <1>1, <1>2, <1>3, <1>4 DEF IInv, Allocated, Ids
  <2>2. ASSUME NEW i \in Ids, i > made' PROVE approvals'[i] = {}
    BY <1>1, <1>2, <1>4, <2>2 DEF IInv, Allocated, Ids
  <2> QED BY <2>1, <2>2 DEF Allocated
<1>11. TransactionsMatch'
  BY <1>1, <1>2, <1>4 DEF IInv, TransactionsMatch, Ids
<1>12. MakesValid
  BY <1>1, <1>2, <1>5 DEF MakesValid, Ids
<1> QED BY <1>6, <1>8, <1>9, <1>10, <1>11, <1>12 DEF IInv

LEMMA ApproveInv ==
  ASSUME IInv, NEW d \in inUse, NEW signer \in Signers,
         NEW signedHash \in Header, Approve(d, signer, signedHash)
  PROVE  IInv'
<1> USE DEF Approve
<1>1. d \in Ids /\ d \in 1..made
  BY InUseMade
<1>2. TypeOK'
  BY <1>1 DEF IInv, TypeOK, Approval
<1>3. HashesStayMatched' /\ Separated'
  BY DEF IInv, HashesStayMatched, HashesMatch, HeaderOf, BodyOf, Separated
<1>4. Allocated'
  BY <1>1, DeployAssumption DEF IInv, TypeOK, Allocated, Ids
<1>5. TransactionsMatch'
  BY DEF IInv, TransactionsMatch
<1> QED BY <1>2, <1>3, <1>4, <1>5 DEF IInv

LEMMA NewTransactionInv ==
  ASSUME IInv, NEW d \in inUse, NewTransactionFromDeploy(d)
  PROVE  IInv'
<1> USE DEF NewTransactionFromDeploy
<1>1. d \in Ids /\ d \in 1..made
  BY InUseMade
<1>2. TypeOK'
  BY <1>1 DEF IInv, TypeOK, Transaction, Deploy
<1>3. HashesStayMatched' /\ Separated' /\ Allocated'
  BY DEF IInv, HashesStayMatched, HashesMatch, HeaderOf, BodyOf, Separated,
         Allocated
<1>4. TransactionsMatch'
  BY <1>1 DEF IInv, TransactionsMatch
<1> QED BY <1>2, <1>3, <1>4 DEF IInv

LEMMA StepInv ==
  ASSUME IInv, ~KeepsOld, Next
  PROVE  IInv' /\ MakesValid
<1>1. ASSUME NEW body \in Args, MakeDeploy(body) PROVE IInv' /\ MakesValid
  BY <1>1, MakeDeployInv
<1>2. ASSUME NEW d \in inUse, NEW name \in ArgNames, NEW value \in Values,
             AddArgToDeploy(d, name, value)
      PROVE  IInv' /\ MakesValid
  BY <1>2, AddArgToDeployInv
<1>3. ASSUME NEW d \in inUse, FromJSON(d) PROVE IInv' /\ MakesValid
  BY <1>3, FromJSONInv
<1>4. ASSUME made' = made PROVE MakesValid
  BY <1>4 DEF MakesValid, Ids, IInv, TypeOK
<1>5. ASSUME NEW d \in inUse, NEW signer \in Signers,
             Sign(d, signer) \/ \E e \in 1..made :
                                  SetSignature(d, signer, deploys[e].hash)
      PROVE  IInv' /\ MakesValid
  <2>1. \A e \in 1..made : deploys[e].hash \in Header
    BY HashesTyped
  <2>2. deploys[d].hash \in Header
    BY <2>1, InUseMade
  <2>3. IInv'
    BY <1>5, <2>1, <2>2, ApproveInv DEF Sign, SetSignature
  <2>4. made' = made
    BY <1>5 DEF Sign, SetSignature, Approve
  <2> QED BY <1>4, <2>3, <2>4
<1>6. ASSUME NEW d \in inUse, NewTransactionFromDeploy(d)
      PROVE  IInv' /\ MakesValid
  BY <1>4, <1>6, NewTransactionInv DEF NewTransactionFromDeploy
<1>7. ASSUME NEW t \in transactions, NEW signer \in Signers,
             TransactionSign(t, signer)
      PROVE  IInv' /\ MakesValid
  <2>1. t.originDeployV1 \in inUse /\ t.hash \in Header
    BY <1>7 DEF TransactionSign, IInv, TypeOK, Transaction
  <2>2. IInv'
    BY <1>7, <2>1, ApproveInv DEF TransactionSign
  <2>3. made' = made
    BY <1>7 DEF TransactionSign, Approve
  <2> QED BY <1>4, <2>2, <2>3
<1> QED BY <1>1, <1>2, <1>3, <1>5, <1>6, <1>7 DEF Next

LEMMA StutterInv == IInv /\ UNCHANGED vars => IInv'
BY DEF vars, IInv, TypeOK, HashesStayMatched, HashesMatch, HeaderOf, BodyOf,
       Separated, Allocated, TransactionsMatch
-----------------------------------------------------------------------------
(* The theorems are about callers that give up the deploy they passed to   *)
(* addArgToDeploy.                                                         *)
THEOREM Invariance ==
  ASSUME ~KeepsOld
  PROVE  Spec => []IInv
<1>1. IInv /\ [Next]_vars => IInv'
  BY StepInv, StutterInv
<1> QED BY <1>1, InitInv, PTL DEF Spec

(* Every variable keeps its type. *)
THEOREM TypeCorrect ==
  ASSUME ~KeepsOld
  PROVE  Spec => []TypeOK
<1>1. IInv => TypeOK
  BY DEF IInv
<1> QED BY <1>1, Invariance, PTL

(* The hash of a deploy that is in use is that of what it would send.      *)
THEOREM HashesAlwaysMatch ==
  ASSUME ~KeepsOld
  PROVE  Spec => []HashesStayMatched
<1>1. IInv => HashesStayMatched
  BY DEF IInv
<1> QED BY <1>1, Invariance, PTL

(* makeDeploy, addArgToDeploy and fromJSON return deploys that validate.   *)
THEOREM MakingIsSound ==
  ASSUME ~KeepsOld
  PROVE  Spec => NewDeployIsValid
<1>1. IInv /\ [Next]_vars => [MakesValid]_vars
  BY StepInv
<1>2. Spec => [][MakesValid]_vars
  BY <1>1, Invariance, PTL DEF Spec
<1> QED BY <1>2 DEF NewDeployIsValid, MakesValid
-----------------------------------------------------------------------------
(* Making a deploy leaves a deploy alone that stays in use: its fields, its *)
(* approvals and its body.                                                 *)
LEMMA MakingLeavesAlone ==
  ASSUME IInv, NEW d \in inUse, NEW header, NEW fields, NEW session, NEW body,
         \/ MakeDeployOf(header, fields, session, body)
         \/ \E e \in inUse : FromJSON(e) /\ session = made + 1,
         deploys[d].session # session
  PROVE  /\ deploys'[d] = deploys[d] /\ approvals'[d] = approvals[d]
         /\ BodyOf(d)' = BodyOf(d)
<1>1. d \in Ids /\ deploys[d].session \in Ids /\ d # made + 1
  BY InUseMade DEF IInv, TypeOK
<1>2. deploys'[d] = deploys[d] /\ approvals'[d] = approvals[d]
  BY <1>1 DEF MakeDeployOf, FromJSON, IInv, TypeOK
<1>3. sessions'[deploys[d].session] = sessions[deploys[d].session]
  BY <1>1 DEF MakeDeployOf, FromJSON, IInv, TypeOK
<1> QED BY <1>2, <1>3 DEF BodyOf

(* A step of the whole: which deploy it may change, and how.               *)
LEMMA StepEffect ==
  ASSUME IInv, ~KeepsOld, [Next]_vars, NEW d \in inUse
  PROVE  /\ d \in inUse' => deploys'[d] = deploys[d]
         /\ approvals[d] # {} => BodyOf(d)' = BodyOf(d)
         /\ d \in inUse' => \/ approvals'[d] = approvals[d]
                            \/ \E signer \in Signers, h \in Header :
                                 /\ Approve(d, signer, h)
                                 /\ \/ h = deploys[d].hash
                                    \/ \E e \in 1..made :
                                         /\ h = deploys[e].hash
                                         /\ SetSignature(d, signer, h)
<1>1. d \in Ids /\ d \in 1..made /\ deploys[d].session \in 1..made /\ made \in Nat
  BY InUseMade DEF IInv, TypeOK
<1>2. ASSUME NEW body \in Args, MakeDeploy(body)
      PROVE  /\ deploys'[d] = deploys[d] /\ approvals'[d] = approvals[d]
             /\ BodyOf(d)' = BodyOf(d)
  BY <1>1, <1>2, MakingLeavesAlone DEF MakeDeploy
<1>3. ASSUME NEW e \in inUse, FromJSON(e)
      PROVE  /\ deploys'[d] = deploys[d] /\ approvals'[d] = approvals[d]
             /\ BodyOf(d)' = BodyOf(d)
  BY <1>1, <1>3, MakingLeavesAlone
<1>4. ASSUME NEW e \in inUse, NEW name \in ArgNames, NEW value \in Values,
             AddArgToDeploy(e, name, value), d # e
      PROVE  /\ deploys'[d] = deploys[d] /\ approvals'[d] = approvals[d]
             /\ BodyOf(d)' = BodyOf(d)
  <2>1. deploys[d].session # deploys[e].session
    BY <1>4 DEF IInv, Separated
  <2> QED BY <1>4, <2>1, MakingLeavesAlone DEF AddArgToDeploy
<1>5. ASSUME NEW name \in ArgNames, NEW value \in Values,
             AddArgToDeploy(d, name, value)
      PROVE  approvals[d] = {} /\ d \notin inUse'
  BY <1>1, <1>5 DEF AddArgToDeploy
<1>6. ASSUME NEW e \in inUse, NEW signer \in Signers, NEW h \in Header,
             Approve(e, signer, h)
      PROVE  /\ deploys'[d] = deploys[d] /\ BodyOf(d)' = BodyOf(d)
             /\ e # d => approvals'[d] = approvals[d]
  BY <1>1, <1>6 DEF Approve, BodyOf, IInv, TypeOK
<1>7. CASE \E e \in inUse, signer \in Signers :
             \/ Sign(e, signer)
             \/ \E f \in 1..made : SetSignature(e, signer, deploys[f].hash)
  <2>1. \A f \in 1..made : deploys[f].hash \in Header
    BY HashesTyped
  <2>2. PICK e \in inUse, signer \in Signers, f \in 1..made :
           /\ Approve(e, signer, deploys[f].hash)
           /\ f = e \/ SetSignature(e, signer, deploys[f].hash)
    <3>1. ASSUME NEW e \in inUse, NEW signer \in Signers, Sign(e, signer)
          PROVE  e \in 1..made /\ Approve(e, signer, deploys[e].hash)
      BY <3>1, InUseMade DEF Sign
    <3>2. ASSUME NEW e \in inUse, NEW signer \in Signers, NEW f \in 1..made,
                 SetSignature(e, signer, deploys[f].hash)
          PROVE  Approve(e, signer, deploys[f].hash)
      BY <3>2 DEF SetSignature
    <3> QED BY <1>7, <3>1, <3>2
  <2>3. deploys[f].hash \in Header
    BY <2>1
  <2>4. /\ deploys'[d] = deploys[d] /\ BodyOf(d)' = BodyOf(d)
        /\ e # d => approvals'[d] = approvals[d]
    BY <1>6, <2>2, <2>3
  <2> QED BY <2>2, <2>3, <2>4
<1>8. CASE \E t \in transactions, signer \in Signers : TransactionSign(t, signer)
  <2>1. PICK t \in transactions, signer \in Signers :
           /\ Approve(t.originDeployV1, signer, t.hash)
           /\ t.originDeployV1 \in inUse
    BY <1>8 DEF TransactionSign
  <2>2. t.hash \in Header /\ t.hash = deploys[t.originDeployV1].hash
    BY DEF IInv, TypeOK, Transaction, TransactionsMatch
  <2> QED BY <1>6, <2>1, <2>2
<1>9. CASE UNCHANGED vars \/ \E e \in inUse : NewTransactionFromDeploy(e)
  BY <1>9 DEF vars, NewTransactionFromDeploy, BodyOf
<1> QED BY <1>2, <1>3, <1>4, <1>5, <1>7, <1>8, <1>9 DEF Next

(* The arguments of a signed deploy never change. *)
THEOREM SignedIsFrozen ==
  ASSUME ~KeepsOld
  PROVE  Spec => SignedNeverChanges
<1>1. IInv /\ [Next]_vars
        => [\A d \in inUse : approvals[d] # {} => BodyOf(d)' = BodyOf(d)]_vars
  BY StepEffect
<1> QED BY <1>1, Invariance, PTL DEF Spec, SignedNeverChanges

(* A deploy that validates goes on validating, until the caller attaches   *)
(* a signature of something else.                                          *)
THEOREM ValidityIsStable ==
  ASSUME ~KeepsOld
  PROVE  Spec => ValidStaysValid
<1> DEFINE Stable ==
      \A d \in inUse \intersect inUse' :
        Valid(d) => \/ Valid(d)'
                    \/ \E signer \in Signers, e \in 1..made :
                         /\ deploys[e].hash # deploys[d].hash
                         /\ SetSignature(d, signer, deploys[e].hash)
<1>1. IInv /\ [Next]_vars => Stable
  <2> SUFFICES ASSUME IInv, [Next]_vars, NEW d \in inUse, d \in inUse', Valid(d)
               PROVE  \/ Valid(d)'
                      \/ \E signer \in Signers, e \in 1..made :
                           /\ deploys[e].hash # deploys[d].hash
                           /\ SetSignature(d, signer, deploys[e].hash)
    OBVIOUS
  <2>1. HashesMatch(d)'
    BY StepInv, StutterInv DEF IInv, HashesStayMatched
  <2>2. deploys'[d] = deploys[d] /\ d \in Ids
    BY StepEffect, InUseMade
  <2>3. CASE approvals'[d] = approvals[d]
    BY <2>1, <2>2, <2>3 DEF Valid, SignaturesMatch
  <2>4. ASSUME NEW signer \in Signers, Approve(d, signer, deploys[d].hash)
        PROVE  Valid(d)'
    <3>1. \A a \in approvals'[d] : a \in approvals[d] \/ a.signedHash = deploys[d].hash
      BY <2>2, <2>4 DEF Approve, IInv, TypeOK
    <3> QED BY <2>1, <2>2, <3>1 DEF Valid, SignaturesMatch
  <2> QED BY <2>3, <2>4, StepEffect
<1>2. IInv /\ [Next]_vars => [Stable]_vars
  BY <1>1
<1>3. Spec => [][Stable]_vars
  BY <1>2, Invariance, PTL DEF Spec
<1> QED BY <1>3 DEF ValidStaysValid
=============================================================================
