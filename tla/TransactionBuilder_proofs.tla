----------------------- MODULE TransactionBuilder_proofs -----------------------
(***************************************************************************)
(* Proofs about TransactionBuilder, for every class of builder, any sets   *)
(* of accounts, values, contracts, payments and ids, any number of calls.  *)
(***************************************************************************)
EXTENDS TransactionBuilder, TLAPS

(* What the builder refers to has been made, and so has what it built from. *)
Made ==
  /\ builder.initiatorAddr \in 0..made
  /\ builder.runtimeArgs \in 0..made
  /\ builder.invocationTarget \in 0..made
  /\ \A t \in built : t.addr \in 0..made /\ t.args \in 0..made /\ t.target \in 0..made

(* The objects of a class, and which of them the kind of builder has. *)
Shapes ==
  /\ \A r \in Refs : \/ heap.addrs[r].publicKey = Unset
                     \/ heap.addrs[r].accountHash = Unset
  /\ kind \in TakesArgs => \A r \in Refs : heap.args[r].recipient = Unset
  /\ heap.targets[0] = NoTarget
  /\ kind # "NativeTransfer" => builder.target = Unset
  /\ kind # "Session" => builder.isInstallOrUpgrade = FALSE

(* The fields of the builder are what was asked for. *)
Tracks ==
  /\ builder.initiatorAddr # 0 => /\ Initiator \in Serializable
                                  /\ AccountOf(Initiator) = asked.initiator
  /\ builder.payment = asked.payment
  /\ builder.contractHash = asked.contractHash
  /\ builder.terms = asked.terms
  /\ builder.idTransfer = asked.id
  /\ builder.target = asked.recipient
  /\ asked.byKey => builder.publicKey = builder.target
  /\ heap.targets[builder.invocationTarget].code = asked.code
  /\ builder.isInstallOrUpgrade = asked.install
  /\ \/ heap.targets[builder.invocationTarget].isInstallUpgrade = asked.install
     \/ kind = "Session" /\ builder.invocationTarget = 0

(* Native arguments belong to one transaction and are never changed. *)
NativeArgsKept ==
  kind \notin TakesArgs =>
    \A t \in built : t.args # 0 /\ heap.args[t.args] = t.hash.args

IInv == TypeOK /\ Made /\ Shapes /\ Tracks /\ NativeArgsKept
        /\ SaysWhatWasAsked /\ DelegatesOwnStake
-----------------------------------------------------------------------------
(* Replacing one object of the heap leaves the others as they are. *)
LEMMA PutAddr ==
  ASSUME heap \in Heap, NEW r \in Refs, NEW x \in InitiatorAddr
  PROVE  LET h == [heap EXCEPT !.addrs[r] = x]
         IN  /\ h \in Heap /\ h.args = heap.args /\ h.targets = heap.targets
             /\ h.addrs = [heap.addrs EXCEPT ![r] = x]
BY DEF Heap

LEMMA PutArgs ==
  ASSUME heap \in Heap, NEW r \in Refs, NEW x \in Args
  PROVE  LET h == [heap EXCEPT !.args[r] = x]
         IN  /\ h \in Heap /\ h.addrs = heap.addrs /\ h.targets = heap.targets
             /\ h.args = [heap.args EXCEPT ![r] = x]
BY DEF Heap

LEMMA PutTarget ==
  ASSUME heap \in Heap, NEW r \in Refs, NEW x \in TransactionTarget
  PROVE  LET h == [heap EXCEPT !.targets[r] = x]
         IN  /\ h \in Heap /\ h.addrs = heap.addrs /\ h.args = heap.args
             /\ h.targets = [heap.targets EXCEPT ![r] = x]
BY DEF Heap

LEMMA InitInv == Init => IInv
<1> SUFFICES ASSUME Init PROVE IInv
  OBVIOUS
<1> USE BuilderAssumption DEF Init
<1>1. 0 \in Refs
  BY DEF Refs
<1>2. heap \in Heap
  BY DEF Heap, InitiatorAddr, Args, TransactionTarget, MaybeAccount, MaybeValue, MaybeHash,
         MaybeNat, NoAddr, NoArgs, NoTarget, Code, Only
<1>3. TypeOK
  <2>1. builder \in Builder
    BY <1>1 DEF Builder, MaybeAccount, MaybeValue, MaybeHash, MaybeNat, MaybePayment
  <2>2. asked \in Asked
    BY DEF Asked, MaybeAccount, MaybeValue, MaybeHash, MaybeNat, MaybePayment, Code, Only
  <2> QED BY <1>2, <2>1, <2>2 DEF TypeOK
<1>4. Made /\ NativeArgsKept /\ SaysWhatWasAsked /\ DelegatesOwnStake
  BY DEF Made, NativeArgsKept, SaysWhatWasAsked, DelegatesOwnStake
<1>5. Shapes /\ Tracks
  BY <1>1 DEF Shapes, Tracks, NoAddr, NoArgs, NoTarget
<1> QED BY <1>3, <1>4, <1>5 DEF IInv

(* A call that is no build keeps the invariant when its own builder tracks *)
(* what was asked, and native arguments stay as they are.                  *)
LEMMA CallInv ==
  ASSUME IInv, NEW m \in {made, New}, NEW h \in Heap, NEW b \in Builder, NEW a \in Asked,
         CallWith(m, h, b, a), Shapes', Tracks',
         b.initiatorAddr \in 0..m, b.runtimeArgs \in 0..m, b.invocationTarget \in 0..m,
         kind \notin TakesArgs => h.args = heap.args
  PROVE  IInv'
<1> USE DEF CallWith
<1>1. TypeOK'
  BY BuilderAssumption DEF IInv, TypeOK, New
<1>2. Made'
  <2>1. made \in Nat /\ m \in Nat /\ made <= m
    BY BuilderAssumption DEF IInv, TypeOK, New
  <2> QED BY <2>1 DEF IInv, Made
<1>3. NativeArgsKept' /\ DelegatesOwnStake'
  <2>1. kind \in Staking => kind \notin TakesArgs
    BY DEF Staking, TakesArgs
  <2> QED BY <2>1 DEF IInv, NativeArgsKept, DelegatesOwnStake
<1>4. SaysWhatWasAsked'
  BY DEF IInv, SaysWhatWasAsked, Says, SaysPayment, SaysCode
<1> QED BY <1>1, <1>2, <1>3, <1>4 DEF IInv

(* The name of the next object is free. *)
LEMMA NewIsFree ==
  ASSUME IInv, calls < MaxCalls
  PROVE  /\ made \in Nat /\ New \in Nat /\ New \in Refs /\ New # 0 /\ New = made + 1
         /\ 0 \in Refs /\ 0..made \subseteq Refs /\ New \notin 0..made
         /\ 0..made \subseteq 0..New
BY BuilderAssumption DEF IInv, TypeOK, New, Refs

(* from and fromAccountHash *)
LEMMA InitiatorInv ==
  ASSUME IInv, NEW account \in Accounts, NEW x \in InitiatorAddr, AccountOf(x) = account,
         x.publicKey = Unset \/ x.accountHash = Unset,
         Make([heap EXCEPT !.addrs[New] = x],
              [builder EXCEPT !.initiatorAddr = New],
              [asked EXCEPT !.initiator = account])
  PROVE  IInv'
<1> DEFINE h == [heap EXCEPT !.addrs[New] = x]
           b == [builder EXCEPT !.initiatorAddr = New]
           a == [asked EXCEPT !.initiator = account]
<1>1. CallWith(New, h, b, a)
  BY DEF Make
<1>2. calls < MaxCalls
  BY <1>1 DEF CallWith
<1>3. /\ h \in Heap /\ h.args = heap.args /\ h.targets = heap.targets
      /\ h.addrs = [heap.addrs EXCEPT ![New] = x]
  BY <1>2, NewIsFree, PutAddr DEF IInv, TypeOK
<1>4. b \in Builder /\ a \in Asked
  BY <1>2, NewIsFree DEF IInv, TypeOK, Builder, Asked, MaybeAccount
<1>5. heap' = h /\ builder' = b /\ asked' = a /\ made' = New /\ kind' = kind
  BY <1>1 DEF CallWith
<1>6. /\ b.initiatorAddr = New /\ b.runtimeArgs = builder.runtimeArgs
      /\ b.invocationTarget = builder.invocationTarget /\ b.payment = builder.payment
      /\ b.contractHash = builder.contractHash /\ b.idTransfer = builder.idTransfer
      /\ b.terms = builder.terms /\ b.target = builder.target
      /\ b.publicKey = builder.publicKey
      /\ b.isInstallOrUpgrade = builder.isInstallOrUpgrade
  BY DEF IInv, TypeOK, Builder
<1>7. /\ a.initiator = account /\ a.payment = asked.payment
      /\ a.contractHash = asked.contractHash /\ a.id = asked.id /\ a.recipient = asked.recipient
      /\ a.byKey = asked.byKey /\ a.terms = asked.terms /\ a.code = asked.code
      /\ a.install = asked.install
  BY DEF IInv, TypeOK, Asked
<1>8. h.addrs[New] = x /\ \A r \in Refs : r # New => h.addrs[r] = heap.addrs[r]
  BY <1>2, <1>3, NewIsFree DEF IInv, TypeOK, Heap
<1>9. Shapes'
  BY <1>3, <1>5, <1>6, <1>8 DEF IInv, Shapes
<1>10. Tracks'
  <2>1. x \in Serializable
    BY BuilderAssumption DEF Serializable
  <2>2. Initiator' = x
    BY <1>5, <1>6, <1>8 DEF Initiator
  <2> QED BY <1>3, <1>5, <1>6, <1>7, <2>1, <2>2 DEF IInv, Tracks
<1>11. /\ New \in {made, New} /\ b.initiatorAddr \in 0..New /\ b.runtimeArgs \in 0..New
       /\ b.invocationTarget \in 0..New
  BY <1>2, <1>6, NewIsFree DEF IInv, Made
<1> HIDE DEF h, b, a
<1> QED BY <1>1, <1>3, <1>4, <1>9, <1>10, <1>11, CallInv

(* A setter that only changes fields of the builder. *)
LEMMA FieldsInv ==
  ASSUME IInv, NEW b \in Builder, NEW a \in Asked, Set(b, a),
         b.initiatorAddr = builder.initiatorAddr, b.runtimeArgs = builder.runtimeArgs,
         b.invocationTarget = builder.invocationTarget,
         b.isInstallOrUpgrade = builder.isInstallOrUpgrade,
         a.initiator = asked.initiator, a.code = asked.code, a.install = asked.install,
         b.payment = a.payment, b.contractHash = a.contractHash, b.terms = a.terms,
         b.idTransfer = a.id, b.target = a.recipient,
         a.byKey => b.publicKey = b.target,
         kind # "NativeTransfer" => b.target = builder.target
  PROVE  IInv'
<1>1. CallWith(made, heap, b, a)
  BY DEF Set
<1>2. heap' = heap /\ builder' = b /\ asked' = a /\ made' = made /\ kind' = kind
  BY <1>1 DEF CallWith
<1>3. Shapes'
  BY <1>2 DEF IInv, Shapes
<1>4. Tracks'
  BY <1>2 DEF IInv, Tracks, Initiator
<1>5. /\ b.initiatorAddr \in 0..made /\ b.runtimeArgs \in 0..made
      /\ b.invocationTarget \in 0..made
  BY DEF IInv, Made
<1> QED BY <1>1, <1>3, <1>4, <1>5, CallInv DEF IInv, TypeOK

LEMMA SettersInv ==
  ASSUME IInv,
         \/ \E payment \in Payments : Payment(payment)
         \/ \E contract \in Hashes : ContractHash(contract)
         \/ \E id \in Ids : Id(id)
         \/ \E value \in Values : SetTerms(value)
         \/ \E account \in Accounts : Target(account) \/ TargetAccountHash(account)
  PROVE  IInv'
<1> USE BuilderAssumption
        DEF IInv, TypeOK, Builder, Asked, MaybeAccount, MaybeValue, MaybeHash, MaybeNat,
            MaybePayment, Tracks
<1>1. ASSUME NEW payment \in Payments, Payment(payment) PROVE IInv'
  <2> DEFINE b == [builder EXCEPT !.payment = payment]
             a == [asked EXCEPT !.payment = payment]
  <2>1. Set(b, a)
    BY <1>1 DEF Payment
  <2> QED BY <2>1, FieldsInv
<1>5. ASSUME NEW contract \in Hashes, ContractHash(contract) PROVE IInv'
  <2> DEFINE b == [builder EXCEPT !.contractHash = contract]
             a == [asked EXCEPT !.contractHash = contract]
  <2>1. Set(b, a)
    BY <1>5 DEF ContractHash
  <2> QED BY <2>1, FieldsInv
<1>6. ASSUME NEW id \in Ids, Id(id) PROVE IInv'
  <2> DEFINE b == [builder EXCEPT !.idTransfer = id]
             a == [asked EXCEPT !.id = id]
  <2>1. Set(b, a)
    BY <1>6 DEF Id
  <2> QED BY <2>1, FieldsInv
<1>2. ASSUME NEW value \in Values, SetTerms(value) PROVE IInv'
  <2> DEFINE b == [builder EXCEPT !.terms = value]
             a == [asked EXCEPT !.terms = value]
  <2>1. Set(b, a)
    BY <1>2 DEF SetTerms
  <2> QED BY <2>1, FieldsInv
<1>3. ASSUME NEW account \in Accounts, Target(account) PROVE IInv'
  <2> DEFINE b == [builder EXCEPT !.target = account, !.publicKey = account]
             a == [asked EXCEPT !.recipient = account, !.byKey = TRUE]
  <2>1. Set(b, a) /\ kind = "NativeTransfer"
    BY <1>3 DEF Target
  <2>2. /\ b \in Builder /\ b.target = account /\ b.publicKey = account
        /\ b.initiatorAddr = builder.initiatorAddr /\ b.runtimeArgs = builder.runtimeArgs
        /\ b.invocationTarget = builder.invocationTarget /\ b.payment = builder.payment
      /\ b.contractHash = builder.contractHash /\ b.idTransfer = builder.idTransfer
        /\ b.terms = builder.terms /\ b.isInstallOrUpgrade = builder.isInstallOrUpgrade
    OBVIOUS
  <2>3. /\ a \in Asked /\ a.recipient = account
        /\ a.initiator = asked.initiator /\ a.payment = asked.payment
      /\ a.contractHash = asked.contractHash /\ a.id = asked.id /\ a.terms = asked.terms
        /\ a.code = asked.code /\ a.install = asked.install
    OBVIOUS
  <2> HIDE DEF b, a
  <2> QED BY <2>1, <2>2, <2>3, FieldsInv
<1>4. ASSUME NEW account \in Accounts, TargetAccountHash(account) PROVE IInv'
  <2> DEFINE b == [builder EXCEPT !.target = account]
             a == [asked EXCEPT !.recipient = account, !.byKey = FALSE]
  <2>1. Set(b, a) /\ kind = "NativeTransfer"
    BY <1>4 DEF TargetAccountHash
  <2>2. /\ b \in Builder /\ b.target = account
        /\ b.initiatorAddr = builder.initiatorAddr /\ b.runtimeArgs = builder.runtimeArgs
        /\ b.invocationTarget = builder.invocationTarget /\ b.payment = builder.payment
      /\ b.contractHash = builder.contractHash /\ b.idTransfer = builder.idTransfer
        /\ b.terms = builder.terms /\ b.isInstallOrUpgrade = builder.isInstallOrUpgrade
    OBVIOUS
  <2>3. /\ a \in Asked /\ a.recipient = account /\ a.byKey = FALSE
        /\ a.initiator = asked.initiator /\ a.payment = asked.payment
      /\ a.contractHash = asked.contractHash /\ a.id = asked.id /\ a.terms = asked.terms
        /\ a.code = asked.code /\ a.install = asked.install
    OBVIOUS
  <2> HIDE DEF b, a
  <2> QED BY <2>1, <2>2, <2>3, FieldsInv
<1> QED BY <1>1, <1>2, <1>3, <1>4, <1>5, <1>6

LEMMA ContractIsCode == Contracts \subseteq Code
BY BuilderAssumption DEF Code, MaybeHash, MaybeNat

LEMMA WasmIsCode == \A value \in Values : Only(value) \in Code
BY DEF Code, Only, MaybeValue, MaybeNat

(* byHash and its like, wasm *)
LEMMA CodeInv ==
  ASSUME IInv, NEW code \in Code, NEW x \in TransactionTarget,
         x.code = code, x.isInstallUpgrade = asked.install,
         Make([heap EXCEPT !.targets[New] = x],
              [builder EXCEPT !.invocationTarget = New],
              [asked EXCEPT !.code = code])
  PROVE  IInv'
<1> DEFINE h == [heap EXCEPT !.targets[New] = x]
           b == [builder EXCEPT !.invocationTarget = New]
           a == [asked EXCEPT !.code = code]
<1>1. CallWith(New, h, b, a)
  BY DEF Make
<1>2. calls < MaxCalls
  BY <1>1 DEF CallWith
<1>3. /\ h \in Heap /\ h.args = heap.args /\ h.addrs = heap.addrs
      /\ h.targets = [heap.targets EXCEPT ![New] = x]
  BY <1>2, NewIsFree, PutTarget DEF IInv, TypeOK
<1>4. b \in Builder /\ a \in Asked
  BY <1>2, NewIsFree DEF IInv, TypeOK, Builder, Asked, MaybeValue
<1>5. heap' = h /\ builder' = b /\ asked' = a /\ made' = New /\ kind' = kind
  BY <1>1 DEF CallWith
<1>6. /\ b.initiatorAddr = builder.initiatorAddr /\ b.runtimeArgs = builder.runtimeArgs
      /\ b.invocationTarget = New /\ b.payment = builder.payment
      /\ b.contractHash = builder.contractHash /\ b.idTransfer = builder.idTransfer
      /\ b.terms = builder.terms /\ b.target = builder.target
      /\ b.publicKey = builder.publicKey
      /\ b.isInstallOrUpgrade = builder.isInstallOrUpgrade
  BY DEF IInv, TypeOK, Builder
<1>7. /\ a.initiator = asked.initiator /\ a.payment = asked.payment
      /\ a.contractHash = asked.contractHash /\ a.id = asked.id
      /\ a.recipient = asked.recipient /\ a.byKey = asked.byKey /\ a.terms = asked.terms
      /\ a.code = code /\ a.install = asked.install
  BY DEF IInv, TypeOK, Asked
<1>8. h.targets[New] = x /\ h.targets[0] = heap.targets[0]
  BY <1>2, <1>3, NewIsFree DEF IInv, TypeOK, Heap
<1>9. Shapes'
  BY <1>3, <1>5, <1>6, <1>8 DEF IInv, Shapes
<1>10. Tracks'
  <2>1. Initiator' = Initiator
    BY <1>3, <1>5, <1>6 DEF Initiator
  <2> QED BY <1>5, <1>6, <1>7, <1>8, <2>1 DEF IInv, Tracks
<1>11. /\ New \in {made, New} /\ b.initiatorAddr \in 0..New /\ b.runtimeArgs \in 0..New
       /\ b.invocationTarget \in 0..New
  BY <1>2, <1>6, NewIsFree DEF IInv, Made
<1> HIDE DEF h, b, a
<1> QED BY <1>1, <1>3, <1>4, <1>9, <1>10, <1>11, CallInv

LEMMA InstallInv == ASSUME IInv, InstallOrUpgrade PROVE IInv'
<1> DEFINE ref == builder.invocationTarget
           x == [heap.targets[ref] EXCEPT !.isInstallUpgrade = TRUE]
           h == IF ref = 0 THEN heap ELSE [heap EXCEPT !.targets[ref].isInstallUpgrade = TRUE]
           b == [builder EXCEPT !.isInstallOrUpgrade = TRUE]
           a == [asked EXCEPT !.install = TRUE]
<1>1. CallWith(made, h, b, a) /\ kind = "Session"
  BY DEF InstallOrUpgrade
<1>2. calls < MaxCalls /\ ref \in Refs
  BY <1>1, NewIsFree DEF CallWith, IInv, Made
<1>3. x \in TransactionTarget /\ x.code = heap.targets[ref].code /\ x.isInstallUpgrade = TRUE
  BY <1>2 DEF IInv, TypeOK, Heap, TransactionTarget
<1>4. /\ h \in Heap /\ h.args = heap.args /\ h.addrs = heap.addrs
      /\ ref = 0 => h.targets = heap.targets
      /\ ref # 0 => h.targets = [heap.targets EXCEPT ![ref] = x]
  <2>1. [heap EXCEPT !.targets[ref].isInstallUpgrade = TRUE]
          = [heap EXCEPT !.targets[ref] = x]
    BY <1>2 DEF IInv, TypeOK, Heap, TransactionTarget
  <2> QED BY <1>2, <1>3, <2>1, PutTarget DEF IInv, TypeOK
<1>5. /\ b \in Builder /\ b.isInstallOrUpgrade = TRUE /\ b.invocationTarget = ref
      /\ b.initiatorAddr = builder.initiatorAddr /\ b.runtimeArgs = builder.runtimeArgs
      /\ b.payment = builder.payment
      /\ b.contractHash = builder.contractHash /\ b.idTransfer = builder.idTransfer
      /\ b.terms = builder.terms /\ b.target = builder.target
      /\ b.publicKey = builder.publicKey
  BY DEF IInv, TypeOK, Builder
<1>6. /\ a \in Asked /\ a.install = TRUE /\ a.initiator = asked.initiator
      /\ a.payment = asked.payment
      /\ a.contractHash = asked.contractHash /\ a.id = asked.id
      /\ a.recipient = asked.recipient /\ a.byKey = asked.byKey
      /\ a.terms = asked.terms /\ a.code = asked.code
  BY DEF IInv, TypeOK, Asked
<1>7. heap' = h /\ builder' = b /\ asked' = a /\ made' = made /\ kind' = kind
  BY <1>1 DEF CallWith
<1>8. /\ h.targets[ref].code = heap.targets[ref].code
      /\ ref # 0 => h.targets[ref].isInstallUpgrade = TRUE
      /\ h.targets[0] = heap.targets[0]
  BY <1>2, <1>3, <1>4 DEF IInv, TypeOK, Heap
<1> HIDE DEF h, b, a, x
<1>9. Shapes'
  BY <1>1, <1>4, <1>5, <1>7, <1>8 DEF IInv, Shapes
<1>10. Tracks'
  <2>1. Initiator' = Initiator
    BY <1>4, <1>5, <1>7 DEF Initiator
  <2> QED BY <1>1, <1>5, <1>6, <1>7, <1>8, <2>1 DEF IInv, Tracks
<1>11. /\ made \in {made, New} /\ b.initiatorAddr \in 0..made /\ b.runtimeArgs \in 0..made
       /\ b.invocationTarget \in 0..made
  BY <1>5 DEF IInv, Made
<1> QED BY <1>1, <1>4, <1>5, <1>6, <1>9, <1>10, <1>11, CallInv

(* runtimeArgs of a caller's new Args, Args.insert in one handed in before. *)
LEMMA ArgsInv ==
  ASSUME IInv, NEW m \in {made, New}, NEW ref \in Refs, NEW value \in Values,
         NEW b \in Builder, b \in {builder, [builder EXCEPT !.runtimeArgs = ref]},
         ref \in 0..m, kind \in TakesArgs,
         CallWith(m, [heap EXCEPT !.args[ref] = CallerArgs(value)], b, asked)
  PROVE  IInv'
<1> DEFINE h == [heap EXCEPT !.args[ref] = CallerArgs(value)]
<1>1. CallerArgs(value) \in Args /\ CallerArgs(value).recipient = Unset
  BY DEF CallerArgs, Args, NoArgs, MaybeAccount, MaybeValue, MaybeNat
<1>2. /\ h \in Heap /\ h.addrs = heap.addrs /\ h.targets = heap.targets
      /\ h.args = [heap.args EXCEPT ![ref] = CallerArgs(value)]
  BY <1>1, PutArgs DEF IInv, TypeOK
<1>3. /\ b.initiatorAddr = builder.initiatorAddr /\ b.runtimeArgs \in {builder.runtimeArgs, ref}
      /\ b.invocationTarget = builder.invocationTarget /\ b.payment = builder.payment
      /\ b.contractHash = builder.contractHash /\ b.idTransfer = builder.idTransfer
      /\ b.terms = builder.terms /\ b.target = builder.target
      /\ b.publicKey = builder.publicKey
      /\ b.isInstallOrUpgrade = builder.isInstallOrUpgrade
  BY DEF IInv, TypeOK, Builder
<1>4. \A r \in Refs : h.args[r] = CallerArgs(value) \/ h.args[r] = heap.args[r]
  BY <1>2 DEF IInv, TypeOK, Heap
<1>5. /\ heap' = h /\ builder' = b /\ asked' = asked /\ made' = m /\ kind' = kind
      /\ calls < MaxCalls
  BY DEF CallWith
<1> HIDE DEF h
<1>6. Shapes'
  BY <1>1, <1>2, <1>3, <1>4, <1>5 DEF IInv, Shapes
<1>7. Tracks'
  <2>1. Initiator' = Initiator
    BY <1>2, <1>3, <1>5 DEF Initiator
  <2> QED BY <1>2, <1>3, <1>5, <2>1 DEF IInv, Tracks
<1>8. /\ b.initiatorAddr \in 0..m /\ b.runtimeArgs \in 0..m /\ b.invocationTarget \in 0..m
  BY <1>3, <1>5, NewIsFree DEF IInv, Made
<1> QED BY <1>2, <1>5, <1>6, <1>7, <1>8, CallInv DEF IInv, TypeOK, h

(* A build keeps the invariant when what it adds says what was asked. *)
LEMMA FinishInv ==
  ASSUME IInv, NEW t \in Transaction, NEW ref \in {builder.runtimeArgs, ArgsRef},
         Finish(ref, t), Says(t),
         t.args = ArgsRef,
         t.addr \in {0, builder.initiatorAddr}, t.target \in {0, builder.invocationTarget},
         kind \in TakesArgs => t.hash.args = heap.args[builder.runtimeArgs],
         kind \in Staking => t.hash.args.delegator = AccountOf(t.hash.initiatorAddr)
  PROVE  IInv'
<1> DEFINE h == [heap EXCEPT !.args[t.args] = t.hash.args]
           b == [builder EXCEPT !.runtimeArgs = ref]
           m == IF kind \in TakesArgs THEN made ELSE New
<1>1. /\ heap' = h /\ builder' = b /\ asked' = asked /\ made' = m /\ kind' = kind
      /\ built' = built \union {t} /\ calls < MaxCalls /\ calls' = calls + 1
  BY DEF Finish
<1>2. t.args \in Refs /\ t.hash.args \in Args
  BY DEF Transaction, Payload
<1>3. /\ h \in Heap /\ h.addrs = heap.addrs /\ h.targets = heap.targets
      /\ h.args = [heap.args EXCEPT ![t.args] = t.hash.args]
  BY <1>2, PutArgs DEF IInv, TypeOK
<1>4. /\ b.initiatorAddr = builder.initiatorAddr /\ b.runtimeArgs = ref
      /\ b.invocationTarget = builder.invocationTarget /\ b.payment = builder.payment
      /\ b.contractHash = builder.contractHash /\ b.idTransfer = builder.idTransfer
      /\ b.terms = builder.terms /\ b.target = builder.target
      /\ b.publicKey = builder.publicKey
      /\ b.isInstallOrUpgrade = builder.isInstallOrUpgrade
  BY DEF IInv, TypeOK, Builder
<1>5. b \in Builder
  BY <1>1, NewIsFree DEF IInv, TypeOK, Builder, ArgsRef
<1>6. kind \in TakesArgs => h.args = heap.args
  BY <1>2, <1>3 DEF IInv, TypeOK, Heap, ArgsRef
<1>7. kind \notin TakesArgs => t.args = New /\ h.args[New] = t.hash.args
                               /\ \A r \in Refs \ {New} : h.args[r] = heap.args[r]
  BY <1>2, <1>3 DEF IInv, TypeOK, Heap, ArgsRef
<1> HIDE DEF h, b
<1>8. TypeOK'
  <2>1. calls' \in 0..MaxCalls /\ made' \in 0..calls'
    BY <1>1, BuilderAssumption DEF IInv, TypeOK, New
  <2> QED BY <1>1, <1>3, <1>5, <2>1 DEF IInv, TypeOK
<1>9. Made'
  <2>1. 0..made \subseteq 0..m /\ ArgsRef \in 0..m /\ ref \in 0..m
    BY <1>1, NewIsFree DEF IInv, Made, ArgsRef
  <2>2. t.addr \in 0..m /\ t.args \in 0..m /\ t.target \in 0..m
    BY <2>1, <1>1, NewIsFree DEF IInv, Made
  <2> HIDE DEF m
  <2> QED BY <1>1, <1>4, <2>1, <2>2 DEF IInv, Made
<1>10. Shapes'
  BY <1>1, <1>3, <1>4, <1>6 DEF IInv, Shapes
<1>11. Tracks'
  <2>1. Initiator' = Initiator
    BY <1>1, <1>3, <1>4 DEF Initiator
  <2> QED BY <1>1, <1>3, <1>4, <2>1 DEF IInv, Tracks
<1>12. NativeArgsKept'
  <2> SUFFICES ASSUME kind \notin TakesArgs, NEW u \in built \union {t}
               PROVE  u.args # 0 /\ h.args[u.args] = u.hash.args
    BY <1>1 DEF NativeArgsKept
  <2>1. CASE u = t
    BY <2>1, <1>1, <1>7, NewIsFree
  <2>2. CASE u \in built
    <3>1. u.args \in Refs \ {New}
      BY <2>2, <1>1, NewIsFree DEF IInv, Made
    <3> QED BY <2>2, <3>1, <1>7 DEF IInv, NativeArgsKept
  <2> QED BY <2>1, <2>2
<1>13. SaysWhatWasAsked'
  BY <1>1 DEF IInv, SaysWhatWasAsked, Says, SaysPayment, SaysCode
<1>14. DelegatesOwnStake'
  <2>1. kind \in Staking => kind \notin TakesArgs
    BY DEF Staking, TakesArgs
  <2> SUFFICES ASSUME kind \in Staking, NEW u \in built \union {t}
               PROVE  h.args[u.args].delegator = AccountOf(u.hash.initiatorAddr)
    BY <1>1 DEF DelegatesOwnStake
  <2>2. CASE u = t
    BY <2>1, <2>2, <1>7
  <2>3. CASE u \in built
    <3>1. u.args \in Refs \ {New}
      BY <2>3, <1>1, NewIsFree DEF IInv, Made
    <3> QED BY <2>1, <2>3, <3>1, <1>7 DEF IInv, DelegatesOwnStake
  <2> QED BY <2>2, <2>3
<1> QED BY <1>8, <1>9, <1>10, <1>11, <1>12, <1>13, <1>14 DEF IInv

LEMMA BuildArgs ==
  ASSUME IInv, Configured, NEW recipient \in MaybeAccount
  PROVE  /\ ArgsOf(recipient) \in Args
         /\ kind \in TakesArgs => /\ ArgsOf(recipient) = heap.args[builder.runtimeArgs]
                                  /\ ArgsOf(recipient).recipient = Unset
         /\ kind \notin TakesArgs => /\ ArgsOf(recipient).terms = builder.terms
                                     /\ ArgsOf(recipient).id = IfTruthy(builder.idTransfer)
                                     /\ ArgsOf(recipient).recipient = recipient
         /\ kind \in Staking => ArgsOf(recipient).delegator = Initiator.publicKey
<1>1. builder.runtimeArgs \in Refs /\ heap.args \in [Refs -> Args]
  BY DEF IInv, TypeOK, Builder, Heap
<1>2. /\ Initiator \in InitiatorAddr /\ builder.terms \in MaybeValue
      /\ IfTruthy(builder.idTransfer) \in MaybeNat
  BY DEF IInv, TypeOK, Builder, Heap, Initiator, MaybeNat, IfTruthy
<1>3. kind \in Staking => kind \notin TakesArgs
  BY DEF Staking, TakesArgs
<1> QED BY <1>1, <1>2, <1>3
        DEF ArgsOf, Args, IInv, Shapes, InitiatorAddr, MaybeAccount

LEMMA PaymentSet ==
  ASSUME IInv, Configured PROVE builder.payment \in [amount : Nat, tolerance : Nat]
BY BuilderAssumption DEF IInv, TypeOK, Builder, MaybePayment, Configured

(* The bytes of a target leave nothing out but a version 0. *)
LEMMA HashedTarget ==
  ASSUME NEW target \in TransactionTarget
  PROVE  /\ Hashed(target) \in TransactionTarget
         /\ Hashed(target).isInstallUpgrade = target.isInstallUpgrade
         /\ Hashed(target).code.id = target.code.id
         /\ SaysNumber(Hashed(target).code.version, target.code.version)
         /\ SaysNumber(Hashed(target).code.protocolVersionMajor,
                       target.code.protocolVersionMajor)
<1> DEFINE v == IfTruthy(target.code.version)
           m == IfTruthy(target.code.protocolVersionMajor)
           c == [id |-> target.code.id, version |-> v, protocolVersionMajor |-> m]
<1>1. /\ v \in MaybeNat /\ SaysNumber(v, target.code.version)
      /\ m \in MaybeNat /\ SaysNumber(m, target.code.protocolVersionMajor)
      /\ target.code.id \in MaybeValue \union MaybeHash
  BY DEF TransactionTarget, Code, MaybeNat, IfTruthy, SaysNumber
<1>2. Hashed(target) = [code |-> c, isInstallUpgrade |-> target.isInstallUpgrade]
  BY DEF Hashed
<1> HIDE DEF v, m
<1> QED BY <1>1, <1>2 DEF TransactionTarget, Code

LEMMA BuildInv == ASSUME IInv, Build PROVE IInv'
<1> DEFINE t == [format |-> "V1",
                 addr   |-> builder.initiatorAddr,
                 args   |-> ArgsRef,
                 target |-> builder.invocationTarget,
                 hash   |-> [initiatorAddr |-> Initiator,
                             payment       |-> builder.payment,
                             args          |-> ArgsOf(builder.target),
                             target        |-> Hashed(heap.targets[builder.invocationTarget]),
                             entryPoint    |-> EntryPoint],
                 asked  |-> asked]
<1>1. Finish(ArgsRef, t) /\ V1Complete /\ Configured /\ calls < MaxCalls
  BY DEF Build, V1Complete, Finish
<1>2. /\ builder.target \in MaybeAccount /\ builder.terms \in MaybeValue
      /\ builder.payment \in [amount : MaybeNat, tolerance : Nat]
      /\ builder.initiatorAddr \in Refs /\ builder.invocationTarget \in Refs
      /\ builder.runtimeArgs \in Refs /\ ArgsRef \in Refs
  BY <1>1, NewIsFree, PaymentSet DEF IInv, TypeOK, Builder, ArgsRef, MaybeNat
<1>3. Initiator \in Serializable /\ AccountOf(Initiator) = asked.initiator
  BY <1>1 DEF Configured, IInv, Tracks
<1>4. heap.targets[builder.invocationTarget] \in TransactionTarget
  BY <1>2 DEF IInv, TypeOK, Heap
<1>10. /\ t.hash.target \in TransactionTarget
       /\ t.hash.target.isInstallUpgrade
            = heap.targets[builder.invocationTarget].isInstallUpgrade
       /\ t.hash.target.code.id = asked.code.id
       /\ SaysNumber(t.hash.target.code.version, asked.code.version)
       /\ SaysNumber(t.hash.target.code.protocolVersionMajor,
                     asked.code.protocolVersionMajor)
  BY <1>4, HashedTarget DEF IInv, Tracks
<1>5. t \in Transaction
  <2>1. EntryPoint \in MaybeValue
    BY <1>2 DEF EntryPoint, MaybeValue
  <2>2. t.hash \in Payload
    BY <1>1, <1>2, <1>3, <1>10, <2>1, BuildArgs DEF Payload
  <2> QED BY <1>2, <2>2 DEF Transaction, IInv, TypeOK
<1>6. Says(t)
  <2>1. kind \notin TakesArgs => /\ t.hash.args.terms = asked.terms
                                 /\ SaysNumber(t.hash.args.id, asked.id)
    BY <1>1, <1>2, BuildArgs DEF IInv, Tracks, IfTruthy, SaysNumber
  <2>2. t.hash.args.recipient = asked.recipient
    <3>1. kind \in TakesArgs => kind # "NativeTransfer"
      BY DEF TakesArgs
    <3> QED BY <1>1, <1>2, <3>1, BuildArgs DEF IInv, Tracks, Shapes
  <2>3. t.hash.target.isInstallUpgrade = asked.install
    <3>1. kind = "Session" => kind \in TakesArgs
      BY DEF TakesArgs
    <3> QED BY <1>1, <1>10, <3>1 DEF IInv, Tracks, Configured
  <2>4. SaysPayment(t)
    BY DEF SaysPayment, IInv, Tracks
  <2>5. SaysCode(t)
    BY <1>10 DEF SaysCode
  <2> QED BY <1>3, <2>1, <2>2, <2>3, <2>4, <2>5 DEF Says
<1>7. kind \in TakesArgs => t.hash.args = heap.args[builder.runtimeArgs]
  BY <1>1, <1>2, BuildArgs
<1>8. kind \in Staking => t.hash.args.delegator = AccountOf(t.hash.initiatorAddr)
  <2>1. kind \in Staking => Initiator.publicKey # Unset
    BY <1>1 DEF V1Complete, HasKey
  <2>2. kind \in Staking => AccountOf(Initiator) = Initiator.publicKey
    BY <1>2, <2>1 DEF IInv, Shapes, Initiator, AccountOf
  <2> QED BY <1>1, <1>2, <2>2, BuildArgs
<1>9. /\ t.args = ArgsRef /\ t.addr \in {0, builder.initiatorAddr}
      /\ t.target \in {0, builder.invocationTarget}
  OBVIOUS
<1> HIDE DEF t
<1> QED BY <1>1, <1>5, <1>6, <1>7, <1>8, <1>9, FinishInv

LEMMA BuildFor1_5Inv == ASSUME IInv, BuildFor1_5 PROVE IInv'
<1> DEFINE t == [format |-> "Deploy",
                 addr   |-> 0,
                 args   |-> ArgsRef,
                 target |-> 0,
                 hash   |->
                   [initiatorAddr |-> [NoAddr EXCEPT !.publicKey = Initiator.publicKey],
                    payment       |-> DeployPayment,
                    args          |-> ArgsOf(builder.publicKey),
                    target        |-> [code |-> DeployCode, isInstallUpgrade |-> FALSE],
                    entryPoint    |-> EntryPoint],
                 asked  |-> asked]
           ref == IF kind \in Bidding \union TakesArgs THEN ArgsRef ELSE builder.runtimeArgs
<1>1. Finish(ref, t) /\ DeployComplete /\ Configured /\ HasKey /\ calls < MaxCalls
  BY DEF BuildFor1_5, DeployComplete, Finish
<1>2. /\ builder.publicKey \in MaybeAccount /\ builder.terms \in MaybeValue
      /\ builder.payment \in [amount : Nat, tolerance : Nat]
      /\ builder.initiatorAddr \in Refs /\ builder.invocationTarget \in Refs
      /\ builder.runtimeArgs \in Refs /\ ArgsRef \in Refs /\ 0 \in Refs
  BY <1>1, NewIsFree, PaymentSet DEF IInv, TypeOK, Builder, ArgsRef
<1>3. /\ Initiator \in InitiatorAddr /\ Initiator.publicKey # Unset
      /\ Initiator.publicKey = asked.initiator
  <2>1. Initiator \in Serializable /\ AccountOf(Initiator) = asked.initiator
    BY <1>1 DEF Configured, IInv, Tracks
  <2> QED BY <1>1, <1>2, <2>1 DEF HasKey, Serializable, AccountOf, IInv, Shapes, Initiator
<1>4. /\ t.hash.initiatorAddr \in Serializable
      /\ AccountOf(t.hash.initiatorAddr) = Initiator.publicKey
  BY <1>3 DEF NoAddr, Serializable, AccountOf, InitiatorAddr, MaybeAccount
<1>5. DeployCode \in Code /\ SaysCode(t)
  <2> DEFINE code == heap.targets[builder.invocationTarget].code
             v == IfTruthy(code.version)
  <2>1. code \in Code /\ code = asked.code
    BY <1>2 DEF IInv, TypeOK, Heap, TransactionTarget, Tracks
  <2>2. v \in MaybeNat /\ SaysNumber(v, code.version)
    BY <2>1 DEF Code, MaybeNat, IfTruthy, SaysNumber
  <2>3. CASE kind \in Auction
    <3>1. DeployCode = Only(asked.contractHash) /\ asked.contractHash \in MaybeHash
      BY <2>3 DEF DeployCode, IInv, Tracks, TypeOK, Asked
    <3>2. /\ t.hash.target.code = DeployCode /\ t.format = "Deploy"
          /\ t.asked.contractHash = asked.contractHash
      OBVIOUS
    <3> HIDE DEF t
    <3> QED BY <2>3, <3>1, <3>2 DEF Only, Code, MaybeNat, SaysCode, SaysNumber
  <2>4. CASE kind \notin Auction
    <3>1. DeployCode = [id |-> code.id, version |-> v, protocolVersionMajor |-> Unset]
      BY <2>4 DEF DeployCode, Only
    <3>2. /\ t.hash.target.code = DeployCode /\ t.format = "Deploy"
          /\ t.asked.code = asked.code
      OBVIOUS
    <3> HIDE DEF t, v, code
    <3> QED BY <2>1, <2>2, <2>4, <3>1, <3>2 DEF Code, MaybeNat, SaysCode
  <2> QED BY <2>3, <2>4
<1>11. t.hash.target \in TransactionTarget
  BY <1>5 DEF TransactionTarget
<1>12. DeployPayment \in [amount : MaybeNat, tolerance : Nat] /\ SaysPayment(t)
  BY <1>2 DEF DeployPayment, IfTruthy, MaybeNat, SaysPayment, SaysNumber, IInv, Tracks
<1>6. t \in Transaction
  <2>1. EntryPoint \in MaybeValue
    BY <1>2 DEF EntryPoint, MaybeValue
  <2>2. t.hash \in Payload
    BY <1>1, <1>2, <1>4, <1>11, <1>12, <2>1, BuildArgs DEF Payload
  <2> QED BY <1>2, <2>2 DEF Transaction, IInv, TypeOK
<1>7. Says(t)
  <2>1. kind \notin TakesArgs => /\ t.hash.args.terms = asked.terms
                                 /\ SaysNumber(t.hash.args.id, asked.id)
    BY <1>1, <1>2, BuildArgs DEF IInv, Tracks, IfTruthy, SaysNumber
  <2>2. asked.byKey => t.hash.args.recipient = asked.recipient
    <3>1. kind \in TakesArgs => kind # "NativeTransfer"
      BY DEF TakesArgs
    <3> QED BY <1>1, <1>2, <3>1, BuildArgs DEF IInv, Tracks, Shapes
  <2> QED BY <1>3, <1>4, <1>5, <1>12, <2>1, <2>2 DEF Says
<1>8. kind \in TakesArgs => t.hash.args = heap.args[builder.runtimeArgs]
  BY <1>1, <1>2, BuildArgs
<1>9. kind \in Staking => t.hash.args.delegator = AccountOf(t.hash.initiatorAddr)
  BY <1>1, <1>2, <1>4, BuildArgs
<1>10. /\ t.args = ArgsRef /\ t.addr \in {0, builder.initiatorAddr}
       /\ t.target \in {0, builder.invocationTarget} /\ ref \in {builder.runtimeArgs, ArgsRef}
  OBVIOUS
<1> HIDE DEF t, ref
<1> QED BY <1>1, <1>6, <1>7, <1>8, <1>9, <1>10, FinishInv

LEMMA NextInv == IInv /\ [Next]_vars => IInv'
<1> SUFFICES ASSUME IInv, [Next]_vars PROVE IInv'
  OBVIOUS
<1>1. ASSUME NEW account \in Accounts, From(account) PROVE IInv'
  <2> DEFINE x == [publicKey |-> account, accountHash |-> Unset]
  <2>1. x \in InitiatorAddr /\ AccountOf(x) = account /\ x.accountHash = Unset
    BY DEF InitiatorAddr, MaybeAccount, AccountOf
  <2> QED BY <1>1, <2>1, InitiatorInv DEF From
<1>2. ASSUME NEW account \in Accounts, FromAccountHash(account) PROVE IInv'
  <2> DEFINE x == [publicKey |-> Unset, accountHash |-> account]
  <2>1. x \in InitiatorAddr /\ AccountOf(x) = account /\ x.publicKey = Unset
    BY BuilderAssumption DEF InitiatorAddr, MaybeAccount, AccountOf
  <2> QED BY <1>2, <2>1, InitiatorInv DEF FromAccountHash
<1>3. ASSUME NEW contract \in Contracts, ByContract(contract) PROVE IInv'
  <2> DEFINE x == [code |-> contract, isInstallUpgrade |-> FALSE]
  <2>1. contract \in Code /\ x \in TransactionTarget /\ x.code = contract
    BY ContractIsCode DEF TransactionTarget
  <2>2. asked.install = FALSE
    BY <1>3 DEF ByContract, IInv, Shapes, Tracks
  <2> QED BY <1>3, <2>1, <2>2, CodeInv DEF ByContract
<1>4. ASSUME NEW value \in Values, Wasm(value) PROVE IInv'
  <2> DEFINE x == [code |-> Only(value), isInstallUpgrade |-> builder.isInstallOrUpgrade]
  <2>1. Only(value) \in Code /\ x \in TransactionTarget /\ x.code = Only(value)
    BY WasmIsCode DEF TransactionTarget, IInv, TypeOK, Builder
  <2>2. x.isInstallUpgrade = asked.install
    BY DEF IInv, Tracks
  <2> QED BY <1>4, <2>1, <2>2, CodeInv DEF Wasm
<1>5. ASSUME NEW value \in Values, RuntimeArgs(value) PROVE IInv'
  <2> DEFINE b == [builder EXCEPT !.runtimeArgs = New]
  <2>1. /\ CallWith(New, [heap EXCEPT !.args[New] = CallerArgs(value)], b, asked)
        /\ kind \in TakesArgs /\ calls < MaxCalls
    BY <1>5 DEF RuntimeArgs, Make, CallWith
  <2>2. New \in Refs /\ New \in 0..New /\ b \in Builder
    BY <2>1, NewIsFree DEF IInv, TypeOK, Builder
  <2> QED BY <2>1, <2>2, ArgsInv
<1>6. ASSUME NEW value \in Values, NEW args \in 1..made, InsertArg(args, value) PROVE IInv'
  <2>1. /\ CallWith(made, [heap EXCEPT !.args[args] = CallerArgs(value)], builder, asked)
        /\ kind \in TakesArgs /\ calls < MaxCalls
    BY <1>6 DEF InsertArg, CallWith
  <2>2. args \in Refs /\ args \in 0..made /\ builder \in Builder
    BY <2>1, NewIsFree DEF IInv, TypeOK
  <2> QED BY <2>1, <2>2, ArgsInv
<1>7. CASE UNCHANGED vars
  BY <1>7 DEF IInv, TypeOK, Made, Shapes, Tracks, Initiator, NativeArgsKept,
              SaysWhatWasAsked, Says, SaysPayment, SaysCode, DelegatesOwnStake, vars
<1> QED BY <1>1, <1>2, <1>3, <1>4, <1>5, <1>6, <1>7, SettersInv, InstallInv, BuildInv,
           BuildFor1_5Inv DEF Next

LEMMA Inductive == Spec => []IInv
BY InitInv, NextInv, PTL DEF Spec

(* The builder, its objects and what it built keep their types. *)
THEOREM TypeCorrect == Spec => []TypeOK
<1>1. IInv => TypeOK
  BY DEF IInv
<1> QED BY <1>1, Inductive, PTL

(* Whatever the order of the calls, and whatever was built in between, a   *)
(* transaction of either format says what was set last.                    *)
THEOREM BuildsSayWhatWasAsked == Spec => []SaysWhatWasAsked
<1>1. IInv => SaysWhatWasAsked
  BY DEF IInv
<1> QED BY <1>1, Inductive, PTL

(* No transaction moves the stake of an account that does not initiate it. *)
THEOREM StakeIsOwn == Spec => []DelegatesOwnStake
<1>1. IInv => DelegatesOwnStake
  BY DEF IInv
<1> QED BY <1>1, Inductive, PTL
-----------------------------------------------------------------------------
(* A transaction goes on validating when the objects that were there before *)
(* are left alone.                                                          *)
LEMMA ValidKept ==
  ASSUME IInv, NEW t \in built, Valid(t),
         \A r \in 0..made : /\ heap'.addrs[r] = heap.addrs[r]
                            /\ r = t.args => heap'.args[r] = heap.args[r]
                            /\ r = t.target => heap'.targets[r] = heap.targets[r]
  PROVE  Valid(t)'
<1>1. t.addr \in 0..made /\ t.args \in 0..made /\ t.target \in 0..made
  BY DEF IInv, Made
<1> QED BY <1>1 DEF Valid

(* Nothing that a builder does to its own objects reaches a transaction it *)
(* built, but for the mark of a session.                                   *)
THEOREM BuiltIsStable == Spec => BuiltStaysValid
<1> DEFINE Stable ==
      \A t \in built :
        Valid(t) => \/ Valid(t)'
                    \/ \E value \in Values : InsertArg(t.args, value)
                    \/ t.target = builder.invocationTarget /\ InstallOrUpgrade
<1>1. IInv /\ [Next]_vars => Stable
  <2> SUFFICES ASSUME IInv, [Next]_vars, NEW t \in built, Valid(t),
                      ~\E value \in Values : InsertArg(t.args, value),
                      ~(t.target = builder.invocationTarget /\ InstallOrUpgrade)
               PROVE  Valid(t)'
    OBVIOUS
  <2>0. heap \in Heap /\ t.args \in 0..made
    BY DEF IInv, TypeOK, Made
  <2>1. ASSUME NEW x \in InitiatorAddr, calls < MaxCalls,
               heap' = [heap EXCEPT !.addrs[New] = x]
        PROVE  Valid(t)'
    BY <2>0, <2>1, PutAddr, NewIsFree, ValidKept DEF Heap
  <2>2. ASSUME NEW x \in TransactionTarget, calls < MaxCalls,
               heap' = [heap EXCEPT !.targets[New] = x]
        PROVE  Valid(t)'
    BY <2>0, <2>2, PutTarget, NewIsFree, ValidKept DEF Heap
  <2>3. ASSUME NEW x \in Args, NEW r \in Refs, calls < MaxCalls,
               heap' = [heap EXCEPT !.args[r] = x], r # t.args \/ x = heap.args[r]
        PROVE  Valid(t)'
    BY <2>0, <2>3, PutArgs, NewIsFree, ValidKept DEF Heap
  <2>4. ASSUME heap' = heap PROVE Valid(t)'
    BY <2>4, ValidKept
  <2>5. ASSUME NEW account \in Accounts, From(account) \/ FromAccountHash(account)
        PROVE  Valid(t)'
    <3>1. /\ [publicKey |-> account, accountHash |-> Unset] \in InitiatorAddr
          /\ [publicKey |-> Unset, accountHash |-> account] \in InitiatorAddr
      BY DEF InitiatorAddr, MaybeAccount
    <3> QED BY <2>1, <2>5, <3>1 DEF From, FromAccountHash, Make, CallWith
  <2>6. ASSUME NEW value \in Values, Wasm(value) PROVE Valid(t)'
    <3>1. [code |-> Only(value), isInstallUpgrade |-> builder.isInstallOrUpgrade]
            \in TransactionTarget
      BY WasmIsCode DEF TransactionTarget, IInv, TypeOK, Builder
    <3> QED BY <2>2, <2>6, <3>1 DEF Wasm, Make, CallWith
  <2>16. ASSUME NEW contract \in Contracts, ByContract(contract) PROVE Valid(t)'
    <3>1. [code |-> contract, isInstallUpgrade |-> FALSE] \in TransactionTarget
      BY ContractIsCode DEF TransactionTarget
    <3> QED BY <2>2, <2>16, <3>1 DEF ByContract, Make, CallWith
  <2>7. CASE InstallOrUpgrade
    <3>1. CASE builder.invocationTarget = 0
      BY <2>4, <2>7, <3>1 DEF InstallOrUpgrade, CallWith
    <3>2. CASE builder.invocationTarget # 0
      <4>1. /\ heap'.addrs = heap.addrs /\ heap'.args = heap.args
            /\ \A r \in Refs : r # builder.invocationTarget
                                 => heap'.targets[r] = heap.targets[r]
        BY <2>0, <2>7, <3>2 DEF InstallOrUpgrade, CallWith, Heap
      <4>2. t.target # builder.invocationTarget /\ 0..made \subseteq Refs
        BY <2>7, NewIsFree DEF InstallOrUpgrade, CallWith
      <4> QED BY <4>1, <4>2, ValidKept
    <3> QED BY <3>1, <3>2
  <2>8. ASSUME NEW value \in Values,
               RuntimeArgs(value) \/ \E args \in 1..made : InsertArg(args, value)
        PROVE  Valid(t)'
    <3>1. CallerArgs(value) \in Args
      BY DEF CallerArgs, Args, NoArgs, MaybeAccount, MaybeValue, MaybeNat
    <3>2. CASE RuntimeArgs(value)
      <4>1. /\ heap' = [heap EXCEPT !.args[New] = CallerArgs(value)]
            /\ calls < MaxCalls
        BY <3>2 DEF RuntimeArgs, Make, CallWith
      <4> QED BY <2>0, <2>3, <3>1, <4>1, NewIsFree
    <3>3. ASSUME NEW args \in 1..made, InsertArg(args, value) PROVE Valid(t)'
      <4>1. /\ heap' = [heap EXCEPT !.args[args] = CallerArgs(value)]
            /\ calls < MaxCalls
        BY <3>3 DEF InsertArg, CallWith
      <4>2. args # t.args /\ args \in Refs
        BY <3>3, <4>1, NewIsFree
      <4> QED BY <2>3, <3>1, <4>1, <4>2
    <3> QED BY <2>8, <3>2, <3>3
  <2>9. ASSUME Configured, calls < MaxCalls, NEW recipient \in MaybeAccount,
               heap' = [heap EXCEPT !.args[ArgsRef] = ArgsOf(recipient)]
        PROVE  Valid(t)'
    <3>1. ArgsOf(recipient) \in Args /\ ArgsRef \in Refs
      BY <2>9, BuildArgs, NewIsFree DEF IInv, TypeOK, Builder, ArgsRef
    <3>2. ArgsRef # t.args \/ ArgsOf(recipient) = heap.args[ArgsRef]
      BY <2>0, <2>9, BuildArgs, NewIsFree DEF ArgsRef
    <3> QED BY <2>3, <2>9, <3>1, <3>2
  <2>10. CASE Build
    <3>1. /\ Configured /\ calls < MaxCalls /\ builder.target \in MaybeAccount
          /\ heap' = [heap EXCEPT !.args[ArgsRef] = ArgsOf(builder.target)]
      BY <2>10 DEF Build, V1Complete, Finish, IInv, TypeOK, Builder
    <3> QED BY <2>9, <3>1
  <2>11. CASE BuildFor1_5
    <3>1. /\ Configured /\ calls < MaxCalls /\ builder.publicKey \in MaybeAccount
          /\ heap' = [heap EXCEPT !.args[ArgsRef] = ArgsOf(builder.publicKey)]
      BY <2>11 DEF BuildFor1_5, DeployComplete, Finish, IInv, TypeOK, Builder
    <3> QED BY <2>9, <3>1
  <2>12. ASSUME NEW account \in Accounts, Target(account) \/ TargetAccountHash(account)
         PROVE  Valid(t)'
    BY <2>4, <2>12 DEF Target, TargetAccountHash, Set, CallWith
  <2>13. ASSUME NEW payment \in Payments, Payment(payment) PROVE Valid(t)'
    BY <2>4, <2>13 DEF Payment, Set, CallWith
  <2>17. ASSUME NEW contract \in Hashes, ContractHash(contract) PROVE Valid(t)'
    BY <2>4, <2>17 DEF ContractHash, Set, CallWith
  <2>18. ASSUME NEW id \in Ids, Id(id) PROVE Valid(t)'
    BY <2>4, <2>18 DEF Id, Set, CallWith
  <2>14. ASSUME NEW value \in Values, SetTerms(value) PROVE Valid(t)'
    BY <2>4, <2>14 DEF SetTerms, Set, CallWith
  <2>15. CASE UNCHANGED vars
    BY <2>4, <2>15 DEF vars
  <2> QED BY <2>5, <2>6, <2>7, <2>8, <2>10, <2>11, <2>12, <2>13, <2>14, <2>15,
             <2>16, <2>17, <2>18 DEF Next
<1> HIDE DEF Stable
<1>2. Spec => [][Stable]_vars
  BY <1>1, Inductive, PTL DEF Spec
<1> USE DEF Stable
<1> QED BY <1>2 DEF BuiltStaysValid
=============================================================================
