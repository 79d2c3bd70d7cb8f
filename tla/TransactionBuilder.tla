------------------------- MODULE TransactionBuilder -------------------------
(***************************************************************************)
(* A transaction builder (src/src/types/TransactionBuilder.ts) and what it *)
(* builds, in the 2.0 format (build) and in that of 1.5 (buildFor1_5). The *)
(* built transactions refer to the objects of the builder: its initiator,  *)
(* its target, and the Args that the caller handed in. Objects are named   *)
(* by numbers in the order they are made; 0 names the undefined one. What  *)
(* is a number to the builder (payment, gas price tolerance, transfer id,  *)
(* versions of a contract) stays one here, as the code tests several of    *)
(* them by their truth: a 0 is taken for nothing. Chain name, timestamp    *)
(* and ttl are left out: they are set and copied as they are.              *)
(***************************************************************************)
EXTENDS Integers

CONSTANTS
  Kinds,     (* the builder classes considered                             *)
  Accounts,  (* accounts, known by public key or by account hash           *)
  Values,    (* wasm, entry points, amounts and other arguments            *)
  Hashes,    (* contracts and packages, by hash or by name                 *)
  Contracts, (* what a contract call is given: a contract and its versions *)
  Payments,  (* what payment() is given: an amount and a tolerance         *)
  Ids,       (* what id() of a transfer is given                           *)
  Unset,     (* undefined, null                                            *)
  MaxCalls   (* bound: calls to the builder                                *)

Bidding   == {"NativeAddBid", "NativeWithdrawBid", "NativeActivateBid"}
Staking   == {"NativeDelegate", "NativeUndelegate", "NativeRedelegate"}
Auction   == Bidding \union Staking
OnlyV1    == {"NativeChangeBidPublicKey", "NativeBurn"}
TakesArgs == {"ContractCall", "Session"}

ASSUME BuilderAssumption ==
  /\ Kinds \subseteq
       {"NativeTransfer"} \union Auction \union OnlyV1 \union TakesArgs
  /\ MaxCalls \in Nat
  /\ Payments \subseteq [amount : Nat, tolerance : Nat]
  /\ Ids \subseteq Nat
  /\ Contracts \subseteq [id : Hashes, version : Nat \union {Unset},
                          protocolVersionMajor : Nat \union {Unset}]
  /\ Unset \notin Accounts \union Values \union Hashes \union Nat

VARIABLES
  kind,    (* the class of the builder                                     *)
  calls,   (* number of calls to the builder                               *)
  made,    (* number of objects made                                       *)
  heap,    (* the objects that the builder and its transactions refer to   *)
  builder, (* the fields of the builder                                    *)
  built,   (* the transactions built: references, and the content hashed   *)
  asked    (* history: what the caller set last, whatever set it           *)

vars == <<kind, calls, made, heap, builder, built, asked>>

Refs         == 0..MaxCalls
MaybeAccount == Accounts \union {Unset}
MaybeValue   == Values \union {Unset}
MaybeHash    == Hashes \union {Unset}
MaybeNat     == Nat \union {Unset}
MaybePayment == Payments \union {Unset}

InitiatorAddr     == [publicKey : MaybeAccount, accountHash : MaybeAccount]
Args              == [terms : MaybeValue, id : MaybeNat, recipient : MaybeAccount,
                      delegator : MaybeAccount]
(* The wasm of a session, or the contract called: a package has versions.  *)
Code              == [id : MaybeValue \union MaybeHash, version : MaybeNat, protocolVersionMajor : MaybeNat]
TransactionTarget == [code : Code, isInstallUpgrade : BOOLEAN]
(* InitiatorAddr.toBytes: the account hash goes first, one of them is set. *)
AccountOf(addr) == IF addr.accountHash # Unset THEN addr.accountHash ELSE addr.publicKey
Serializable    == {addr \in InitiatorAddr : AccountOf(addr) # Unset}

Heap == [addrs   : [Refs -> InitiatorAddr],
         args    : [Refs -> Args],
         targets : [Refs -> TransactionTarget]]

NoAddr   == [publicKey |-> Unset, accountHash |-> Unset]
NoArgs   == [terms |-> Unset, id |-> Unset, recipient |-> Unset, delegator |-> Unset]
Only(id) == [id |-> id, version |-> Unset, protocolVersionMajor |-> Unset]
NoTarget == [code |-> Only(Unset), isInstallUpgrade |-> FALSE]

(* target and publicKey are the recipient of a transfer; terms is what the *)
(* other setters of a native builder set (an amount, a validator, a rate:  *)
(* CLValues, which are never falsy), the entry point of a call.            *)
Builder == [initiatorAddr : Refs, runtimeArgs : Refs, invocationTarget : Refs,
            payment : MaybePayment, contractHash : MaybeHash,
            terms : MaybeValue, idTransfer : MaybeNat,
            target : MaybeAccount, publicKey : MaybeAccount,
            isInstallOrUpgrade : BOOLEAN]

Asked == [initiator : MaybeAccount, payment : MaybePayment, contractHash : MaybeHash,
          terms : MaybeValue, id : MaybeNat, recipient : MaybeAccount, byKey : BOOLEAN,
          code : Code, install : BOOLEAN]

Payload     == [initiatorAddr : Serializable,
                payment : [amount : MaybeNat, tolerance : Nat],
                args : Args, target : TransactionTarget, entryPoint : MaybeValue]
Transaction == [format : {"V1", "Deploy"}, addr : Refs, args : Refs, target : Refs,
                hash : Payload, asked : Asked]

Init ==
  /\ kind \in Kinds
  /\ calls = 0
  /\ made = 0
  /\ heap = [addrs   |-> [r \in Refs |-> NoAddr],
             args    |-> [r \in Refs |-> NoArgs],
             targets |-> [r \in Refs |-> NoTarget]]
  /\ builder = [initiatorAddr |-> 0, runtimeArgs |-> 0, invocationTarget |-> 0,
                payment |-> Unset, contractHash |-> Unset,
                terms |-> Unset, idTransfer |-> Unset, target |-> Unset,
                publicKey |-> Unset, isInstallOrUpgrade |-> FALSE]
  /\ built = {}
  /\ asked = [initiator |-> Unset, payment |-> Unset, contractHash |-> Unset,
              terms |-> Unset, id |-> Unset, recipient |-> Unset, byKey |-> FALSE,
              code |-> Only(Unset), install |-> FALSE]

New == made + 1

Initiator == heap.addrs[builder.initiatorAddr]

(* A number that is written when it is truthy. *)
IfTruthy(number) == IF number = 0 THEN Unset ELSE number

(* The bytes of a target leave a version 0 out, whichever of the two. *)
Hashed(target) ==
  [code             |-> [id                   |-> target.code.id,
                         version              |-> IfTruthy(target.code.version),
                         protocolVersionMajor |-> IfTruthy(target.code.protocolVersionMajor)],
   isInstallUpgrade |-> target.isInstallUpgrade]

(* What validate() recomputes. A reference of 0 is to nothing that is      *)
(* shared: the transaction has its own.                                    *)
Valid(t) == /\ t.addr # 0 => heap.addrs[t.addr] = t.hash.initiatorAddr
            /\ t.args # 0 => heap.args[t.args] = t.hash.args
            /\ t.target # 0 => Hashed(heap.targets[t.target]) = t.hash.target
-----------------------------------------------------------------------------
(* Setters *)

CallWith(newMade, newHeap, newBuilder, newAsked) ==
  /\ calls < MaxCalls
  /\ calls' = calls + 1
  /\ made' = newMade
  /\ heap' = newHeap
  /\ builder' = newBuilder
  /\ asked' = newAsked
  /\ UNCHANGED <<kind, built>>

Set(newBuilder, newAsked)           == CallWith(made, heap, newBuilder, newAsked)
Make(newHeap, newBuilder, newAsked) == CallWith(New, newHeap, newBuilder, newAsked)

From(account) ==
  Make([heap EXCEPT !.addrs[New] = [publicKey |-> account, accountHash |-> Unset]],
       [builder EXCEPT !.initiatorAddr = New],
       [asked EXCEPT !.initiator = account])

(* Mutant: the address that the builder has is changed in place. *)
FromAccountHash_InPlace(account) ==
  LET ref == IF builder.initiatorAddr = 0 THEN New ELSE builder.initiatorAddr
  IN  Make([heap EXCEPT !.addrs[ref] = [publicKey |-> Unset, accountHash |-> account]],
           [builder EXCEPT !.initiatorAddr = ref],
           [asked EXCEPT !.initiator = account])

FromAccountHash(account) ==
  Make([heap EXCEPT !.addrs[New] = [publicKey |-> Unset, accountHash |-> account]],
       [builder EXCEPT !.initiatorAddr = New],
       [asked EXCEPT !.initiator = account])

Payment(payment) ==
  Set([builder EXCEPT !.payment = payment], [asked EXCEPT !.payment = payment])

(* Every builder has it, and those of the auction read it. *)
ContractHash(contract) ==
  /\ kind \in Auction
  /\ Set([builder EXCEPT !.contractHash = contract], [asked EXCEPT !.contractHash = contract])

Id(id) ==
  /\ kind = "NativeTransfer"
  /\ Set([builder EXCEPT !.idTransfer = id], [asked EXCEPT !.id = id])

(* amount, validator, delegationRate, source, ..., entryPoint *)
SetTerms(value) ==
  /\ kind # "Session"
  /\ Set([builder EXCEPT !.terms = value], [asked EXCEPT !.terms = value])

Target(account) ==
  /\ kind = "NativeTransfer"
  /\ Set([builder EXCEPT !.target = account, !.publicKey = account],
         [asked EXCEPT !.recipient = account, !.byKey = TRUE])

TargetAccountHash(account) ==
  /\ kind = "NativeTransfer"
  /\ Set([builder EXCEPT !.target = account],
         [asked EXCEPT !.recipient = account, !.byKey = FALSE])

(* byHash, byName, byPackageHash and byPackageName of a contract call *)
ByContract(contract) ==
  /\ kind = "ContractCall"
  /\ Make([heap EXCEPT !.targets[New] = [code |-> contract, isInstallUpgrade |-> FALSE]],
          [builder EXCEPT !.invocationTarget = New],
          [asked EXCEPT !.code = contract])

Wasm(wasmBytes) ==
  /\ kind = "Session"
  /\ Make([heap EXCEPT !.targets[New] =
            [code |-> Only(wasmBytes), isInstallUpgrade |-> builder.isInstallOrUpgrade]],
          [builder EXCEPT !.invocationTarget = New],
          [asked EXCEPT !.code = Only(wasmBytes)])

(* Mutant: only a session whose wasm comes later is marked. *)
InstallOrUpgrade_FlagOnly ==
  /\ kind = "Session"
  /\ Set([builder EXCEPT !.isInstallOrUpgrade = TRUE], [asked EXCEPT !.install = TRUE])

(* The target that the builder has is marked in place. *)
InstallOrUpgrade ==
  /\ kind = "Session"
  /\ CallWith(made,
         IF builder.invocationTarget = 0 THEN heap
         ELSE [heap EXCEPT !.targets[builder.invocationTarget].isInstallUpgrade = TRUE],
         [builder EXCEPT !.isInstallOrUpgrade = TRUE],
         [asked EXCEPT !.install = TRUE])

CallerArgs(value) == [NoArgs EXCEPT !.terms = value]

RuntimeArgs(value) ==
  /\ kind \in TakesArgs
  /\ Make([heap EXCEPT !.args[New] = CallerArgs(value)],
          [builder EXCEPT !.runtimeArgs = New],
          asked)

(* Args.insert by the caller, in an object handed in earlier. *)
InsertArg(args, value) ==
  /\ kind \in TakesArgs
  /\ heap.args[args] # NoArgs
  /\ CallWith(made, [heap EXCEPT !.args[args] = CallerArgs(value)], builder, asked)
-----------------------------------------------------------------------------
(* Builds. One that throws is no step: at most it has replaced the native  *)
(* arguments kept in _runtimeArgs, which every build makes anew.           *)

Configured ==
  /\ builder.initiatorAddr # 0
  /\ builder.payment # Unset
  /\ builder.terms = Unset => kind \in {"NativeTransfer", "NativeBurn", "Session"}
  /\ kind \in TakesArgs => builder.runtimeArgs # 0 /\ builder.invocationTarget # 0

HasKey == Initiator.publicKey # Unset

(* Mutant: a delegator is not asked for by key. *)
V1Complete_AnyDelegator ==
  /\ Configured
  /\ kind = "NativeTransfer" => builder.target # Unset

V1Complete ==
  /\ Configured
  /\ kind = "NativeTransfer" => builder.target # Unset
  /\ kind \in Staking => HasKey

DeployComplete ==
  /\ Configured
  /\ kind \notin OnlyV1
  /\ HasKey
  /\ kind = "NativeTransfer" => builder.publicKey # Unset
  /\ builder.payment.amount = 0 => kind = "NativeTransfer"

ArgsRef == IF kind \in TakesArgs THEN builder.runtimeArgs ELSE New

ArgsOf(recipient) ==
  IF kind \in TakesArgs THEN heap.args[builder.runtimeArgs]
  ELSE [terms     |-> builder.terms,
        id        |-> IfTruthy(builder.idTransfer),
        recipient |-> recipient,
        delegator |-> IF kind \in Staking THEN Initiator.publicKey ELSE Unset]

EntryPoint == IF kind = "ContractCall" THEN builder.terms ELSE Unset

Finish(newArgsRef, transaction) ==
  /\ calls < MaxCalls
  /\ calls' = calls + 1
  /\ made' = IF kind \in TakesArgs THEN made ELSE New
  /\ heap' = [heap EXCEPT !.args[transaction.args] = transaction.hash.args]
  /\ builder' = [builder EXCEPT !.runtimeArgs = newArgsRef]
  /\ built' = built \union {transaction}
  /\ UNCHANGED <<kind, asked>>

Build ==
  /\ V1Complete
  /\ Finish(ArgsRef,
       [format |-> "V1",
        addr   |-> builder.initiatorAddr,
        args   |-> ArgsRef,
        target |-> builder.invocationTarget,
        hash   |-> [initiatorAddr |-> Initiator,
                    payment       |-> builder.payment,
                    args          |-> ArgsOf(builder.target),
                    target        |-> Hashed(heap.targets[builder.invocationTarget]),
                    entryPoint    |-> EntryPoint],
        asked  |-> asked])

(* A payment of 0 is replaced by a default one (Unset), and a tolerance of *)
(* 0 leaves the gas price of the header what it is by default.             *)
DeployPayment == [amount    |-> IfTruthy(builder.payment.amount),
                  tolerance |-> IF builder.payment.tolerance = 0 THEN 1
                                ELSE builder.payment.tolerance]

(* The auction is called by its contract (Unset: the one of the chain), a  *)
(* package by its version: the major one of the protocol has no place.     *)
DeployCode ==
  LET code == heap.targets[builder.invocationTarget].code
  IN  IF kind \in Auction THEN Only(builder.contractHash)
      ELSE [Only(code.id) EXCEPT !.version = IfTruthy(code.version)]

(* The header and the payment are made anew, the wasm or the contract is   *)
(* copied: a deploy only shares its Args.                                  *)
BuildFor1_5 ==
  /\ DeployComplete
  /\ Finish(IF kind \in Bidding \union TakesArgs THEN ArgsRef ELSE builder.runtimeArgs,
       [format |-> "Deploy",
        addr   |-> 0,
        args   |-> ArgsRef,
        target |-> 0,
        hash   |-> [initiatorAddr |-> [NoAddr EXCEPT !.publicKey = Initiator.publicKey],
                    payment       |-> DeployPayment,
                    args          |-> ArgsOf(builder.publicKey),
                    target        |-> [code |-> DeployCode, isInstallUpgrade |-> FALSE],
                    entryPoint    |-> EntryPoint],
        asked  |-> asked])

Next ==
  \/ \E account \in Accounts : \/ From(account)
                               \/ FromAccountHash(account)
                               \/ Target(account)
                               \/ TargetAccountHash(account)
  \/ \E payment \in Payments : Payment(payment)
  \/ \E id \in Ids : Id(id)
  \/ \E contract \in Contracts : ByContract(contract)
  \/ \E contract \in Hashes : ContractHash(contract)
  \/ \E value \in Values : \/ SetTerms(value)
                           \/ Wasm(value)
                           \/ RuntimeArgs(value)
                           \/ \E args \in 1..made : InsertArg(args, value)
  \/ InstallOrUpgrade
  \/ Build
  \/ BuildFor1_5

Spec == Init /\ [][Next]_vars
-----------------------------------------------------------------------------
(* Properties *)

(* The variables keep their types. *)
TypeOK ==
  /\ kind \in Kinds
  /\ calls \in 0..MaxCalls
  /\ made \in 0..calls
  /\ heap \in Heap
  /\ builder \in Builder
  /\ built \in SUBSET Transaction
  /\ asked \in Asked

(* A number is said as it was set, but that 0 may be left out. *)
SaysNumber(said, set) == said = set \/ (set = 0 /\ said = Unset)

SaysPayment(t) ==
  LET said == t.hash.payment
      set  == t.asked.payment
  IN  IF t.format = "V1" THEN said = set
      ELSE /\ SaysNumber(said.amount, set.amount)
           /\ said.tolerance = set.tolerance \/ (set.tolerance = 0 /\ said.tolerance = 1)

SaysCode(t) ==
  LET said == t.hash.target.code
      set  == IF t.format = "Deploy" /\ kind \in Auction THEN Only(t.asked.contractHash)
              ELSE t.asked.code
  IN  /\ said.id = set.id
      /\ SaysNumber(said.version, set.version)
      /\ \/ t.format = "V1" /\ SaysNumber(said.protocolVersionMajor, set.protocolVersionMajor)
         \/ t.format = "Deploy" /\ said.protocolVersionMajor = Unset

Says(t) ==
  /\ AccountOf(t.hash.initiatorAddr) = t.asked.initiator
  /\ SaysPayment(t)
  /\ kind \notin TakesArgs => /\ t.hash.args.terms = t.asked.terms
                              /\ SaysNumber(t.hash.args.id, t.asked.id)
  /\ t.format = "V1" \/ t.asked.byKey => t.hash.args.recipient = t.asked.recipient
  /\ SaysCode(t)
  /\ t.format = "V1" => t.hash.target.isInstallUpgrade = t.asked.install

(* Every transaction, of either format, says what its caller set last, in  *)
(* whatever order and however many transactions were built before, with    *)
(* these exceptions. In both formats a transfer id of 0 and a version of 0 *)
(* of a package are left out, as is a protocol version major of 0 in a     *)
(* transaction of 2.0, which does not name the contract of the auction. A  *)
(* deploy has no install mark and no protocol version major at all, pays a *)
(* default for a transfer of payment 0, has a gas price of 1 for a         *)
(* tolerance of 0, and see TransfersReach for its recipient.               *)
SaysWhatWasAsked == \A t \in built : Says(t)

(* "Sets the target account hash for the transfer": the transfers that are *)
(* built, deploys included, go to the account set last.                    *)
TransfersReach == \A t \in built : t.hash.args.recipient = t.asked.recipient

(* Stake is delegated, undelegated and redelegated for the account that    *)
(* initiates the transaction, also once the builder has another initiator. *)
DelegatesOwnStake ==
  kind \in Staking =>
    \A t \in built : heap.args[t.args].delegator = AccountOf(t.hash.initiatorAddr)

(* A built transaction validates however its builder is used later, and    *)
(* whatever else is built, until the caller changes Args that it handed in *)
(* or marks the session that the transaction still shares.                 *)
BuiltStaysValid ==
  [][\A t \in built :
       Valid(t) => \/ Valid(t)'
                   \/ \E value \in Values : InsertArg(t.args, value)
                   \/ t.target = builder.invocationTarget /\ InstallOrUpgrade]_vars
=============================================================================
