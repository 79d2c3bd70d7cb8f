----------------------------- MODULE Executions -----------------------------
(* Execution results, their effects and the transfers they made, as 1.x and  *)
(* 2.x nodes write them (src/src/types/ExecutionResult.ts, Transform.ts,     *)
(* TransformRaw.ts, Transfer.ts), read into one form.                        *)
EXTENDS Blocks

-----------------------------------------------------------------------------
(* Effects.  A transform is a word ("Identity") or an object; what the code  *)
(* looks at is the names of its members, each a sequence of words, so that   *)
(* WriteContractPackage includes WriteContract.                              *)
(*   path    the members down to the value, or the word itself               *)
(*   plain   the transform is a bare string                                  *)
(*   inside  the names of the members within the value                       *)

W(word) == <<"Write", word>>
Name(kind) ==
    CASE kind = "CLValue" -> <<"CL", "Value">>
      [] kind = "ContractPackage" -> <<"Contract", "Package">>
      [] kind = "DeployInfo" -> <<"Deploy", "Info">>
      [] kind = "AddressableEntity" -> <<"Addressable", "Entity">>
      [] kind = "BidKind" -> <<"Bid", "Kind">>
      [] kind = "NamedKey" -> <<"Named", "Key">>
      [] kind = "MessageTopic" -> <<"Message", "Topic">>
      [] kind = "AddUInt512" -> <<"Add", "UInt512">>
      [] OTHER -> <<kind>>

(* name is found in a member's name.                                         *)
Includes(member, name) == name \in SubSeqs(member)

(* The member is looked for in the whole of the object, values included.     *)
isTransformation(data, name) ==
    \E member \in {data.path[i] : i \in DOMAIN data.path} \cup data.inside : Includes(member, name)

(* TypedJSON parses a bare string as JSON text, which these are not.         *)
ReadPath(data, paths) ==
    IF data.plain THEN Thrown ELSE IF data.path \in paths THEN data.value ELSE None

(* What each parser reads: one member of a 1.x name, or Write and the kind.  *)
Flat(kind) == <<<<"Write">> \o Name(kind)>>
Nested(kind) == <<<<"Write">>, Name(kind)>>
PathsOfWrites == [kind \in {"Transfer", "Withdraw"} |-> {Flat(kind)}]
PathsOfEntities ==
    [kind \in {"AddressableEntity", "Package", "BidKind", "NamedKey", "Message", "MessageTopic"} |->
        {Nested(kind)}]
PathsOfAmounts ==
    [Unbonding |-> {Flat("Unbonding")}, DeployInfo |-> {Flat("DeployInfo")},
     AddUInt512 |-> {<<Name("AddUInt512")>>}]
PathsOfValues == [CLValue |-> {Flat("CLValue"), Nested("CLValue")}]
PathsOfContracts == [kind \in {"Contract", "ContractPackage"} |-> {Nested(kind)}]
PathsOfAccounts == [Account |-> {Nested("Account"), Flat("Account")}]
Paths ==
    Merged(Merged(PathsOfWrites, PathsOfEntities),
           Merged(PathsOfAmounts, Merged(PathsOfValues, Merged(PathsOfContracts, PathsOfAccounts))))
Kinds == DOMAIN Paths

(* isWriteContract, isWriteAccount, ... of TransformKind.                    *)
(* Mutant: an account is recognised as a 1.x node writes it.                 *)
Recognised_OldAccount(data, kind) ==
    CASE kind = "Account" -> isTransformation(data, W("Account"))
      [] kind \in {"Contract", "ContractPackage"} ->
           \/ isTransformation(data, <<"Write">> \o Name(kind))
           \/ ReadPath(data, Paths[kind]) \notin {None, Thrown}
      [] kind \in {"Transfer", "Withdraw", "Unbonding", "DeployInfo"} ->
           isTransformation(data, <<"Write">> \o Name(kind))
      [] OTHER -> isTransformation(data, Name(kind))
Recognised(data, kind) ==
    CASE kind = "Account" ->
           \/ isTransformation(data, W("Account"))
           \/ isTransformation(data, <<"Write">>) /\ isTransformation(data, <<"Account">>)
      [] kind \in {"Contract", "ContractPackage"} ->
           \/ isTransformation(data, <<"Write">> \o Name(kind))
           \/ ReadPath(data, Paths[kind]) \notin {None, Thrown}
      [] kind \in {"Transfer", "Withdraw", "Unbonding", "DeployInfo"} ->
           isTransformation(data, <<"Write">> \o Name(kind))
      [] OTHER -> isTransformation(data, Name(kind))
(* The 1.x name of a value, and of a bid.                                    *)
isCLValueWrite(data) == isTransformation(data, <<"Write">> \o Name("CLValue"))
isWriteBid(data) == isTransformation(data, W("Bid"))
(* Asking isWriteContract or isWriteContractPackage of a bare string that is *)
(* neither parses the string, and throws.                                    *)
RecognisingThrows(data, kind) ==
    /\ kind \in {"Contract", "ContractPackage"} /\ data.plain
    /\ ~isTransformation(data, <<"Write">> \o Name(kind))

(* parseAsWriteContract, parseAsWriteAccount, ... of TransformKind: they     *)
(* throw when there is nothing to read, and parseAsWriteWithdraws gives no   *)
(* purses.  The account whose hash is all zeros is not read from a 2.x node. *)
ZeroAccount == "account-hash-00"
ParseAs(data, kind) ==
    LET read == ReadPath(data, Paths[kind])
    IN IF read = Thrown THEN Thrown
       ELSE IF read = None THEN (IF kind = "Withdraw" THEN <<>> ELSE Thrown)
       ELSE IF kind = "Account" /\ Len(data.path) = 2 /\ read = ZeroAccount THEN Thrown
       ELSE read
-----------------------------------------------------------------------------
(* Transfers.  A 1.x transfer names a deploy and the account it came from.   *)

AccountInitiator(account) == [publicKey |-> None, accountHash |-> account]
KeyInitiator(key) == [publicKey |-> key, accountHash |-> None]
InitiatorAddr(json) == [publicKey |-> Get(json, "PublicKey"), accountHash |-> Get(json, "AccountHash")]
DeployHash(hash) == [deploy |-> hash, transactionV1 |-> None]
Transfer(json, transactionHash, from) ==
    [amount |-> json.amount, transactionHash |-> transactionHash, from |-> from, id |-> json.id,
     to |-> json.to, source |-> json.source, target |-> json.target]

fromTransferV1(v1) == Transfer(v1, DeployHash(v1.deployHash), AccountInitiator(v1.from))
TransferV1(json) ==
    [deployHash |-> json.deploy_hash, from |-> json.from, amount |-> json.amount, id |-> json.id,
     to |-> json.to, source |-> json.source, target |-> json.target]
TransferV2(json) == Transfer(json, TransactionHash(json.transaction_hash), InitiatorAddr(json.from))
TransferFromJSON(json) ==
    IF Get(json, "Version2") # None THEN TransferV2(json.Version2)
    ELSE IF Get(json, "Version1") # None THEN fromTransferV1(TransferV1(json.Version1))
    ELSE fromTransferV1(TransferV1(json))

-----------------------------------------------------------------------------
(* Execution results.                                                        *)

Transform(key, kind) == [key |-> key, kind |-> kind]

(* The transfers a successful 1.x deploy made are found among its effects.   *)
WriteTransfer(json) ==
    [deployHash |-> json.deploy_hash, from |-> json.from, amount |-> json.amount, id |-> json.id,
     to |-> json.to, source |-> json.source, target |-> json.target]
TransfersOfEffects(transforms) ==
    LET writes == Among(transforms, {t \in ToSet(transforms) : Recognised(t.transform, "Transfer")})
    IN [i \in DOMAIN writes |-> fromTransferV1(WriteTransfer(ParseAs(writes[i].transform, "Transfer")))]
EffectsOf(data) ==
    [i \in DOMAIN data.effect.transforms |->
        Transform(data.effect.transforms[i].key, data.effect.transforms[i].transform)]

(* A new ExecutionResult: everything unset but the two lists.                *)
EmptyResult ==
    [initiator |-> None, errorMessage |-> None, limit |-> None, consumed |-> None, cost |-> None,
     refund |-> None, currentPrice |-> None, transfers |-> <<>>, effects |-> <<>>]

(* Mutant: a failure is read with the fields of a success.                   *)
ExecutionResultFromV1_NoError(v1) ==
    LET data == IF Get(v1, "Success") # None THEN v1.Success ELSE v1.Failure
    IN Merged([limit |-> 0, consumed |-> data.cost, cost |-> data.cost, refund |-> 0, currentPrice |-> 1,
               transfers |-> TransfersOfEffects(data.effect.transforms), effects |-> EffectsOf(data)],
              EmptyResult)
ExecutionResultFromV1(v1) ==
    IF Get(v1, "Success") # None
    THEN Merged([limit |-> 0, consumed |-> v1.Success.cost, cost |-> v1.Success.cost, refund |-> 0,
                 currentPrice |-> 1, transfers |-> TransfersOfEffects(v1.Success.effect.transforms),
                 effects |-> EffectsOf(v1.Success)], EmptyResult)
    ELSE IF Get(v1, "Failure") # None
    THEN Merged([errorMessage |-> v1.Failure.error_message, consumed |-> v1.Failure.cost,
                 effects |-> EffectsOf(v1.Failure)], EmptyResult)
    ELSE Thrown

ExecutionResultV2(json) ==
    [initiator |-> InitiatorAddr(json.initiator), errorMessage |-> json.error_message, limit |-> json.limit,
     consumed |-> json.consumed, cost |-> json.cost, refund |-> json.refund,
     currentPrice |-> json.current_price, transfers |-> Each(json.transfers, TransferFromJSON),
     effects |-> [i \in DOMAIN json.effects |-> Transform(json.effects[i].key, json.effects[i].kind)]]
ExecutionResultFromJSON(data) ==
    IF Get(data, "Version2") # None THEN ExecutionResultV2(data.Version2)
    ELSE IF Get(data, "Version1") # None THEN ExecutionResultFromV1(data.Version1)
    ELSE Thrown

ExecutionInfo(json) ==
    [blockHash |-> json.block_hash, blockHeight |-> json.block_height,
     executionResult |-> Member(json, "execution_result", ExecutionResultFromJSON)]
(* A 1.x node lists the results of a deploy: the first one is shown.         *)
(* Mutant: a height that is not known stays so.                              *)
ExecutionInfoFromV1_NoHeight(results, height) ==
    IF results = <<>> THEN Thrown
    ELSE [blockHash |-> results[1].block_hash, blockHeight |-> height,
          executionResult |-> ExecutionResultFromV1(results[1].result)]
ExecutionInfoFromV1(results, height) ==
    IF results = <<>> THEN Thrown
    ELSE [blockHash |-> results[1].block_hash, blockHeight |-> OrElse(height, 0),
          executionResult |-> ExecutionResultFromV1(results[1].result)]

(* A speculative execution: 2.x limits and consumption, or a 1.5 result.     *)
SpeculativeExecutionResult(json) ==
    [blockHash |-> Get(json, "block_hash"), limit |-> Get(json, "limit"),
     consumed |-> Get(json, "consumed"), errorMessage |-> Get(json, "error"),
     transfers |-> Each(json.transfers, TransferFromJSON), effects |-> json.effects]
SpeculativeExecResult(result) ==
    LET exec == result.execution_result
        isV2 == \E name \in {"block_hash", "limit", "consumed"} : Get(exec, name) # None
        isV1 == ~isV2 /\ DOMAIN exec \cap {"Success", "Failure"} # {}
    IN [blockHash |-> OrElse(Get(exec, "block_hash"), Get(result, "block_hash")),
        executionResult |-> IF isV2 THEN SpeculativeExecutionResult(exec) ELSE None,
        executionResultV1 |-> IF isV1 THEN exec ELSE None]
=============================================================================
