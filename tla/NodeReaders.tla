---------------------------- MODULE NodeReaders ----------------------------
(* How the answers of a node and its events are read, of whichever           *)
(* generation they are (src/src/rpc/response.ts, src/src/sse/event.ts).      *)
EXTENDS Executions, Stakes

(* A Transaction made of a read Deploy or TransactionV1.                     *)
newTransactionFromDeploy(deploy) ==
    [hash |-> DeployHash(deploy.hash), initiator |-> KeyInitiator(deploy.account)]
fromTransactionV1(v1) ==
    [hash |-> [deploy |-> None, transactionV1 |-> v1.hash], initiator |-> InitiatorAddr(v1.initiator_addr)]
TransactionWrapper(json) ==
    [deploy |-> Get(json, "Deploy"), transactionV1 |-> Get(json, "Version1")]

-----------------------------------------------------------------------------
(* Answers.                                                                  *)

ChainGetBlockResultV1Compatible(json) ==
    LET blockV1 == Member(json, "block", BlockV1)
        signed == Member(json, "block_with_signatures", BlockWithSignatures)
    IN IF blockV1 = Thrown \/ signed = Thrown THEN Thrown
       ELSE [blockV1 |-> blockV1, blockWithSignatures |-> signed]
newChainGetBlockResultFromV1Compatible(result) ==
    IF result.blockV1 # None THEN newBlockFromBlockV1(result.blockV1)
    ELSE IF result.blockWithSignatures # None
    THEN newBlockFromBlockWrapper(result.blockWithSignatures.block, result.blockWithSignatures.proofs)
    ELSE Thrown

ChainGetBlockTransfersResult(json) == Each(json.transfers, TransferFromJSON)
(* An answer that cannot be parsed is refused (parseResponse).               *)
getBlock(json) ==
    LET result == ChainGetBlockResultV1Compatible(json)
    IN IF result = Thrown THEN Thrown ELSE newChainGetBlockResultFromV1Compatible(result)
QueryGlobalStateResult(json) ==
    LET header == Member(json, "block_header", BlockHeader)
    IN IF header = Thrown THEN Thrown ELSE [blockHeader |-> header]

InfoGetDeployResult(json) ==
    [deploy |-> json.deploy, executionInfo |-> Member(json, "execution_info", ExecutionInfo),
     executionResultsV1 |-> OrElse(Get(json, "execution_results"), <<>>)]
InfoGetTransactionResult(transaction, info) == [transaction |-> transaction, executionInfo |-> info]
(* The height of the block is not passed on.                                 *)
toInfoGetTransactionResult(result) ==
    InfoGetTransactionResult(newTransactionFromDeploy(result.deploy),
        IF result.executionInfo # None THEN result.executionInfo
        ELSE IF result.executionResultsV1 # <<>> THEN ExecutionInfoFromV1(result.executionResultsV1, None)
        ELSE None)

InfoGetTransactionResultV1Compatible(json) ==
    [transaction |-> Member(json, "transaction", TransactionWrapper), deploy |-> Get(json, "deploy"),
     executionInfo |-> Member(json, "execution_info", ExecutionInfo),
     executionResults |-> OrElse(Get(json, "execution_results"), <<>>),
     blockHeight |-> Get(json, "block_height")]
(* 1.x results replace the info, and their initiator is the deploy's account.*)
InfoOfResults(parsed) ==
    IF parsed.executionResults = <<>> THEN parsed.executionInfo
    ELSE IF parsed.deploy = None THEN Thrown
    ELSE [ExecutionInfoFromV1(parsed.executionResults, parsed.blockHeight)
            EXCEPT !.executionResult.initiator = KeyInitiator(parsed.deploy.account)]
newInfoGetTransactionResultFromV1Compatible(parsed) ==
    LET wrapped == OrElse(parsed.transaction, TransactionWrapper(<<>>))
        OfDeploy(deploy) ==
            LET info == InfoOfResults(parsed)
            IN IF info = Thrown THEN Thrown
               ELSE InfoGetTransactionResult(newTransactionFromDeploy(deploy), info)
    IN IF wrapped.transactionV1 # None
       THEN InfoGetTransactionResult(fromTransactionV1(wrapped.transactionV1), parsed.executionInfo)
       ELSE IF wrapped.deploy # None THEN OfDeploy(wrapped.deploy)
       ELSE IF parsed.deploy # None THEN OfDeploy(parsed.deploy)
       ELSE Thrown
InfoGetTransactionResultFromJSON(json) ==
    newInfoGetTransactionResultFromV1Compatible(InfoGetTransactionResultV1Compatible(json))

(* The newer method first; the older one when the node does not know it.     *)
getLatestAuctionInfo(answerV2, answerV1) ==
    IF answerV2 # None THEN AuctionStateFromV2(AuctionStateV2(answerV2))
    ELSE AuctionStateFromV1(AuctionStateV1(answerV1))

-----------------------------------------------------------------------------
(* Events.                                                                   *)

(* A wrapped block that cannot be read is tried as a 1.x block.              *)
BlockAddedEvent(data) ==
    LET hash == data.BlockAdded.block_hash
        wrapper == BlockWrapper(data.BlockAdded.block)
        v1 == BlockV1(data.BlockAdded.block)
    IN IF wrapper # Thrown /\ (wrapper.blockV1 # None \/ wrapper.blockV2 # None)
       THEN [blockHash |-> hash, block |-> newBlockFromBlockWrapper(wrapper, <<>>)]
       ELSE IF v1 # Thrown THEN [blockHash |-> hash, block |-> newBlockFromBlockV1(v1)]
       ELSE Thrown

DeployAcceptedEvent(json) == Get(json, "DeployAccepted")
TransactionAcceptedEvent(data) ==
    LET payload == OrElse(Get(data, "TransactionAccepted"), <<>>)
        wrapper == TransactionWrapper(payload)
    IN IF wrapper.deploy # None THEN newTransactionFromDeploy(wrapper.deploy)
       ELSE IF wrapper.transactionV1 # None THEN fromTransactionV1(wrapper.transactionV1)
       ELSE IF DeployAcceptedEvent(payload) # None
       THEN newTransactionFromDeploy(DeployAcceptedEvent(payload))
       ELSE Thrown

TransactionExpiredPayload(json) == Member(json, "transaction_hash", TransactionHash)
DeployExpiredPayload(json) == json.deploy_hash
DeployExpiredEvent(json) == Member(json, "DeployExpired", DeployExpiredPayload)
(* Mutant: only the hash of a V1 transaction is accepted.                    *)
TransactionExpiredEvent_NoDeploys(data) ==
    LET payload == Get(data, "TransactionExpired")
        hash == IF payload = None THEN None ELSE TransactionExpiredPayload(payload)
    IN IF hash # None /\ hash.transactionV1 # None THEN hash ELSE Thrown
TransactionExpiredEvent(data) ==
    LET payload == Get(data, "TransactionExpired")
    IN IF payload = None THEN Thrown
       ELSE LET hash == TransactionExpiredPayload(payload)
            IN IF hash # None /\ (hash.transactionV1 # None \/ hash.deploy # None) THEN hash
               ELSE IF DeployExpiredEvent(payload) # None THEN DeployHash(DeployExpiredEvent(payload))
               ELSE Thrown

TransactionProcessedPayload(json) ==
    [blockHash |-> json.block_hash, hash |-> Member(json, "transaction_hash", TransactionHash),
     initiator |-> Member(json, "initiator_addr", InitiatorAddr),
     executionResult |-> Member(json, "execution_result", ExecutionResultFromJSON)]
DeployProcessedPayload(json) ==
    [blockHash |-> json.block_hash, hash |-> DeployHash(json.deploy_hash),
     initiator |-> KeyInitiator(json.account),
     executionResult |-> ExecutionResultFromV1(json.execution_result)]
DeployProcessedEvent(json) == Member(json, "DeployProcessed", DeployProcessedPayload)
TransactionProcessedEvent(data) ==
    LET payload == Get(data, "TransactionProcessed")
    IN IF payload = None THEN Thrown
       ELSE IF Get(payload, "transaction_hash") # None THEN TransactionProcessedPayload(payload)
       ELSE IF DeployProcessedEvent(payload) # None THEN DeployProcessedEvent(payload)
       ELSE Thrown

FinalitySignatureV1(json) == [blockHash |-> json.block_hash, publicKey |-> json.public_key]
FinalitySignatureV2(json) ==
    [blockHash |-> json.block_hash, publicKey |-> json.public_key, blockHeight |-> json.block_height]
FinalitySignatureWrapper(json) ==
    [v1 |-> Member(json, "V1", FinalitySignatureV1), v2 |-> Member(json, "V2", FinalitySignatureV2)]
FinalitySignatureEvent(data) ==
    LET wrapped == FinalitySignatureWrapper(data.FinalitySignature)
    IN IF wrapped.v1 # None THEN Merged([blockHeight |-> None], wrapped.v1)
       ELSE IF wrapped.v2 # None THEN wrapped.v2
       ELSE Merged([blockHeight |-> None], FinalitySignatureV1(data.FinalitySignature))
=============================================================================
