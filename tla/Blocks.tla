------------------------------- MODULE Blocks -------------------------------
(* Blocks and block headers of 1.x and 2.x nodes, read into one Block        *)
(* (src/src/types/Block.ts, EraEnd.ts, BlockProposer.ts).  A JSON object is  *)
(* a record; a member that is absent or null is None; an error thrown while  *)
(* reading is Thrown: an error in one member is one of the whole object.  A  *)
(* member whose class reads it without a guard cannot be absent: the readers *)
(* say so of those that an answer may lack.  "common" stands for the members *)
(* that every reading copies as they are: the state root, parent, body and   *)
(* seed hashes, the era, the random bit, the timestamp and the protocol      *)
(* version.                                                                  *)
EXTENDS Naturals, Sequences, FiniteSets, SequencesExt

CONSTANTS None, Thrown

(* A member of a JSON object, None when the object has no such member.       *)
Get(json, name) == IF name \in DOMAIN json THEN json[name] ELSE None
(* The member read by its class, and nothing read from nothing.              *)
Member(json, name, Read(_)) ==
    IF Get(json, name) = None THEN None ELSE Read(json[name])
OrElse(value, default) == IF value = None THEN default ELSE value
(* Every element read by its class; one that throws makes the whole throw.   *)
Each(seq, Read(_)) ==
    LET read == [i \in DOMAIN seq |-> Read(seq[i])]
    IN IF \E i \in DOMAIN seq : read[i] = Thrown THEN Thrown ELSE read
(* An object with one member, the members of two objects in one, and the     *)
(* elements of a list that are in a set, in their order.                     *)
Only(name, value) == [n \in {name} |-> value]
Merged(first, second) ==
    [n \in DOMAIN first \cup DOMAIN second |-> IF n \in DOMAIN first THEN first[n] ELSE second[n]]
Among(seq, elements) ==
    FlattenSeq([i \in DOMAIN seq |-> IF seq[i] \in elements THEN <<seq[i]>> ELSE <<>>])

-----------------------------------------------------------------------------
(* Rewards: one entry per payment in 1.x, a map to lists of amounts in 2.x.  *)

deserializeRewards(arr) ==
    LET validators == {arr[i][1] : i \in DOMAIN arr}
    IN IF Cardinality(validators) # Len(arr) THEN Thrown
       ELSE [v \in validators |-> arr[CHOOSE i \in DOMAIN arr : arr[i][1] = v][2]]
serializeRewards(map) ==
    LET validators == SetToSeq(DOMAIN map)
    IN [i \in DOMAIN validators |-> <<validators[i], map[validators[i]]>>]

EraReward(json) == [validator |-> json.validator, amount |-> json.amount]
EraReport(json) ==
    [equivocators |-> json.equivocators, inactiveValidators |-> json.inactive_validators,
     rewards |-> Each(json.rewards, EraReward)]
EraEndV1(json) ==
    [eraReport |-> EraReport(json.era_report),
     nextEraValidatorWeights |-> json.next_era_validator_weights]
EraEndV2(json) ==
    LET rewards == deserializeRewards(json.rewards)
    IN IF rewards = Thrown THEN Thrown
       ELSE [equivocators |-> json.equivocators, inactiveValidators |-> json.inactive_validators,
             nextEraValidatorWeights |-> json.next_era_validator_weights, rewards |-> rewards,
             nextEraGasPrice |-> json.next_era_gas_price]

EraEndFromV2(eraEnd) == eraEnd
(* The payments of each validator, in their order.                           *)
RewardsByValidator(rewards) ==
    [v \in {rewards[i].validator : i \in DOMAIN rewards} |->
        LET paid == Among(rewards, {reward \in ToSet(rewards) : reward.validator = v})
        IN [i \in DOMAIN paid |-> paid[i].amount]]
EraEndFromV1(eraEnd) ==
    [equivocators |-> eraEnd.eraReport.equivocators,
     inactiveValidators |-> eraEnd.eraReport.inactiveValidators,
     nextEraValidatorWeights |-> eraEnd.nextEraValidatorWeights,
     rewards |-> RewardsByValidator(eraEnd.eraReport.rewards), nextEraGasPrice |-> 1]

Proposer(json) ==
    IF json = "00" THEN [isSystem |-> TRUE, publicKey |-> None]
    ELSE [isSystem |-> FALSE, publicKey |-> json]
ProposerJSON(proposer) == IF proposer.isSystem THEN "00" ELSE proposer.publicKey

-----------------------------------------------------------------------------
(* Transactions of a block.  2.x files hashes under the category they ran    *)
(* in; a hash is written under "Deploy" or "Version1".                       *)

Categories == [Mint |-> 0, Auction |-> 1, InstallUpgrade |-> 2, Large |-> 3, Medium |-> 4, Small |-> 5]

TransactionHash(json) == [deploy |-> Get(json, "Deploy"), transactionV1 |-> Get(json, "Version1")]

BlockTransaction(category, version, hash) == [category |-> category, version |-> version, hash |-> hash]

getBlockTransactionsFromTransactionHashes(hashes, category) ==
    Each(hashes, LAMBDA hash :
        IF hash.transactionV1 # None THEN BlockTransaction(category, "V1", hash.transactionV1)
        ELSE IF hash.deploy # None THEN BlockTransaction(category, "Deploy", hash.deploy)
        ELSE Thrown)

(* data: the hashes filed under each category, a function of its number.     *)
BlockTransactionFromJSON(data) ==
    LET Filed(c) ==
            IF c \in DOMAIN data
            THEN getBlockTransactionsFromTransactionHashes(Each(data[c], TransactionHash), c) ELSE <<>>
        read == [c \in 1..6 |-> Filed(c - 1)]
    IN IF \E c \in 1..6 : read[c] = Thrown THEN Thrown ELSE FlattenSeq(read)

BlockTransactionJSON(transaction) ==
    [category |-> transaction.category, hash |-> Only(transaction.version, transaction.hash)]
(* One object per transaction, merged: the last of a category replaces the   *)
(* ones before it.                                                           *)
(* Mutant: the first of a category is kept.                                  *)
BlockTransactionsJSON_First(transactions) ==
    LET json == [i \in DOMAIN transactions |-> BlockTransactionJSON(transactions[i])]
        Earliest(c) == SelectInSeq(json, LAMBDA tx : tx.category = c)
    IN [c \in {json[i].category : i \in DOMAIN json} |-> <<json[Earliest(c)].hash>>]
BlockTransactionsJSON(transactions) ==
    LET json == [i \in DOMAIN transactions |-> BlockTransactionJSON(transactions[i])]
        Latest(c) == SelectLastInSeq(json, LAMBDA tx : tx.category = c)
    IN [c \in {json[i].category : i \in DOMAIN json} |-> <<json[Latest(c)].hash>>]

-----------------------------------------------------------------------------
(* The blocks of the two generations.                                        *)

BlockHeaderV1(json) ==
    [common |-> json.common, height |-> json.height, eraEnd |-> Member(json, "era_end", EraEndV1)]
BlockBodyV1(json) ==
    [deployHashes |-> json.deploy_hashes, proposer |-> Proposer(json.proposer),
     transferHashes |-> json.transfer_hashes]
BlockV1(json) ==
    IF Get(json, "hash") = None THEN Thrown
    ELSE [hash |-> json.hash, header |-> Member(json, "header", BlockHeaderV1),
          body |-> Member(json, "body", BlockBodyV1), proofs |-> Get(json, "proofs")]

(* The hash of the last switch block is read without a guard.                *)
BlockHeaderV2(json) ==
    LET eraEnd == Member(json, "era_end", EraEndV2)
    IN IF json.last_switch_block_hash = None \/ eraEnd = Thrown THEN Thrown
       ELSE [common |-> json.common, height |-> json.height, currentGasPrice |-> json.current_gas_price,
             proposer |-> Proposer(json.proposer), lastSwitchBlockHash |-> json.last_switch_block_hash,
             eraEnd |-> eraEnd]
BlockBodyV2(json) ==
    LET transactions == BlockTransactionFromJSON(json.transactions)
    IN IF transactions = Thrown THEN Thrown
       ELSE [transactions |-> transactions, rewardedSignatures |-> json.rewarded_signatures]
BlockV2(json) ==
    LET header == BlockHeaderV2(json.header)
        body == BlockBodyV2(json.body)
    IN IF header = Thrown \/ body = Thrown THEN Thrown
       ELSE [hash |-> json.hash, header |-> header, body |-> body]

BlockWrapper(json) ==
    LET blockV1 == Member(json, "Version1", BlockV1)
        blockV2 == Member(json, "Version2", BlockV2)
    IN IF blockV1 = Thrown \/ blockV2 = Thrown THEN Thrown
       ELSE [blockV1 |-> blockV1, blockV2 |-> blockV2]
BlockWithSignatures(json) ==
    LET block == BlockWrapper(json.block)
    IN IF block = Thrown THEN Thrown ELSE [block |-> block, proofs |-> json.proofs]

(* A read block written back as JSON by its members' serializers.            *)
BlockV2JSON(block) ==
    [hash |-> block.hash,
     header |->
        [common |-> block.header.common, height |-> block.header.height,
         current_gas_price |-> block.header.currentGasPrice,
         proposer |-> ProposerJSON(block.header.proposer),
         last_switch_block_hash |-> block.header.lastSwitchBlockHash,
         era_end |-> Member(block.header, "eraEnd", LAMBDA end :
            [equivocators |-> end.equivocators, inactive_validators |-> end.inactiveValidators,
             next_era_validator_weights |-> end.nextEraValidatorWeights,
             rewards |-> serializeRewards(end.rewards), next_era_gas_price |-> end.nextEraGasPrice])],
     body |-> [transactions |-> BlockTransactionsJSON(block.body.transactions),
               rewarded_signatures |-> block.body.rewardedSignatures]]

-----------------------------------------------------------------------------
(* The one Block and the one BlockHeader made of either.                     *)

TransactionsOfBodyV1(body) ==
    [i \in DOMAIN body.transferHashes |->
        BlockTransaction(Categories.Mint, "Deploy", body.transferHashes[i])]
      \o [i \in DOMAIN body.deployHashes |->
            BlockTransaction(Categories.Large, "Deploy", body.deployHashes[i])]

(* What both generations say in their own places.                            *)
Block(block, proposer, transactions, proofs) ==
    [hash |-> block.hash, height |-> block.header.height, common |-> block.header.common,
     proposer |-> proposer, transactions |-> transactions, proofs |-> proofs]

newBlockFromBlockV1(block) ==
    Merged([lastSwitchBlockHash |-> None, currentGasPrice |-> 1, rewardedSignatures |-> <<>>,
            eraEnd |-> Member(block.header, "eraEnd", EraEndFromV1), originBlockV2 |-> None],
           Block(block, block.body.proposer, TransactionsOfBodyV1(block.body), block.proofs))

newBlockFromBlockV2(block, proofs) ==
    Merged([lastSwitchBlockHash |-> block.header.lastSwitchBlockHash,
            currentGasPrice |-> block.header.currentGasPrice,
            rewardedSignatures |-> block.body.rewardedSignatures,
            eraEnd |-> Member(block.header, "eraEnd", EraEndFromV2), originBlockV2 |-> block],
           Block(block, block.header.proposer, block.body.transactions, proofs))

newBlockFromBlockWrapper(wrapper, proofs) ==
    IF wrapper.blockV1 # None THEN [newBlockFromBlockV1(wrapper.blockV1) EXCEPT !.proofs = proofs]
    ELSE IF wrapper.blockV2 # None THEN newBlockFromBlockV2(wrapper.blockV2, proofs)
    ELSE Thrown

BlockHeaderWrapper(json) ==
    LET headerV1 == Member(json, "Version1", BlockHeaderV1)
        headerV2 == Member(json, "Version2", BlockHeaderV2)
    IN IF headerV2 = Thrown THEN Thrown ELSE [blockHeaderV1 |-> headerV1, blockHeaderV2 |-> headerV2]
newBlockHeaderFromV1(header) ==
    [common |-> header.common, height |-> header.height, currentGasPrice |-> 1, proposer |-> None,
     eraEnd |-> Member(header, "eraEnd", EraEndFromV1)]
newBlockHeaderFromV2(header) ==
    [common |-> header.common, height |-> header.height, currentGasPrice |-> header.currentGasPrice,
     proposer |-> header.proposer, eraEnd |-> Member(header, "eraEnd", EraEndFromV2)]

(* The members of the unified classes, which the answer to a query is read   *)
(* with, whatever generation of header it holds.  The hashes, the proposer   *)
(* and the lists of the end of an era are read without a guard.              *)
EraEnd(json) ==
    LET rewards == Member(json, "rewards", deserializeRewards)
    IN IF \/ rewards \in {None, Thrown}
          \/ Get(json, "equivocators") = None \/ Get(json, "inactive_validators") = None
       THEN Thrown
       ELSE [equivocators |-> json.equivocators, inactiveValidators |-> json.inactive_validators,
             nextEraValidatorWeights |-> OrElse(Get(json, "next_era_validator_weights"), <<>>),
             rewards |-> rewards, nextEraGasPrice |-> OrElse(Get(json, "next_era_gas_price"), 1)]
BlockHeader(json) ==
    LET eraEnd == Member(json, "era_end", EraEnd)
    IN IF Get(json, "common") = None \/ Get(json, "proposer") = None \/ eraEnd = Thrown THEN Thrown
       ELSE [common |-> json.common, height |-> Get(json, "height"),
             currentGasPrice |-> Get(json, "current_gas_price"), proposer |-> Proposer(json.proposer),
             eraEnd |-> eraEnd]
=============================================================================
