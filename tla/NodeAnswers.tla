---------------------------- MODULE NodeAnswers ----------------------------
(* What a node of API 1 or 2 says of a fact of the chain: the JSON that the  *)
(* classes of src/src/types and src/src/rpc/response.ts read, in the shapes  *)
(* of the repository's fixtures (src/src/tests/data).  The node itself is    *)
(* outside the repository; JSON is written as Blocks.tla describes it.       *)
(*                                                                           *)
(* A block fact b was made by a node of generation b.gen and keeps its form  *)
(* when a later node answers for it.  A transaction fact t knows what        *)
(* happened: its error, what it cost, its transfers and its effects.         *)
EXTENDS Executions, Stakes

IsTransfer(t) == t.category = Categories.Mint
HashesOf(txs) == [i \in DOMAIN txs |-> txs[i].hash]
NodeInitiator(t) == [PublicKey |-> t.sender]
NodeHash(t) == IF t.version = "Deploy" THEN [Deploy |-> t.hash] ELSE [Version1 |-> t.hash]
NodeProposer(proposer) == IF proposer = "system" THEN "00" ELSE proposer

-----------------------------------------------------------------------------
(* Blocks.                                                                   *)

EraEndV1JSON(end) ==
    LET validators == SetToSeq(DOMAIN end.rewards)
        Paid(v) == [i \in DOMAIN end.rewards[v] |-> [validator |-> v, amount |-> end.rewards[v][i]]]
    IN [era_report |->
            [equivocators |-> end.equivocators, inactive_validators |-> end.inactiveValidators,
             rewards |-> FlattenSeq([i \in DOMAIN validators |-> Paid(validators[i])])],
        next_era_validator_weights |-> end.weights]
EraEndV2JSON(end) ==
    LET validators == SetToSeq(DOMAIN end.rewards)
    IN [equivocators |-> end.equivocators, inactive_validators |-> end.inactiveValidators,
        next_era_validator_weights |-> end.weights, next_era_gas_price |-> end.gasPrice,
        rewards |-> [i \in DOMAIN validators |-> <<validators[i], end.rewards[validators[i]]>>]]

BlockV1HeaderJSON(b) ==
    [common |-> b.common, height |-> b.height, era_end |-> Member(b, "eraEnd", EraEndV1JSON)]
BareBlockV1(b) ==
    [hash |-> b.hash, header |-> BlockV1HeaderJSON(b),
     body |-> [deploy_hashes |-> HashesOf(Among(b.txs, {t \in ToSet(b.txs) : ~IsTransfer(t)})),
               transfer_hashes |-> HashesOf(Among(b.txs, {t \in ToSet(b.txs) : IsTransfer(t)})),
               proposer |-> NodeProposer(b.proposer)]]
BlockV2HeaderJSON(b) ==
    [common |-> b.common, height |-> b.height, current_gas_price |-> b.gasPrice,
     proposer |-> NodeProposer(b.proposer), last_switch_block_hash |-> b.lastSwitch,
     era_end |-> Member(b, "eraEnd", EraEndV2JSON)]
TransactionsJSON(txs) ==
    [c \in {txs[i].category : i \in DOMAIN txs} |->
        LET filed == Among(txs, {t \in ToSet(txs) : t.category = c})
        IN [i \in DOMAIN filed |-> NodeHash(filed[i])]]
BareBlockV2(b) ==
    [hash |-> b.hash, header |-> BlockV2HeaderJSON(b),
     body |-> [transactions |-> TransactionsJSON(b.txs), rewarded_signatures |-> b.rewardedSignatures]]
WrappedBlock(b) == IF b.gen = 1 THEN [Version1 |-> BareBlockV1(b)] ELSE [Version2 |-> BareBlockV2(b)]

(* chain_get_block, the BlockAdded event and the header of a query.          *)
BlockAnswer(api, b) ==
    IF api = 1 THEN [block |-> Merged([proofs |-> b.proofs], BareBlockV1(b))]
    ELSE [block_with_signatures |-> [block |-> WrappedBlock(b), proofs |-> b.proofs]]
BlockAddedJSON(api, b) ==
    [BlockAdded |-> [block_hash |-> b.hash, block |-> IF api = 1 THEN BareBlockV1(b) ELSE WrappedBlock(b)]]
QueriedHeader(api, b) ==
    IF api = 1 THEN BlockV1HeaderJSON(b)
    ELSE IF b.gen = 1 THEN [Version1 |-> BlockV1HeaderJSON(b)] ELSE [Version2 |-> BlockV2HeaderJSON(b)]

-----------------------------------------------------------------------------
(* Transfers, effects and results of executions.                             *)

TransferV1JSON(t, i) ==
    Merged([deploy_hash |-> t.hash, from |-> t.account], t.transfers[i])
TransferV2JSON(t, i) ==
    Merged([transaction_hash |-> NodeHash(t), from |-> NodeInitiator(t)], t.transfers[i])
TransferJSON(gen, wrapped, t, i) ==
    IF gen = 2 THEN [Version2 |-> TransferV2JSON(t, i)]
    ELSE IF wrapped THEN [Version1 |-> TransferV1JSON(t, i)] ELSE TransferV1JSON(t, i)
BlockTransfersAnswer(api, b) ==
    LET done == Among(b.txs, {t \in ToSet(b.txs) : t.error = None})
    IN FlattenSeq([k \in DOMAIN done |->
            [i \in DOMAIN done[k].transfers |-> TransferJSON(b.gen, api = 2, done[k], i)]])

(* An effect e wrote e.value, which holds members named e.inside.  1.x says  *)
(* that a contract was written and not what it is.                           *)
EffectJSON(gen, e) ==
    LET word == IF e.kind = "AddUInt512" THEN Name(e.kind) ELSE <<"Write">> \o Name(e.kind)
        bare == e.kind = "Identity" \/ (gen = 1 /\ e.kind \in {"Contract", "ContractPackage"})
        path == IF e.kind = "Identity" THEN <<<<"Identity">>>>
                ELSE IF gen = 1 \/ e.kind = "AddUInt512" THEN <<word>>
                ELSE <<<<"Write">>, Name(e.kind)>>
    IN [path |-> path, plain |-> bare, value |-> e.value, inside |-> IF bare THEN {} ELSE e.inside]
EffectsV1JSON(t) ==
    [i \in DOMAIN t.effects |-> [key |-> t.effects[i].key, transform |-> EffectJSON(1, t.effects[i])]]
TransferWrites(t) ==
    [i \in DOMAIN t.transfers |->
        [key |-> t.transfers[i].to,
         transform |-> EffectJSON(1, [kind |-> "Transfer", value |-> TransferV1JSON(t, i), inside |-> {}])]]
ResultV1JSON(t) ==
    LET effect == [transforms |-> EffectsV1JSON(t) \o (IF t.error = None THEN TransferWrites(t) ELSE <<>>)]
    IN IF t.error = None THEN [Success |-> [cost |-> t.cost, effect |-> effect]]
       ELSE [Failure |-> [cost |-> t.cost, effect |-> effect, error_message |-> t.error]]
ResultV2JSON(t) ==
    [initiator |-> NodeInitiator(t), error_message |-> t.error, limit |-> t.limit,
     consumed |-> t.consumed, cost |-> t.cost, refund |-> t.refund, current_price |-> t.price,
     transfers |-> IF t.error = None
                   THEN [i \in DOMAIN t.transfers |-> TransferJSON(2, TRUE, t, i)] ELSE <<>>,
     effects |-> [i \in DOMAIN t.effects |->
                    [key |-> t.effects[i].key, kind |-> EffectJSON(2, t.effects[i])]]]
ResultJSON(gen, t) == IF gen = 1 THEN [Version1 |-> ResultV1JSON(t)] ELSE [Version2 |-> ResultV2JSON(t)]

(* info_get_deploy and info_get_transaction; b is the block the transaction  *)
(* is in, None while it waits.  A 1.x node may or may not tell the height.   *)
DeployJSON(t) == [hash |-> t.hash, account |-> t.sender]
ExecutionInfoJSON(b, t) ==
    [block_hash |-> b.hash, block_height |-> b.height, execution_result |-> ResultJSON(b.gen, t)]
DeployAnswer(api, b, t, withHeight) ==
    IF api = 1
    THEN [deploy |-> DeployJSON(t),
          execution_results |->
            IF b = None THEN <<>> ELSE <<[block_hash |-> b.hash, result |-> ResultV1JSON(t)]>>,
          block_height |-> IF b = None \/ ~withHeight THEN None ELSE b.height]
    ELSE [deploy |-> DeployJSON(t),
          execution_info |-> IF b = None THEN None ELSE ExecutionInfoJSON(b, t)]
WrappedTransaction(t) ==
    IF t.version = "Deploy" THEN [Deploy |-> DeployJSON(t)]
    ELSE [Version1 |-> [hash |-> t.hash, initiator_addr |-> NodeInitiator(t)]]
TransactionAnswer(b, t) ==
    [transaction |-> WrappedTransaction(t),
     execution_info |-> IF b = None THEN None ELSE ExecutionInfoJSON(b, t)]

(* The events about a transaction, under the names of the two generations.   *)
AcceptedJSON(api, t) ==
    IF api = 1 THEN [DeployAccepted |-> DeployJSON(t)] ELSE [TransactionAccepted |-> WrappedTransaction(t)]
ExpiredJSON(api, t) ==
    IF api = 1 THEN [DeployExpired |-> [deploy_hash |-> t.hash]]
    ELSE [TransactionExpired |-> [transaction_hash |-> NodeHash(t)]]
ProcessedJSON(api, b, t) ==
    IF api = 1
    THEN [DeployProcessed |->
            [block_hash |-> b.hash, deploy_hash |-> t.hash, account |-> t.sender,
             execution_result |-> ResultV1JSON(t)]]
    ELSE [TransactionProcessed |->
            [block_hash |-> b.hash, transaction_hash |-> NodeHash(t),
             initiator_addr |-> NodeInitiator(t), execution_result |-> ResultJSON(b.gen, t)]]
FinalitySignatureJSON(api, b, signer) ==
    LET signed == [block_hash |-> b.hash, public_key |-> signer]
        signedV2 == Merged([block_height |-> b.height], signed)
    IN [FinalitySignature |->
            IF api = 1 THEN signed ELSE IF b.gen = 1 THEN [V1 |-> signed] ELSE [V2 |-> signedV2]]

(* A speculative execution answers in the form of the node's generation.     *)
SpeculativeAnswer(api, b, t) ==
    IF api = 1 THEN [block_hash |-> b.hash, execution_result |-> ResultV1JSON(t)]
    ELSE [execution_result |->
            [block_hash |-> b.hash, limit |-> t.limit, consumed |-> t.consumed, error |-> t.error,
             transfers |-> ResultV2JSON(t).transfers, effects |-> ResultV2JSON(t).effects]]

-----------------------------------------------------------------------------
(* Stakes: a validator's bid v with its delegators, payments and packages.   *)
(* Bids of other kinds are told by the newer method only.                    *)

KindJSON(who) == IF who.purse = None THEN [PublicKey |-> who.publicKey] ELSE [Purse |-> who.purse]
DelegatorV1JSON(v, d) == [public_key |-> d.who.publicKey, delegatee |-> v.key, stake |-> d.stake]
DelegatorJSON(v, d) ==
    [delegator_kind |-> KindJSON(d.who), validator_public_key |-> v.key, stake |-> d.stake]
BidJSON(v, Delegators(_, _)) ==
    [validator_public_key |-> v.key, stake |-> v.stake, terms |-> v.terms,
     delegators |-> [i \in DOMAIN v.delegators |-> Delegators(v, v.delegators[i])]]
Wrapped(v, d) == [delegator_public_key |-> d.who.publicKey, delegator |-> DelegatorJSON(v, d)]

(* state_get_auction_info of a 1.x node, of a 2.x node for 1.x clients, and  *)
(* the newer state_get_auction_info_v2.                                      *)
AuctionV1JSON(api, validators) ==
    [era |-> "era",
     bids |-> [i \in DOMAIN validators |->
        [public_key |-> validators[i].key,
         bid |-> IF api = 1 THEN BidJSON(validators[i], DelegatorV1JSON) ELSE BidJSON(validators[i], Wrapped)]]]
AuctionV2JSON(validators) ==
    LET Validator(v) ==
            [public_key |-> v.key,
             bid |-> [Validator |-> [validator_public_key |-> v.key, stake |-> v.stake, terms |-> v.terms,
                        minimum_delegation_amount |-> v.min, maximum_delegation_amount |-> v.max,
                        reserved_slots |-> v.reserved]]]
        Entries(v) ==
            <<Validator(v)>> \o [i \in DOMAIN v.delegators |->
                [public_key |-> v.key, bid |-> [Delegator |-> DelegatorJSON(v, v.delegators[i])]]]
            \o [i \in DOMAIN v.others |->
                [public_key |-> v.key, bid |-> Only(v.others[i].name, v.others[i].value)]]
    IN [era |-> "era", bids |-> FlattenSeq([i \in DOMAIN validators |-> Entries(validators[i])])]

(* A payment p to a validator (p.who = None) or to a delegator of it; 2.x    *)
(* names a delegator in one of two ways.                                     *)
AllocationJSON(api, name, p) ==
    LET paid == [validator_public_key |-> p.validator, amount |-> p.amount]
    IN IF p.who = None THEN [Validator |-> paid]
       ELSE IF api = 1 THEN [Delegator |-> Merged([delegator_public_key |-> p.who.publicKey], paid)]
       ELSE Only(name, Merged([delegator_kind |-> KindJSON(p.who)], paid))
EraSummaryJSON(api, name, payments) ==
    [block_hash |-> "eraBlock", era_id |-> 7, state_root_hash |-> "root",
     stored_value |-> [EraInfo |->
        [seigniorage_allocations |-> [i \in DOMAIN payments |-> AllocationJSON(api, name, payments[i])]]]]

PackageJSON(api, p) ==
    LET Version(v) == [protocol_version_major |-> v[1], contract_version |-> v[2]]
        Group(g) == IF api = 1 THEN [group |-> g.name, keys |-> g.users]
                    ELSE [group_name |-> g.name, group_users |-> g.users]
        versions == [i \in DOMAIN p.versions |-> Merged([contract_hash |-> p.hashes[i]], Version(p.versions[i]))]
    IN [access_key |-> p.accessKey, lock_status |-> p.lockStatus, versions |-> versions,
        groups |-> [i \in DOMAIN p.groups |-> Group(p.groups[i])],
        disabled_versions |->
            IF api = 1 THEN [objects |-> [i \in DOMAIN p.disabled |-> Version(p.disabled[i])]]
            ELSE [arrays |-> p.disabled]]
=============================================================================
