------------------------------- MODULE Stakes -------------------------------
(* Bids, delegations, seigniorage and contract packages as 1.x and 2.x nodes *)
(* write them, read into one form (src/src/types/Bid.ts, BidKind.ts,         *)
(* AuctionState.ts, EraInfo.ts, ContractPackage.ts).  "stake" stands for the *)
(* bonding purse, the staked amount and the vesting schedule, and "terms"    *)
(* for the delegation rate and the inactive flag: every reading copies them. *)
EXTENDS Blocks

-----------------------------------------------------------------------------
(* Who delegates: a public key, or a purse written as the hex of its address *)
(* and given full access rights.                                             *)

PublicKeyKind(key) == [publicKey |-> key, purse |-> None]
DelegationKind(json) ==
    IF Get(json, "PublicKey") # None THEN PublicKeyKind(json.PublicKey)
    ELSE IF Get(json, "Purse") # None
    THEN [publicKey |-> None, purse |-> [address |-> json.Purse, access |-> 7]]
    ELSE Thrown

Delegator(json) ==
    [stake |-> json.stake, delegatorKind |-> Member(json, "delegator_kind", DelegationKind),
     validatorPublicKey |-> Get(json, "validator_public_key")]
DelegatorV1(json) ==
    [stake |-> json.stake, publicKey |-> Get(json, "public_key"), delegatee |-> Get(json, "delegatee")]

(* Mutant: the two keys of a 1.x delegation are swapped.                     *)
newDelegatorFromDelegatorV1_Swapped(v1) ==
    [stake |-> v1.stake, delegatorKind |-> PublicKeyKind(v1.delegatee), validatorPublicKey |-> v1.publicKey]
newDelegatorFromDelegatorV1(v1) ==
    [stake |-> v1.stake, delegatorKind |-> PublicKeyKind(v1.publicKey), validatorPublicKey |-> v1.delegatee]
(* The first element decides how all of them are read.                       *)
DelegatorFromJSON(json) ==
    IF json # <<>> /\ Get(json[1], "delegator_public_key") # None
    THEN [i \in DOMAIN json |-> Delegator(json[i].delegator)]
    ELSE [i \in DOMAIN json |-> newDelegatorFromDelegatorV1(DelegatorV1(json[i]))]

-----------------------------------------------------------------------------
(* Bids.                                                                     *)

ValidatorBid(json) ==
    [validatorPublicKey |-> Get(json, "validator_public_key"), stake |-> json.stake, terms |-> json.terms,
     minimumDelegationAmount |-> Get(json, "minimum_delegation_amount"),
     maximumDelegationAmount |-> Get(json, "maximum_delegation_amount"),
     reservedSlots |-> json.reserved_slots]
Bid(json) ==
    [validatorPublicKey |-> Get(json, "validator_public_key"), stake |-> json.stake, terms |-> json.terms,
     delegators |-> Member(json, "delegators", DelegatorFromJSON)]
(* Bridges, credits, reservations and unbonds are copied member by member.   *)
Bridge(json) == json
Credit(json) == json
Reservation(json) == json
Unbond(json) == json
BidKind(json) ==
    [unified |-> Member(json, "Unified", Bid), validator |-> Member(json, "Validator", ValidatorBid),
     delegator |-> Member(json, "Delegator", Delegator), bridge |-> Member(json, "Bridge", Bridge),
     credit |-> Member(json, "Credit", Credit), reservation |-> Member(json, "Reservation", Reservation),
     unbond |-> Member(json, "Unbond", Unbond)]
NoBid == [kind \in {"unified", "validator", "delegator", "bridge", "credit", "reservation", "unbond"} |-> None]

PublicKeyAndBid(json) == [publicKey |-> json.public_key, bid |-> Bid(json.bid)]
BidKindWrapper(json) == [publicKey |-> json.public_key, bid |-> BidKind(json.bid)]

-----------------------------------------------------------------------------
(* The auction.  "era" stands for the height, the validators of the eras and *)
(* the state root, which both forms share.                                   *)

DEFAULT_MINIMUM_DELEGATION_AMOUNT == "defaultMin"
DEFAULT_MAXIMUM_DELEGATION_AMOUNT == "defaultMax"

AuctionStateV1(json) ==
    [bids |-> [i \in DOMAIN json.bids |-> PublicKeyAndBid(json.bids[i])], era |-> json.era]
AuctionStateV2(json) ==
    [bids |-> [i \in DOMAIN json.bids |-> BidKindWrapper(json.bids[i])], era |-> json.era]

(* A validator's bid becomes one bid of the validator and one of each of its *)
(* delegators.                                                               *)
BidsOf(entry) ==
    LET validator ==
            [validatorPublicKey |-> entry.bid.validatorPublicKey, stake |-> entry.bid.stake,
             terms |-> entry.bid.terms, reservedSlots |-> 0,
             minimumDelegationAmount |-> DEFAULT_MINIMUM_DELEGATION_AMOUNT,
             maximumDelegationAmount |-> DEFAULT_MAXIMUM_DELEGATION_AMOUNT]
    IN <<[publicKey |-> entry.publicKey, bid |-> [NoBid EXCEPT !.validator = validator]]>>
         \o [i \in DOMAIN entry.bid.delegators |->
                [publicKey |-> entry.publicKey, bid |-> [NoBid EXCEPT !.delegator = entry.bid.delegators[i]]]]
AuctionStateFromV1(v1) ==
    [bids |-> FlattenSeq([i \in DOMAIN v1.bids |-> BidsOf(v1.bids[i])]), era |-> v1.era]
AuctionStateFromV2(v2) == v2

-----------------------------------------------------------------------------
(* The payments of an era.                                                   *)

DelegatorAllocation(json) ==
    [delegatorKind |-> Member(json, "delegator_kind", DelegationKind),
     validatorPublicKey |-> json.validator_public_key, amount |-> json.amount]
ValidatorAllocation(json) == [validatorPublicKey |-> json.validator_public_key, amount |-> json.amount]
DelegatorData(json) ==
    [delegatorPublicKey |-> Get(json, "delegator_public_key"),
     validatorPublicKey |-> json.validator_public_key, amount |-> json.amount]

(* A delegator is "DelegatorKind", or "Delegator" with a kind or with a key. *)
SeigniorageAllocation(json) ==
    LET delegator == Get(json, "Delegator")
    IN IF delegator # None /\ Get(delegator, "delegator_kind") # None
       THEN [validator |-> None, delegator |-> DelegatorAllocation(delegator)]
       ELSE IF delegator # None
       THEN LET data == DelegatorData(delegator)
            IN [validator |-> None,
                delegator |-> [delegatorKind |-> PublicKeyKind(data.delegatorPublicKey),
                               validatorPublicKey |-> data.validatorPublicKey, amount |-> data.amount]]
       ELSE IF Get(json, "Validator") # None
       THEN [validator |-> ValidatorAllocation(json.Validator), delegator |-> None]
       ELSE IF Get(json, "DelegatorKind") # None
       THEN [validator |-> None, delegator |-> DelegatorAllocation(json.DelegatorKind)]
       ELSE Thrown
EraInfo(json) == Each(json.seigniorage_allocations, SeigniorageAllocation)
EraSummary(json) ==
    [blockHash |-> json.block_hash, eraID |-> json.era_id, stateRootHash |-> json.state_root_hash,
     eraInfo |-> Member(json.stored_value, "EraInfo", EraInfo)]

-----------------------------------------------------------------------------
(* Contract packages.  A disabled version is an array of two numbers in 2.x  *)
(* ("arrays"), and an object in 1.x ("objects").                             *)

deserializeDisabledVersions(json) ==
    IF Get(json, "arrays") # None THEN json.arrays
    ELSE [i \in DOMAIN json.objects |->
            <<json.objects[i].contract_version, json.objects[i].protocol_version_major>>]

ContractGroup(json) ==
    [groupName |-> OrElse(Get(json, "group"), Get(json, "group_name")),
     groupUsers |-> OrElse(Get(json, "keys"), Get(json, "group_users"))]
ContractVersion(json) ==
    [contractHash |-> json.contract_hash, contractVersion |-> json.contract_version,
     protocolVersionMajor |-> json.protocol_version_major]
ContractPackage(json) ==
    [accessKey |-> json.access_key, lockStatus |-> json.lock_status,
     disabledVersions |-> Member(json, "disabled_versions", deserializeDisabledVersions),
     groups |-> [i \in DOMAIN json.groups |-> ContractGroup(json.groups[i])],
     versions |-> [i \in DOMAIN json.versions |-> ContractVersion(json.versions[i])]]
=============================================================================
