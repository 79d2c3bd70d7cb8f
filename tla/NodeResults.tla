---------------------------- MODULE NodeResults ----------------------------
(* A client follows a chain across the upgrade of its node from API 1 to     *)
(* API 2.  Blocks are added, the client asks about them, hears events, reads *)
(* a kept raw answer again and keeps a block as JSON.  What was told is held *)
(* against what happened, whatever generation wrote it and whatever way it   *)
(* was asked for.  The facts of the chain are NodeAnswers' inputs.           *)
EXTENDS NodeAnswers, NodeReaders

CONSTANTS
    BlockFacts,     \* the blocks that may be added, of both generations
    Waiting,        \* transactions that no block holds
    StakeFacts,     \* validators with their delegators
    PaymentFacts,   \* payments of an era
    PackageFacts,   \* contract packages
    MaxBlocks,      \* bound on the length of the chain
    MaxAnswers      \* bound on what the client asks and hears

(* What the facts are.  An object has these members and no other; a list is  *)
(* a sequence, whatever it lists.                                            *)
Has(object, names) == object = [n \in names |-> object[n]]
IsList(list) == list \in Seq(ToSet(list))
IsWho(who) == Has(who, {"publicKey", "purse"}) /\ (who.publicKey = None) # (who.purse = None)

(* The kinds of effects that the two generations write of a transaction; the *)
(* transfers of a 1.x deploy are written beside them.                        *)
KindsOf(gen) ==
    IF gen = 1 THEN {"CLValue", "Contract", "ContractPackage", "Account", "DeployInfo", "Withdraw",
                     "Unbonding", "AddUInt512"}
    ELSE {"CLValue", "Contract", "ContractPackage", "Package", "Account", "AddressableEntity", "BidKind",
          "NamedKey", "Message", "MessageTopic", "AddUInt512"}
IsEffect(gen, e) ==
    /\ Has(e, {"key", "kind", "value", "inside"}) /\ e.kind \in {"Identity"} \cup KindsOf(gen)
    /\ e.kind = "Identity" \/ (gen = 1 /\ e.kind \in {"Contract", "ContractPackage"})
         \/ e.value \notin {None, Thrown}
    /\ \A member \in e.inside : IsList(member) /\ ~Includes(member, W("Transfer"))
(* A 1.x node knows deploys only, files them in two places, and tells one    *)
(* number for what was consumed and what it cost.                            *)
IsTransaction(gen, t) ==
    /\ Has(t, {"hash", "version", "category", "error", "sender", "account", "limit", "consumed", "cost",
               "refund", "price", "transfers", "effects"})
    /\ t.hash # None /\ t.version \in {"Deploy", "V1"} /\ t.category \in 0..5
    /\ gen = 1 => /\ t.version = "Deploy" /\ t.consumed = t.cost
                  /\ t.category \in {Categories.Mint, Categories.Large}
    /\ IsList(t.transfers) /\ IsList(t.effects)
    /\ \A x \in ToSet(t.transfers) : Has(x, {"amount", "id", "to", "source", "target"})
    /\ \A e \in ToSet(t.effects) : IsEffect(gen, e)
IsEraEnd(gen, end) ==
    /\ Has(end, {"equivocators", "inactiveValidators", "weights", "gasPrice", "rewards"}) /\ end.weights # None
    /\ IsList(end.equivocators) /\ IsList(end.inactiveValidators)
    /\ Has(end.rewards, DOMAIN end.rewards) /\ IsFiniteSet(DOMAIN end.rewards)
    /\ \A v \in DOMAIN end.rewards : IsList(end.rewards[v])
    /\ gen = 1 => end.gasPrice = 1 /\ \A v \in DOMAIN end.rewards : end.rewards[v] # <<>>
IsBlockFact(f) ==
    /\ Has(f, {"hash", "gen", "common", "proposer", "eraEnd", "txs", "proofs", "gasPrice", "lastSwitch",
               "rewardedSignatures"})
    /\ f.gen \in {1, 2} /\ f.hash # None /\ f.common # None /\ f.proposer # "00"
    /\ IsList(f.proofs) /\ IsList(f.txs)
    /\ \A t \in ToSet(f.txs) : IsTransaction(f.gen, t)
    /\ \A i, j \in DOMAIN f.txs : f.txs[i].hash = f.txs[j].hash => i = j
    /\ f.eraEnd = None \/ IsEraEnd(f.gen, f.eraEnd)
    /\ f.gen = 1 => f.gasPrice = 1 /\ f.lastSwitch = None /\ f.rewardedSignatures = <<>>
IsValidator(v) ==
    /\ Has(v, {"key", "stake", "terms", "min", "max", "reserved", "delegators", "others"})
    /\ IsList(v.delegators) /\ IsList(v.others)
    /\ \A d \in ToSet(v.delegators) : Has(d, {"who", "stake"}) /\ IsWho(d.who)
    /\ \A x \in ToSet(v.others) :
         /\ Has(x, {"name", "value"}) /\ x.value # None
         /\ x.name \in {"Credit", "Bridge", "Reservation", "Unbond"}
IsPayment(p) == Has(p, {"who", "validator", "amount"}) /\ (p.who = None \/ IsWho(p.who))
IsPackage(p) ==
    /\ Has(p, {"accessKey", "lockStatus", "groups", "versions", "hashes", "disabled"})
    /\ IsList(p.groups) /\ IsList(p.versions) /\ IsList(p.disabled) /\ IsList(p.hashes)
    /\ \A g \in ToSet(p.groups) : Has(g, {"name", "users"}) /\ g.name # None /\ g.users # None
    /\ Len(p.hashes) = Len(p.versions)
    /\ \A n \in ToSet(p.versions) \cup ToSet(p.disabled) : n = <<n[1], n[2]>>

ASSUME BoundsAssumption == MaxBlocks \in Nat /\ MaxAnswers \in Nat
ASSUME BlocksAssumption == \A f \in BlockFacts : IsBlockFact(f)
ASSUME WaitingAssumption == \A t \in Waiting : IsTransaction(2, t)
ASSUME StakesAssumption == \A v \in StakeFacts : IsList(v) /\ \A x \in ToSet(v) : IsValidator(x)
ASSUME PaymentsAssumption == \A p \in PaymentFacts : IsList(p) /\ \A x \in ToSet(p) : IsPayment(x)
ASSUME PackagesAssumption == \A p \in PackageFacts : IsPackage(p)

VARIABLES chain, api, answers
vars == <<chain, api, answers>>

Placed == UNION {{[block |-> b, tx |-> t] : t \in ToSet(b.txs)} : b \in ToSet(chain)}
Known == Placed \cup {[block |-> None, tx |-> t] : t \in Waiting}

Init == chain = <<>> /\ api \in {1, 2} /\ answers = {}

AddBlock(f) ==
    /\ Len(chain) < MaxBlocks /\ f.gen = api
    /\ \A b \in ToSet(chain) : b.hash # f.hash
    /\ chain' = Append(chain, Merged([height |-> Len(chain) + 1], f))
    /\ UNCHANGED <<api, answers>>
Upgrade == api = 1 /\ api' = 2 /\ UNCHANGED <<chain, answers>>

Told(ask, about, raw, got) ==
    /\ Cardinality(answers) < MaxAnswers
    /\ answers' = answers \cup {[ask |-> ask, api |-> api, about |-> about, raw |-> raw, got |-> got]}
    /\ UNCHANGED <<chain, api>>
(* What is not read again later keeps no raw answer.                         *)
Asked(ask, about, got) == Told(ask, about, None, got)

(* Blocks: getBlockByHash, the BlockAdded event, a query of the state after  *)
(* a block, and the block of an answer written as JSON and read again.       *)
AskBlock(b) == Asked("block", b, getBlock(BlockAnswer(api, b)))
HearBlock(b) ==
    LET event == BlockAddedEvent(BlockAddedJSON(api, b))
    IN Asked("blockAdded", b, IF event = Thrown THEN Thrown ELSE event.block)
(* A query by block is answered with the header, one by state root without.  *)
AskHeader(b) == Asked("header", b, QueryGlobalStateResult([block_header |-> QueriedHeader(api, b)]))
AskStateRoot(b) == Asked("stateRoot", b, QueryGlobalStateResult([block_header |-> None]))
(* The same header, taken from the raw answer in its version and unified.    *)
UnwrapHeader(b) ==
    LET wrapper == BlockHeaderWrapper(QueriedHeader(api, b))
    IN /\ api = 2
       /\ Asked("unwrapped", b,
            IF wrapper = Thrown THEN Thrown
            ELSE IF wrapper.blockHeaderV1 # None THEN newBlockHeaderFromV1(wrapper.blockHeaderV1)
            ELSE newBlockHeaderFromV2(wrapper.blockHeaderV2))
KeepBlock(a) ==
    /\ a.ask = "block" /\ a.got # Thrown /\ a.got.originBlockV2 # None
    /\ LET block == BlockV2(BlockV2JSON(a.got.originBlockV2))
       IN Asked("kept", a.about, IF block = Thrown THEN Thrown ELSE newBlockFromBlockV2(block, a.got.proofs))

(* Executions: getBlockTransfers, getDeploy made a transaction's result,     *)
(* getTransaction, the raw answer of either read again, and the event.       *)
AskTransfers(b) ==
    Asked("transfers", b, ChainGetBlockTransfersResult([transfers |-> BlockTransfersAnswer(api, b)]))
AskDeploy(k, withHeight) ==
    LET raw == DeployAnswer(api, k.block, k.tx, withHeight)
    IN /\ k.tx.version = "Deploy"
       /\ Told("deploy", k, raw, toInfoGetTransactionResult(InfoGetDeployResult(raw)))
AskTransaction(k) ==
    LET raw == TransactionAnswer(k.block, k.tx)
    IN api = 2 /\ Told("transaction", k, raw, InfoGetTransactionResultFromJSON(raw))
Reread(a) ==
    /\ a.ask \in {"deploy", "transaction"}
    /\ Asked("reread", a.about, InfoGetTransactionResultFromJSON(a.raw))
HearProcessed(k) ==
    k.block # None /\ Asked("processed", k, TransactionProcessedEvent(ProcessedJSON(api, k.block, k.tx)))
Speculate(k) ==
    /\ k.block # None /\ k.block.gen = api
    /\ Asked("speculative", k, SpeculativeExecResult(SpeculativeAnswer(api, k.block, k.tx)))

(* Events that name a transaction or a block.                                *)
HearAccepted(k) == Asked("accepted", k, TransactionAcceptedEvent(AcceptedJSON(api, k.tx)))
HearExpired(k) == Asked("expired", k, TransactionExpiredEvent(ExpiredJSON(api, k.tx)))
HearFinality(b) ==
    \E signer \in ToSet(b.proofs) :
        Asked("finality", b, FinalitySignatureEvent(FinalitySignatureJSON(api, b, signer)))

(* State: the auction, by the newer method or by the older one, the payments *)
(* of an era, a contract package.                                            *)
AskAuction(v) ==
    Asked("auction", v, getLatestAuctionInfo(IF api = 2 THEN AuctionV2JSON(v) ELSE None, AuctionV1JSON(api, v)))
AskAuctionV1(v) ==
    /\ \A i \in DOMAIN v : \A d \in ToSet(v[i].delegators) : d.who.purse = None
    /\ Asked("auctionV1", v, AuctionStateFromV1(AuctionStateV1(AuctionV1JSON(api, v))))
AskPayments(p) ==
    \E name \in {"Delegator", "DelegatorKind"} :
        Asked("payments", p, EraSummary(EraSummaryJSON(api, name, p)))
AskPackage(p) == Asked("package", p, ContractPackage(PackageJSON(api, p)))

(* A purse cannot delegate to, nor be paid by, a 1.x node.                   *)
Speaks(who) == api = 2 \/ who = None \/ who.purse = None
SpeakableStakes == {v \in StakeFacts :
    \A i \in DOMAIN v : \A d \in ToSet(v[i].delegators) : Speaks(d.who)}
SpeakablePayments == {p \in PaymentFacts : \A i \in DOMAIN p : Speaks(p[i].who)}
Deploys == {k \in Known : api = 2 \/ k.tx.version = "Deploy"}

AskingBlocks ==
    \E b \in ToSet(chain) :
        \/ AskBlock(b) \/ HearBlock(b) \/ AskHeader(b) \/ AskStateRoot(b) \/ UnwrapHeader(b)
        \/ AskTransfers(b) \/ HearFinality(b)
AskingTransactions ==
    \E k \in Deploys :
        \/ AskTransaction(k) \/ HearProcessed(k) \/ HearAccepted(k) \/ HearExpired(k) \/ Speculate(k)
        \/ \E withHeight \in BOOLEAN : AskDeploy(k, withHeight)
AskingState ==
    \/ \E v \in SpeakableStakes : AskAuction(v) \/ AskAuctionV1(v)
    \/ \E p \in SpeakablePayments : AskPayments(p)
    \/ \E p \in PackageFacts : AskPackage(p)
Next ==
    \/ \E f \in BlockFacts : AddBlock(f)
    \/ Upgrade
    \/ AskingBlocks \/ AskingTransactions \/ AskingState
    \/ \E a \in answers : KeepBlock(a) \/ Reread(a)
Spec == Init /\ [][Next]_vars
-----------------------------------------------------------------------------
(* What is true of the facts.                                                *)

TrueProposer(b) ==
    IF b.proposer = "system" THEN [isSystem |-> TRUE, publicKey |-> None]
    ELSE [isSystem |-> FALSE, publicKey |-> b.proposer]
TrueTransactions(b) ==
    [i \in DOMAIN b.txs |-> [category |-> b.txs[i].category, version |-> b.txs[i].version, hash |-> b.txs[i].hash]]
TrueHash(t) ==
    IF t.version = "Deploy" THEN [deploy |-> t.hash, transactionV1 |-> None]
    ELSE [deploy |-> None, transactionV1 |-> t.hash]
(* Where a transfer came from is told as an account by 1.x, as a key by 2.x. *)
TrueTransfers(gen, t) ==
    [i \in DOMAIN t.transfers |->
        Merged([transactionHash |-> TrueHash(t),
                from |-> IF gen = 1 THEN [publicKey |-> None, accountHash |-> t.account]
                         ELSE [publicKey |-> t.sender, accountHash |-> None]], t.transfers[i])]
Done(k) == k.block # None
OfCategory(txs, c) == Among(txs, {t \in ToSet(txs) : t.category = c})
Kinded(answer, asks) == {a \in answer : a.ask \in asks}

(* The outcomes among the answers: each with the transaction it is about.    *)
Outcomes ==
    {[about |-> a.about, result |-> a.got.executionInfo.executionResult, info |-> a.got.executionInfo] :
        a \in {x \in Kinded(answers, {"deploy", "transaction", "reread"}) :
                    x.got # Thrown /\ x.got.executionInfo # None}}
    \cup {[about |-> a.about, result |-> a.got.executionResult, info |-> None] :
        a \in {x \in Kinded(answers, {"processed"}) : x.got # Thrown}}

(* Types: a parsed answer is what its class declares: a block has a height,  *)
(* an execution has a block, a height and a result with lists in it.         *)
TypeOK ==
    /\ api \in {1, 2} /\ Len(chain) <= MaxBlocks
    /\ \A a \in Kinded(answers, {"block", "blockAdded"}) : a.got # Thrown =>
         a.got.height \in 1..MaxBlocks /\ \A t \in ToSet(a.got.transactions) : t.category \in 0..5
    /\ \A o \in Outcomes :
         /\ o.info # None => o.info.blockHeight \in 0..MaxBlocks
         /\ IsFiniteSet(DOMAIN o.result.effects) /\ IsFiniteSet(DOMAIN o.result.transfers)

(* A 2.x block without a last switch block, as the first of a chain is,      *)
(* cannot be read in any way, although the unified block allows for it.      *)
NoLastSwitch(b) == b.gen = 2 /\ b.lastSwitch = None

(* A block is told as it is, with every transaction once and in its place,   *)
(* by whichever generation made it, and by the event as by the answer: only  *)
(* the signatures are not part of the event.  It is refused if and only if   *)
(* it is a 2.x block without a last switch block.                            *)
BlockTold ==
    /\ \A a \in Kinded(answers, {"block", "blockAdded"}) : (a.got = Thrown) = NoLastSwitch(a.about)
    /\ \A a \in Kinded(answers, {"block", "blockAdded"}) : a.got # Thrown =>
        LET b == a.about
        IN /\ a.got.hash = b.hash /\ a.got.height = b.height /\ a.got.common = b.common
           /\ a.got.proposer = TrueProposer(b)
           /\ a.got.lastSwitchBlockHash = b.lastSwitch /\ a.got.currentGasPrice = b.gasPrice
           /\ a.got.rewardedSignatures = b.rewardedSignatures
           /\ Len(a.got.transactions) = Len(b.txs)
           /\ \A c \in 0..5 : OfCategory(a.got.transactions, c) = OfCategory(TrueTransactions(b), c)
           /\ IF b.eraEnd = None THEN a.got.eraEnd = None
              ELSE a.got.eraEnd = [equivocators |-> b.eraEnd.equivocators,
                                   inactiveValidators |-> b.eraEnd.inactiveValidators,
                                   nextEraValidatorWeights |-> b.eraEnd.weights,
                                   rewards |-> b.eraEnd.rewards, nextEraGasPrice |-> b.eraEnd.gasPrice]
           /\ a.ask = "block" => a.got.proofs = b.proofs
           /\ a.ask = "blockAdded" => a.got.proofs \in {None, <<>>}

(* A query is refused whenever its answer carries a header: of a 2.x node    *)
(* every header is wrapped in its version, of a 1.x node none names its      *)
(* proposer.  A query by state root, which is answered without one, is told. *)
(* Taken out of its version first, a header tells the whole of it, only the  *)
(* proposer of a 1.x block and 2.x headers without last switch excepted.     *)
HeadersTold ==
    /\ \A a \in Kinded(answers, {"header"}) : a.got = Thrown
    /\ \A a \in Kinded(answers, {"stateRoot"}) : a.got = [blockHeader |-> None]
    /\ \A a \in Kinded(answers, {"unwrapped"}) :
         LET b == a.about
         IN IF NoLastSwitch(b) THEN a.got = Thrown
            ELSE /\ a.got.height = b.height /\ a.got.common = b.common
                 /\ a.got.currentGasPrice = b.gasPrice
                 /\ a.got.proposer = IF b.gen = 2 THEN TrueProposer(b) ELSE None
                 /\ (a.got.eraEnd = None) = (b.eraEnd = None)
                 /\ b.eraEnd # None =>
                      /\ a.got.eraEnd.nextEraValidatorWeights = b.eraEnd.weights
                      /\ a.got.eraEnd.equivocators = b.eraEnd.equivocators
                      /\ a.got.eraEnd.rewards = b.eraEnd.rewards

(* A 2.x block written and read back keeps of every category its last        *)
(* transaction and loses the others; when one of those it keeps is a V1      *)
(* transaction, the block is not readable any more.                          *)
KeptReadsBack ==
    \A a \in Kinded(answers, {"kept"}) :
        LET Mine(c) == OfCategory(TrueTransactions(a.about), c)
            categories == {c \in 0..5 : Mine(c) # <<>>}
        IN IF \E c \in categories : Last(Mine(c)).version = "V1" THEN a.got = Thrown
           ELSE /\ \A t \in ToSet(a.got.transactions) : t.category \in categories
                /\ \A c \in categories : OfCategory(a.got.transactions, c) = <<Last(Mine(c))>>
                /\ a.got.hash = a.about.hash /\ a.got.proposer = TrueProposer(a.about)
                /\ a.about.eraEnd # None => a.got.eraEnd.rewards = a.about.eraEnd.rewards

(* Blocks are told as they are, whole, by header, and after being kept.      *)
BlocksTold == BlockTold /\ HeadersTold /\ KeptReadsBack

(* However the outcome of a transaction is asked for, success is success,    *)
(* what was consumed is what was consumed, and what it cost is told unless a *)
(* 1.x node reports a failure.                                               *)
OutcomeTrue ==
    \A o \in Outcomes :
        LET t == o.about.tx
            gen == o.about.block.gen
        IN /\ o.result.errorMessage = t.error /\ o.result.consumed = t.consumed
           /\ o.result.cost = IF gen = 1 /\ t.error # None THEN None ELSE t.cost
           /\ gen = 2 => o.result.limit = t.limit /\ o.result.refund = t.refund
                        /\ o.result.currentPrice = t.price

(* The transfers of a block are those of its successful transactions, in     *)
(* order, and the outcome of each transaction tells its own of them.         *)
TransfersAgree ==
    /\ \A a \in Kinded(answers, {"transfers"}) :
         LET done == Among(a.about.txs, {t \in ToSet(a.about.txs) : t.error = None})
         IN a.got = FlattenSeq([k \in DOMAIN done |-> TrueTransfers(a.about.gen, done[k])])
    /\ \A o \in Outcomes : \A a \in Kinded(answers, {"transfers"}) :
         o.about.block = a.about =>
            o.result.transfers = Among(a.got, {x \in ToSet(a.got) : x.transactionHash = TrueHash(o.about.tx)})

(* Who made a transaction and where it ran: the initiator of the result is   *)
(* the sender or unset, the height is right or 0, and an info is there if    *)
(* and only if the transaction ran.                                          *)
WhoAndWhere ==
    \A a \in Kinded(answers, {"deploy", "transaction", "reread"}) :
        LET k == a.about
            sender == [publicKey |-> k.tx.sender, accountHash |-> None]
            info == a.got.executionInfo
        IN /\ a.got # Thrown
           /\ a.got.transaction = [hash |-> TrueHash(k.tx), initiator |-> sender]
           /\ (info # None) = Done(k)
           /\ Done(k) =>
                /\ info.blockHash = k.block.hash
                /\ info.blockHeight \in {0, k.block.height}
                /\ info.executionResult.initiator \in {None, sender}
                /\ k.block.gen = 2 => info.blockHeight = k.block.height
                                      /\ info.executionResult.initiator = sender

(* The kinds one effect is recognised as beside its own: those whose name is *)
(* part of the written kind's, or of the name of a member within the value.  *)
Confused == {<<"ContractPackage", "Contract">>, <<"ContractPackage", "Package">>, <<"MessageTopic", "Message">>}
Within(e, name) == \E member \in e.inside : Includes(member, name)
Unreadable(d, e) == d.plain \/ (e.kind = "Account" /\ e.value = ZeroAccount /\ Len(d.path) = 2)

(* The effects of an outcome are those that happened, in order.  Each is     *)
(* recognised as what it is, and parsed as it is, unless it is a bare word   *)
(* or the zero account; recognised as something else only where Confused     *)
(* says so; never parsed as anything else; and asking what it is throws only *)
(* for the words Identity and WriteContract.                                 *)
EffectsTold ==
    \A o \in Outcomes :
        LET written == o.about.tx.effects
        IN \A i \in DOMAIN written :
            LET d == o.result.effects[i].kind
                e == written[i]
            IN /\ o.result.effects[i].key = e.key
               /\ e.kind \in Kinds => Recognised(d, e.kind)
               /\ e.kind = "CLValue" /\ o.about.block.gen = 1 => isCLValueWrite(d)
               /\ isCLValueWrite(d) /\ ~Within(e, <<"Write">> \o Name("CLValue")) =>
                    e.kind = "CLValue" /\ o.about.block.gen = 1
               /\ isWriteBid(d) => Within(e, W("Bid"))
               /\ e.kind \in Kinds /\ ~Unreadable(d, e) => ParseAs(d, e.kind) = e.value
               /\ \A k \in Kinds \ {e.kind} :
                    /\ Recognised(d, k) => <<e.kind, k>> \in Confused \/ Within(e, Name(k))
                    /\ ParseAs(d, k) = IF k = "Withdraw" /\ ~d.plain THEN <<>> ELSE Thrown
                    /\ RecognisingThrows(d, k) => e.kind \in {"Identity", "Contract"}

(* An event of a 2.x node names its transaction or block and tells what      *)
(* became of it; the transaction events of a 1.x node are refused.           *)
EventsTold ==
    /\ \A a \in Kinded(answers, {"accepted", "expired", "processed"}) :
         LET t == a.about.tx
             sender == [publicKey |-> t.sender, accountHash |-> None]
         IN IF a.api = 1 THEN a.got = Thrown
            ELSE /\ a.ask = "expired" => a.got = TrueHash(t)
                 /\ a.ask = "accepted" => a.got = [hash |-> TrueHash(t), initiator |-> sender]
                 /\ a.ask = "processed" =>
                      /\ a.got.hash = TrueHash(t) /\ a.got.initiator = sender
                      /\ a.got.blockHash = a.about.block.hash
    /\ \A a \in Kinded(answers, {"finality"}) :
         /\ a.got.blockHash = a.about.hash
         /\ a.got.publicKey \in ToSet(a.about.proofs)
         /\ a.got.blockHeight = IF a.about.gen = 2 THEN a.about.height ELSE None

(* A speculative execution is told by the result of its generation, and by   *)
(* no other, with what it consumed and its error.                            *)
SpeculativeTold ==
    \A a \in Kinded(answers, {"speculative"}) :
        LET t == a.about.tx
            v1 == a.got.executionResultV1
            v2 == a.got.executionResult
        IN /\ a.got.blockHash = a.about.block.hash
           /\ (v1 = None) = (a.api = 2) /\ (v2 = None) = (a.api = 1)
           /\ v1 # None => IF t.error = None THEN v1.Success.cost = t.consumed
                           ELSE v1.Failure.error_message = t.error
           /\ v2 # None => /\ v2.consumed = t.consumed /\ v2.errorMessage = t.error
                           /\ v2.transfers = IF t.error = None THEN TrueTransfers(2, t) ELSE <<>>

(* Whatever way the outcome of a transaction is learnt, it is told in full.  *)
OutcomesTold == OutcomeTrue /\ TransfersAgree /\ WhoAndWhere /\ SpeculativeTold

(* The auction tells every validator and every delegator once, in order,     *)
(* with its stake and the validator it is with, and nobody else, by either   *)
(* method; the newer method tells the bids of the other kinds too.           *)
TrueDelegations(v) ==
    [j \in DOMAIN v.delegators |->
        LET d == v.delegators[j]
        IN [stake |-> d.stake, validatorPublicKey |-> v.key,
            delegatorKind |->
                [publicKey |-> d.who.publicKey,
                 purse |-> IF d.who.purse = None THEN None ELSE [address |-> d.who.purse, access |-> 7]]]]
OthersNamed(others, name) ==
    LET named == Among(others, {x \in ToSet(others) : x.name = name})
    IN [i \in DOMAIN named |-> named[i].value]
StakesTold ==
    \A a \in Kinded(answers, {"auction", "auctionV1"}) :
        LET v == a.about
            bids == a.got.bids
            told == [name \in DOMAIN NoBid |->
                        LET named == Among(bids, {x \in ToSet(bids) : x.bid[name] # None})
                        IN [i \in DOMAIN named |-> named[i].bid[name]]]
            delegations == FlattenSeq([i \in DOMAIN v |-> TrueDelegations(v[i])])
            others == FlattenSeq([i \in DOMAIN v |-> v[i].others])
        IN /\ [i \in DOMAIN told.validator |-> <<told.validator[i].validatorPublicKey, told.validator[i].stake>>]
                = [i \in DOMAIN v |-> <<v[i].key, v[i].stake>>]
           /\ told.delegator = delegations
           /\ IF a.ask = "auction" /\ a.api = 2
              THEN /\ \A i \in DOMAIN v : told.validator[i].minimumDelegationAmount = v[i].min
                   /\ told.credit \o told.bridge \o told.reservation \o told.unbond
                        = OthersNamed(others, "Credit") \o OthersNamed(others, "Bridge")
                            \o OthersNamed(others, "Reservation") \o OthersNamed(others, "Unbond")
                   /\ Len(bids) = Len(v) + Len(delegations) + Len(others)
              ELSE Len(bids) = Len(v) + Len(delegations)

(* The payments of an era are told one by one, a delegator's to it under     *)
(* either of the names a 2.x node uses.                                      *)
PaymentsTold ==
    \A a \in Kinded(answers, {"payments"}) :
        /\ a.got.eraInfo # Thrown /\ Len(a.got.eraInfo) = Len(a.about)
        /\ \A i \in DOMAIN a.about :
             LET p == a.about[i]
                 told == a.got.eraInfo[i]
             IN IF p.who = None
                THEN told.validator = [validatorPublicKey |-> p.validator, amount |-> p.amount]
                ELSE /\ told.validator = None
                     /\ told.delegator.validatorPublicKey = p.validator /\ told.delegator.amount = p.amount
                     /\ told.delegator.delegatorKind.publicKey = p.who.publicKey
                     /\ (told.delegator.delegatorKind.purse = None) = (p.who.purse = None)

(* A contract package keeps its versions, its groups and their members, and  *)
(* a 2.x node's disabled versions.                                           *)
PackagesTold ==
    \A a \in Kinded(answers, {"package"}) :
        LET p == a.about
        IN /\ \A i \in DOMAIN p.groups :
                a.got.groups[i] = [groupName |-> p.groups[i].name, groupUsers |-> p.groups[i].users]
           /\ \A i \in DOMAIN p.versions :
                /\ <<a.got.versions[i].protocolVersionMajor, a.got.versions[i].contractVersion>> = p.versions[i]
                /\ a.got.versions[i].contractHash = p.hashes[i]
           /\ a.api = 2 => a.got.disabledVersions = p.disabled

(* What the state of the chain holds is told by either generation of node.   *)
StateTold == StakesTold /\ PaymentsTold /\ PackagesTold

-----------------------------------------------------------------------------
(* Claims of the repository that its code does not keep.                     *)

(* A disabled version reads as [protocol_version_major, contract_version]    *)
(* (deserializeDisabledVersions, SerializationUtils.ts).                     *)
DisabledVersionsAreTuples ==
    \A a \in Kinded(answers, {"package"}) : a.got.disabledVersions = a.about.disabled
=============================================================================
