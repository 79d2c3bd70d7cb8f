--------------------------- MODULE MCNodeResults ---------------------------
(* A small chain: blocks of both generations, one of each closing an era and *)
(* one the first of a chain, with failed and successful transactions of      *)
(* every way of being written.                                               *)
EXTENDS NodeResults

Paid(id, to) == [amount |-> "5", id |-> id, to |-> to, source |-> "u1", target |-> "u2"]
Effect(key, kind, value, inside) == [key |-> key, kind |-> kind, value |-> value, inside |-> inside]
Tx(hash, version, category, error, transfers, effects) ==
    [hash |-> hash, version |-> version, category |-> category, error |-> error,
     sender |-> "kA", account |-> "accountA", limit |-> "l9", consumed |-> "c7", cost |-> "c8",
     refund |-> "r1", price |-> 2, transfers |-> transfers, effects |-> effects]
Tx1(hash, category, error, transfers, effects) ==
    [Tx(hash, "Deploy", category, error, transfers, effects) EXCEPT !.cost = "c7"]

(* The effects of a 1.x transaction and of a 2.x one, of every kind.         *)
Effects1 ==
    <<Effect("k1", "Identity", None, {}), Effect("k2", "CLValue", "v2", {}),
      Effect("k3", "CLValue", "v3", {<<"Account">>}), Effect("k4", "Contract", None, {}),
      Effect("k5", "ContractPackage", None, {}), Effect("k6", "Account", ZeroAccount, {}),
      Effect("k7", "DeployInfo", "v7", {}), Effect("k8", "Withdraw", <<"v8">>, {}),
      Effect("k9", "Unbonding", <<"v9">>, {}), Effect("k10", "AddUInt512", "v10", {})>>
Effects2 ==
    <<Effect("k1", "Identity", None, {}), Effect("k2", "CLValue", "v2", {}),
      Effect("k3", "Contract", "v3", {}), Effect("k4", "ContractPackage", "v4", {}),
      Effect("k5", "Package", "v5", {}), Effect("k6", "Account", ZeroAccount, {}),
      Effect("k7", "Account", "accountA", {}), Effect("k8", "AddressableEntity", "v8", {<<"Account">>}),
      Effect("k9", "BidKind", "v9", {}), Effect("k10", "NamedKey", "v10", {}),
      Effect("k11", "Message", "v11", {}), Effect("k12", "MessageTopic", "v12", {}),
      Effect("k13", "AddUInt512", "v13", {})>>

Transfers2 == <<Paid("i1", "toA"), Paid("i2", "toB")>>
Native1 == Tx1("d1", Categories.Mint, None, Transfers2, <<>>)
Session1 == Tx1("d2", Categories.Large, None, <<>>, Effects1)
Failed1 == Tx1("d3", Categories.Large, "failed", <<Paid("i3", "toA")>>, <<>>)
Native2 == Tx("n1", "V1", Categories.Mint, None, Transfers2, <<>>)
Session2 == Tx("n2", "V1", Categories.Small, None, <<>>, Effects2)
Failed2 == Tx("n3", "V1", Categories.Small, "failed", <<Paid("i3", "toA")>>, <<>>)
Deploy2 == Tx("d4", "Deploy", Categories.Large, None, <<Paid("i4", "toB")>>, <<>>)
Deploy4 == Tx("d6", "Deploy", Categories.Medium, None, <<Paid("i5", "toB")>>, <<>>)
Deploy5 == Tx("d7", "Deploy", Categories.Mint, None, <<>>, <<>>)
Deploy3 == Tx("d5", "Deploy", Categories.Large, "failed", <<>>, <<>>)

EraEnded(gasPrice) ==
    [equivocators |-> <<"kE">>, inactiveValidators |-> <<"kI">>, weights |-> <<"kA", "kB">>,
     gasPrice |-> gasPrice,
     rewards |-> [v \in {"kA", "kB"} |-> IF v = "kA" \/ gasPrice = 1 THEN <<"w1">> ELSE <<"w1", "w2">>]]
Fact(hash, gen, proposer, eraEnd, txs) ==
    [hash |-> hash, gen |-> gen, common |-> "common", proposer |-> proposer, eraEnd |-> eraEnd, txs |-> txs,
     proofs |-> <<"kA", "kB">>, gasPrice |-> gen, lastSwitch |-> IF gen = 1 THEN None ELSE "switch",
     rewardedSignatures |-> IF gen = 1 THEN <<>> ELSE <<"s1">>]
MCBlockFacts ==
    {Fact("b1", 1, "system", EraEnded(1), <<>>),
     Fact("b2", 1, "kA", None, <<Session1, Native1, Failed1>>),
     Fact("b3", 2, "system", EraEnded(3), <<Deploy4>>),
     [Fact("b6", 2, "system", None, <<Deploy5>>) EXCEPT !.lastSwitch = None],
     Fact("b4", 2, "kB", None, <<Native2, Session2, Failed2>>),
     Fact("b5", 2, "kB", None, <<Deploy2, Deploy3>>)}
MCWaiting ==
    {Tx("w1", "Deploy", Categories.Large, None, <<>>, <<>>), Tx("w2", "V1", Categories.Large, None, <<>>, <<>>)}

Key(k) == [publicKey |-> k, purse |-> None]
Purse(p) == [publicKey |-> None, purse |-> p]
Validator(key, delegators) ==
    [key |-> key, stake |-> <<"stake", key>>, terms |-> "terms", min |-> "m1", max |-> "m2", reserved |-> 3,
     delegators |-> delegators,
     others |-> IF key = "kA" THEN <<>>
                ELSE <<[name |-> "Credit", value |-> "credit"], [name |-> "Bridge", value |-> "bridge"],
                       [name |-> "Reservation", value |-> "slot"], [name |-> "Unbond", value |-> "era"]>>]
Delegation(who, stake) == [who |-> who, stake |-> stake]
MCStakeFacts ==
    {<<Validator("kA", <<>>)>>,
     <<Validator("kA", <<Delegation(Key("kC"), "s1"), Delegation(Key("kD"), "s2")>>), Validator("kB", <<>>)>>,
     <<Validator("kA", <<Delegation(Key("kC"), "s1")>>),
       Validator("kB", <<Delegation(Purse("p1"), "s3"), Delegation(Key("kC"), "s4")>>)>>}

Payment(who, validator, amount) == [who |-> who, validator |-> validator, amount |-> amount]
MCPaymentFacts ==
    {<<Payment(None, "kA", "a1"), Payment(Key("kC"), "kA", "a2")>>,
     <<Payment(Purse("p1"), "kB", "a3"), Payment(None, "kB", "a4")>>}

Package(disabled) ==
    [accessKey |-> "u1", lockStatus |-> "Unlocked", groups |-> <<[name |-> "g", users |-> <<"u2", "u3">>]>>,
     versions |-> <<<<1, 1>>, <<2, 3>>>>, hashes |-> <<"h1", "h2">>, disabled |-> disabled]
MCPackageFacts == {Package(<<>>), Package(<<<<1, 2>>>>)}
=============================================================================
