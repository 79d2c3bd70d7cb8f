---------------------------- MODULE MCArgsTravel ----------------------------
(* Values of every type and keys of every kind, each followed by a text and  *)
(* a list that show whether what follows is read where it was written.       *)
EXTENDS ArgsTravel

Hash(b) == [i \in 1..HashLen |-> b]
Contract == <<2, Hash(7)>>
Text(s) == <<<<"String">>, s>>
U8(n) == <<<<"U8">>, Num(n)>>
Key(kind, addr) == <<<<"Key">>, <<kind, addr>>>>
AnyBytes(bytes) == <<<<"Any">>, bytes>>
ByteArray(bytes) == <<<<"ByteArray", Len(bytes)>>, bytes>>
MapOf(key, val, entries) ==
    <<<<"Map", key, val>>,
      FoldLeft(LAMBDA all, entry : MapAppend(all, entry[1], entry[2], TRUE), <<>>, entries)>>

Numbers ==
    {<<<<name>>, num>> : name \in DOMAIN Width,
        num \in {Num(0), Num(1), Num(128), Num(255), Num(256), Negative(Num(1)), Negative(Num(128)),
                 <<0, Zeros(15) \o <<128>>>>, <<1, Zeros(3) \o <<128>>>>, <<0, [i \in 1..32 |-> 255]>>,
                 <<0, Zeros(64) \o <<1>>>>}}

Keys ==
    {Key(kind, Hash(9)) : kind \in HashKinds}
      \cup {Key("URef", <<Hash(1), 7>>), Key("EraId", <<5>>), Key("AddressableEntity", Contract),
            Key("State", <<0, Hash(2)>>), Key("BidAddr", <<1, <<Hash(3)>>>>),
            Key("BidAddr", <<2, <<Hash(3), Hash(4)>>>>), Key("BidAddr", <<3, <<Hash(3), Hash(4)>>>>),
            Key("BidAddr", <<4, <<Hash(3), <<6>>>>>>), Key("BidAddr", <<4, <<Hash(3), <<>>>>>>),
            Key("ByteCode", <<0, <<>>>>), Key("ByteCode", <<1, <<Hash(5)>>>>),
            Key("Message", <<Contract, Hash(6), NoIndex>>), Key("Message", <<Contract, Hash(6), <<>>>>),
            Key("Message", <<Contract, Hash(6), <<9>>>>), Key("Message", <<Contract, Hash(6), <<12>>>>),
            Key("NamedKey", <<Contract, Hash(8)>>), Key("BlockGlobal", <<1, <<>>>>),
            Key("BalanceHold", <<1, Hash(1), <<44, 1>>>>), Key("EntryPoint", <<0, Contract, Hash(2)>>),
            Key("EntryPoint", <<1, Contract, <<4>>>>), Key("RewardsHandling", <<>>)}

Plain ==
    {<<<<"Bool">>, TRUE>>, Text(<<>>), Text(<<97, 98>>), Text(<<233, 98>>), <<<<"Unit">>, <<>>>>,
     <<<<"URef">>, <<Hash(1), 7>>>>, <<<<"PublicKey">>, <<1, Hash(4)>>>>,
     <<<<"PublicKey">>, <<2, Hash(4) \o <<4>>>>>>, AnyBytes(<<1, 0, 0>>), ByteArray(<<>>), ByteArray(<<1, 2>>)}

Inner ==
    {U8(1), Text(<<97>>), <<<<"Unit">>, <<>>>>, AnyBytes(<<5>>), <<<<"URef">>, <<Hash(1), 7>>>>,
     <<<<"U512">>, Num(0)>>, <<<<"Bool">>, FALSE>>} \cup Keys

Composite ==
    {NewCLOption(<<inner>>, inner[1]) : inner \in Inner}
      \cup {NewCLTuple(<<inner, U8(1)>>) : inner \in Inner}
      \cup {NewCLTuple(<<U8(1), inner>>) : inner \in Inner}
      \cup {NewCLList(inner[1], <<inner, inner>>) : inner \in Inner}
      \cup {MapOf(<<"U8">>, inner[1], <<<<U8(1), inner>>, <<U8(2), inner>>>>) : inner \in Inner}
      \cup {NewCLOption(<<>>, <<"Any">>), NewCLTuple(<<Text(<<97>>)>>), NewCLTuple(<<U8(1), U8(2), Text(<<97>>)>>),
            NewCLList(<<"U8">>, <<>>), NewCLList(<<"List", <<"U8">>>>, <<>>),
            NewCLList(<<"List", <<"U8">>>>, <<NewCLList(<<"U8">>, <<U8(1)>>)>>),
            MapOf(<<"String">>, <<"U8">>, <<>>),
            MapOf(<<"Option", <<"String">>>>, <<"U8">>,
                  <<<<NewCLOption(<<>>, <<"String">>), U8(1)>>, <<NewCLOption(<<Text(<<>>)>>, <<"String">>), U8(2)>>>>),
            NewCLResult(<<"U8">>, <<"String">>, U8(1), TRUE).val,
            NewCLResult(<<"U8">>, <<"String">>, Text(<<97>>), FALSE).val}

\* The value under test, its followers, and a name that looks like an index.
MCGiven ==
    {<<<<<<97>>, value>>, <<<<98, 98>>, Text(<<99>>)>>, <<<<100>>, NewCLList(<<"U8">>, <<U8(3)>>)>>>> :
        value \in Numbers \cup {key \in Keys : TRUE} \cup Plain \cup Composite}
      \cup {<<<<<<97>>, U8(1)>>, <<<<49>>, U8(2)>>, <<<<97>>, U8(3)>>, <<<<48>>, Text(<<97>>)>>>>}
=============================================================================
