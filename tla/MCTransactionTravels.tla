------------------------ MODULE MCTransactionTravels ------------------------
(* A base payload, and every payload that differs from it in one part: all   *)
(* the targets, entry points, schedulings, pricings and ttls, and arguments  *)
(* short and long enough to make every buffer grow.                          *)
EXTENDS TransactionTravels, Args

Hash(b) == [i \in 1..HashLen |-> b]
Name == <<97, 98>>
Accent == <<233, 98>>

Base ==
    [initiator |-> <<"PublicKey", <<1, Hash(4)>>>>, timestamp |-> <<44, 1>>, ttl |-> 1800000,
     chain |-> <<99>>, pricing |-> <<"PaymentLimited", 1, <<0, 202, 154, 59>>, TRUE>>,
     args |-> <<>>, target |-> <<"Native">>, entry |-> <<"Transfer">>, scheduling |-> <<"Standard">>]

Versions == {<<>>, <<0>>, <<1>>, <<300>>}
Ids ==
    {<<"ByHash", Hash(1)>>, <<"ByName", Name>>, <<"ByName", Accent>>, <<"ByName", <<>>>>}
      \cup {<<"ByPackageHash", Hash(1), version, major>> : version \in Versions, major \in {<<>>, <<0>>, <<2>>}}
      \cup {<<"ByPackageName", name, version, major>> :
              name \in {Name, Accent}, version \in Versions, major \in {<<>>, <<2>>}}
Sessions ==
    {<<"transfer">>, <<"moduleBytes", <<0, 97, 115>>>>, <<"storedContractByHash", Hash(1)>>,
     <<"storedContractByName", Name>>, <<"storedVersionedContractByHash", Hash(2), <<>>>>,
     <<"storedVersionedContractByName", Name, <<1>>>>}
MCTargets ==
    {TargetFromSession(session) : session \in Sessions}
      \cup {<<"Stored", id, "VmCasperV1">> : id \in Ids}
      \cup {<<"Stored", <<"ByHash", Hash(1)>>, "VmCasperV2">>}
      \cup {<<"Session", module, runtime, install>> :
              module \in {<<>>, <<0, 97>>}, runtime \in {"VmCasperV1", "VmCasperV2"}, install \in BOOLEAN}

Argument == <<<<97>>, <<<<"U8">>, Num(7)>>>>
Long == <<<<98, 98, 98>>, <<<<"ByteArray", 3>>, <<1, 2, 3>>>>>>

\* Those that are passed, and others whose bytes are close to one another's:
\* the arguments are told apart by them.
Close ==
    {<<name, value>> : name \in {<<97>>, <<97, 97>>, Accent},
        value \in {<<<<type>>, Num(0)>> : type \in {"U8", "I32", "U64", "U512"}}
          \cup {<<<<"Bool">>, FALSE>>, <<<<"Unit">>, <<>>>>, <<<<"String">>, <<>>>>, <<<<"String">>, <<0>>>>,
                <<<<"Any">>, <<0>>>>, <<<<"ByteArray", 1>>, <<0>>>>, <<<<"ByteArray", 4>>, Zeros(4)>>,
                NewCLOption(<<>>, <<"U8">>), NewCLList(<<"U8">>, <<>>), NewCLList(<<"U64">>, <<>>)}}
MCArguments == {Argument, Long} \cup Close

MCPayloads ==
    {Base}
      \cup {[Base EXCEPT !.target = target] : target \in MCTargets}
      \cup {[Base EXCEPT !.entry = <<EntryPointTags[i]>>] : i \in DOMAIN EntryPointTags \ {2}}
      \cup {[Base EXCEPT !.entry = <<"Custom", name>>] : name \in {Name, Accent, <<99, 97, 108, 108>>}}
      \cup {[Base EXCEPT !.scheduling = s] :
              s \in {<<"FutureEra", <<>>>>, <<"FutureEra", <<9>>>>, <<"FutureEra", <<0, 0, 0, 0, 0, 0, 0, 1>>>>,
                     <<"FutureTimestamp", <<9>>>>}}
      \cup {[Base EXCEPT !.pricing = p] :
              p \in {<<"PaymentLimited", 2, <<1>>, FALSE>>, <<"Fixed", 1, 0>>, <<"Fixed", 0, 1>>, <<"Prepaid", Hash(6)>>}}
      \cup {[Base EXCEPT !.ttl = ttl] :
              ttl \in {0, 500, 1001, 1002, 1500, 60000, 5400000, 86400000, 93784000, 172800000, 604800000, 1209600000}}
      \cup {[Base EXCEPT !.args = args] :
              args \in {<<Argument>>, <<Long>>, <<Argument, Long>>, <<Long, Argument>>}}
      \cup {[Base EXCEPT !.initiator = <<"AccountHash", Hash(4)>>], [Base EXCEPT !.chain = Accent]}
      \cup {[Base EXCEPT !.target = <<"Stored", <<"ByPackageHash", Hash(1), <<1>>, <<2>>>>, "VmCasperV1">>,
                         !.entry = <<"Custom", Name>>, !.scheduling = <<"FutureEra", <<9>>>>,
                         !.args = <<Long, Argument>>, !.ttl = 172801500]}
=============================================================================
