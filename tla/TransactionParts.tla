-------------------------- MODULE TransactionParts --------------------------
(***************************************************************************)
(* The parts of a V1 transaction as the bytes that are hashed and as the   *)
(* JSON that is put to a node (types/TransactionV1Payload.ts and the parts *)
(* it is made of, types/CalltableSerialization.ts, types/Time.ts).         *)
(* An option is <<>> or <<value>>; texts, hashes and digits are those of   *)
(* ByteConverters.  What an argument is, its bytes and its JSON are left   *)
(* to whoever gives them (Args does).                                      *)
(***************************************************************************)
EXTENDS Keys

CONSTANTS Arguments,     \* the arguments that are passed
          ArgBytes(_),   \* toBytesWithNamedArg of an argument, perhaps Thrown
          ArgsJSON(_),   \* serRA of a list of them
          ArgsOfJSON(_)  \* desRA of what serRA gave

ASSUME ArgBytesAssumption ==
    \A arg \in Arguments :
        ArgBytes(arg).threw \in BOOLEAN /\ (~ArgBytes(arg).threw => ArgBytes(arg).val \in Seq(Byte))

\* The bytes of an argument tell where they end and which argument it is.
ASSUME ArgsDifferAssumption ==
    \A a, b \in Arguments :
        ~ArgBytes(a).threw /\ ~ArgBytes(b).threw /\ IsPrefix(ArgBytes(a).val, ArgBytes(b).val) => a = b

-----------------------------------------------------------------------------
(* What a payload is made of *)

Texts == Seq(0..2047 \cup {Replacement})
Hashes == {hash \in Seq(Byte) : Len(hash) = HashLen}
Numbers64 == {digits \in Seq(Byte) : Len(digits) <= 8 /\ WithoutTopZeros(digits) = digits}
PublicKeys == {key \in {1, 2} \X Seq(Byte) : Len(key[2]) = KeySize(key[1])}
Initiators == ({"PublicKey"} \X PublicKeys) \cup ({"AccountHash"} \X Hashes)

\* Tolerance, amount and standard; tolerance and factor; the receipt.
Pricings ==
    ({"PaymentLimited"} \X Byte \X Numbers64 \X BOOLEAN) \cup ({"Fixed"} \X Byte \X Byte)
      \cup ({"Prepaid"} \X Hashes)

\* A package with its version and its major version.
VersionOptions == {<<>>} \cup {<<version>> : version \in 0..(TooLarge - 1)}
InvocationIds ==
    ({"ByHash"} \X Hashes) \cup ({"ByName"} \X Texts)
      \cup ({"ByPackageHash"} \X Hashes \X VersionOptions \X VersionOptions)
      \cup ({"ByPackageName"} \X Texts \X VersionOptions \X VersionOptions)

\* A session is its module, its runtime and whether it installs or upgrades.
Runtimes == {"VmCasperV1", "VmCasperV2"}
Targets ==
    {<<"Native">>} \cup ({"Stored"} \X InvocationIds \X Runtimes)
      \cup ({"Session"} \X Seq(Byte) \X Runtimes \X BOOLEAN)

\* TransactionEntryPointTag: the first is 0.
EntryPointTags ==
    <<"Call", "Custom", "Transfer", "AddBid", "WithdrawBid", "Delegate", "Undelegate", "Redelegate",
      "ActivateBid", "ChangeBidPublicKey", "AddReservations", "CancelReservations", "Burn">>
EntryPoints == {<<EntryPointTags[i]>> : i \in DOMAIN EntryPointTags \ {2}} \cup ({"Custom"} \X Texts)

Schedulings == {<<"Standard">>} \cup ({"FutureEra", "FutureTimestamp"} \X Numbers64)

\* A payload as it is built; the ttl in milliseconds, below 2^31 here.
LongestTtl == 2147483647
Payload ==
    [initiator : Initiators, timestamp : Numbers64, ttl : 0..LongestTtl, chain : Texts, pricing : Pricings,
     args : Seq(Arguments), target : Targets, entry : EntryPoints, scheduling : Schedulings]

-----------------------------------------------------------------------------
(* Calltables: fields numbered from 0 in the order they are added *)

\* toBytes of the fields added one after the other.
CalltableBytes(fields) ==
    LET offset(i) == Len(FlattenSeq(SubSeq(fields, 1, i - 1)))
    IN  U32(Len(fields))
          \o FlattenSeq([i \in DOMAIN fields |-> U16(i - 1) \o U32(offset(i))])
          \o U32(Len(FlattenSeq(fields))) \o FlattenSeq(fields)

\* fromBytes: a field ends where the next begins, whatever its offset says.
CalltableFromBytes(bytes) ==
    Then(ParseU32(bytes), LAMBDA count, rest :
        IF Len(rest) < (6 * count) + 4 THEN Thrown
        ELSE LET number(from, width) == Small(Slice(rest, from, from + width))
                 start(i) == IF i <= count THEN number((6 * (i - 1)) + 2, 4) ELSE number(6 * count, 4)
                 payload == From(rest, (6 * count) + 4)
             IN  Taken([i \in 1..count |->
                            [index |-> number(6 * (i - 1), 2),
                             value |-> IF start(i) >= start(i + 1) THEN <<>>
                                       ELSE Slice(payload, start(i), start(i + 1))]], <<>>))

\* getField: the first with this index, as an option.
GetField(table, index) ==
    LET found == {i \in DOMAIN table : table[i].index = index}
    IN  IF found = {} THEN <<>> ELSE <<table[Min(found)].value>>

\* What the parts have in common: field 0 is their tag, one byte below a bound.
TaggedTable(bytes, bound, Step(_, _)) ==
    Then(CalltableFromBytes(bytes), LAMBDA table, ignored :
        LET tag == GetField(table, 0)
        IN  IF tag = <<>> \/ (tag # <<>> /\ (Len(tag[1]) # 1 \/ (Len(tag[1]) = 1 /\ tag[1][1] >= bound)))
            THEN Thrown ELSE Step(tag[1][1], table))

\* A field that must be there, read by Reader.
ReadField(table, index, Reader(_)) ==
    LET field == GetField(table, index) IN IF field = <<>> THEN Thrown ELSE Reader(field[1])

-----------------------------------------------------------------------------
(* Initiator and pricing *)

InitiatorBytes(initiator) ==
    CalltableBytes(IF initiator[1] = "AccountHash" THEN <<<<1>>, initiator[2]>>
                   ELSE <<<<0>>, PublicKeyBytes(initiator[2])>>)

\* A public key as hex, an account hash by its prefix.
InitiatorToJSON(initiator) ==
    IF initiator[1] = "AccountHash" THEN <<"AccountHash", KeyString(<<"Account", initiator[2]>>)>>
    ELSE <<"PublicKey", PublicKeyBytes(initiator[2])>>
InitiatorFromJSON(json) ==
    IF json[1] = "AccountHash"
    THEN Then(NewKey(json[2]), LAMBDA key, ignored : Taken(<<"AccountHash", key[2]>>, <<>>))
    ELSE Then(PublicKeyFromBytes(json[2]), LAMBDA key, ignored : Taken(<<"PublicKey", key>>, <<>>))

PricingBytes(pricing) ==
    CASE pricing[1] = "PaymentLimited" ->
            CalltableBytes(<<<<0>>, Padded(pricing[3], 8), <<pricing[2]>>, <<IF pricing[4] THEN 1 ELSE 0>>>>)
      [] pricing[1] = "Fixed" -> CalltableBytes(<<<<1>>, <<pricing[2]>>, <<pricing[3]>>>>)
      [] pricing[1] = "Prepaid" -> CalltableBytes(<<<<2>>, pricing[2]>>)

-----------------------------------------------------------------------------
(* Target *)

RuntimeTag == [VmCasperV1 |-> 0, VmCasperV2 |-> 1]
RuntimeBytes(runtime) == CalltableBytes(<<<<RuntimeTag[runtime]>>>>)

\* Versions are tested by their truth: 0 is written like none.
Truthy(option) == option \notin {<<>>, <<0>>}
VersionBytes(version) == IF Truthy(version) THEN <<1>> \o U32(version[1]) ELSE <<0>>

\* ByPackageHash and ByPackageName; the major version is a field only if given.
ByPackageBytes(tag, package, version, major) ==
    CalltableBytes(<<<<tag>>, package, VersionBytes(version)>>
                     \o IF Truthy(major) THEN <<U32(major[1])>> ELSE <<>>)

\* TransactionInvocationTarget.toBytes: an empty name counts as none.
InvocationBytes(id) ==
    CASE id[1] = "ByHash" -> Taken(CalltableBytes(<<<<0>>, id[2]>>), <<>>)
      [] id[1] = "ByName" ->
            IF id[2] = <<>> THEN Thrown ELSE Taken(CalltableBytes(<<<<1>>, StringBytes(id[2])>>), <<>>)
      [] id[1] = "ByPackageHash" -> Taken(ByPackageBytes(2, id[2], id[3], id[4]), <<>>)
      [] id[1] = "ByPackageName" -> Taken(ByPackageBytes(3, StringBytes(id[2]), id[3], id[4]), <<>>)

U32FromBytes(bytes) ==
    IF Len(bytes) < 4 THEN Thrown ELSE Taken(Small(Slice(bytes, 0, 4)), <<>>)

\* The version is read from the option's text, which is empty for none: only
\* a version that is there is read.
VersionFromBytes(bytes) ==
    IF bytes = <<>> THEN Thrown
    ELSE IF bytes[1] = 0 THEN Thrown
    ELSE Then(U32FromBytes(From(bytes, 1)), LAMBDA version, ignored : Taken(<<version>>, <<>>))

ByPackageFromBytes(kind, table, Reader(_)) ==
    Then(ReadField(table, 1, Reader), LAMBDA package, ignored :
        Then(ReadField(table, 2, VersionFromBytes), LAMBDA version, none :
            IF GetField(table, 3) = <<>> THEN Taken(<<kind, package, version, <<>>>>, <<>>)
            ELSE Then(ReadField(table, 3, U32FromBytes), LAMBDA major, nothing :
                    Taken(<<kind, package, version, <<major>>>>, <<>>))))

InvocationFromBytes(bytes) ==
    TaggedTable(bytes, 4, LAMBDA tag, table :
        CASE tag = 0 -> Then(ReadField(table, 1, HashFromBytes), LAMBDA hash, rest : Taken(<<"ByHash", hash>>, <<>>))
          [] tag = 1 -> Then(ReadField(table, 1, StringFromBytes), LAMBDA name, rest : Taken(<<"ByName", name>>, <<>>))
          [] tag = 2 -> ByPackageFromBytes("ByPackageHash", table, HashFromBytes)
          [] tag = 3 -> ByPackageFromBytes("ByPackageName", table, StringFromBytes))

StoredBytes(target) ==
    Then(InvocationBytes(target[2]), LAMBDA id, ignored :
        Taken(CalltableBytes(<<<<1>>, id, RuntimeBytes(target[3])>>), <<>>))
SessionBytes(target) ==
    CalltableBytes(<<<<2>>, <<IF target[4] THEN 1 ELSE 0>>, RuntimeBytes(target[3]), ToBytesArrayU8(target[2])>>)
TargetBytes(target) ==
    CASE target[1] = "Native" -> Taken(CalltableBytes(<<<<0>>>>), <<>>)
      [] target[1] = "Stored" -> StoredBytes(target)
      [] target[1] = "Session" -> Taken(SessionBytes(target), <<>>)

\* newTransactionTargetFromSession: what a deploy's session asks for, in the
\* terms of a transaction; versions come as text and are parsed.
TargetFromSession(session) ==
    LET stored(id) == <<"Stored", id, "VmCasperV1">>
    IN  CASE session[1] = "transfer" -> <<"Native">>
          [] session[1] = "moduleBytes" -> <<"Session", session[2], "VmCasperV1", FALSE>>
          [] session[1] = "storedContractByHash" -> stored(<<"ByHash", session[2]>>)
          [] session[1] = "storedContractByName" -> stored(<<"ByName", session[2]>>)
          [] session[1] = "storedVersionedContractByHash" -> stored(<<"ByPackageHash", session[2], session[3], <<>>>>)
          [] session[1] = "storedVersionedContractByName" -> stored(<<"ByPackageName", session[2], session[3], <<>>>>)

-----------------------------------------------------------------------------
(* Entry point and scheduling *)

\* Mutant: the last entry point was added without a tag of its own.
EntryPointTag_Shared(entry) == IF entry[1] = "Burn" THEN 11 ELSE SelectInSeq(EntryPointTags, LAMBDA e : e = entry[1]) - 1
EntryPointTag(entry) == SelectInSeq(EntryPointTags, LAMBDA e : e = entry[1]) - 1

EntryPointBytes(entry) ==
    CalltableBytes(<<<<EntryPointTag(entry)>>>>
                     \o IF entry[1] = "Custom" THEN <<StringBytes(entry[2])>> ELSE <<>>)

\* fromJSON: an unknown name is refused, and a custom one that is empty.
EntryPointFromJSON(json) ==
    IF json[1] = "Custom" /\ (Len(json) = 1 \/ json[Len(json)] = <<>>) THEN Thrown ELSE Taken(json, <<>>)

\* fromBytes looks for a table with a flag where toBytes writes the name.
EntryPointFromBytes(bytes) ==
    TaggedTable(bytes, Len(EntryPointTags), LAMBDA tag, table :
        IF EntryPointTags[tag + 1] # "Custom" THEN Taken(<<EntryPointTags[tag + 1]>>, <<>>)
        ELSE Then(ReadField(table, 1, CalltableFromBytes), LAMBDA custom, ignored :
                LET flag == GetField(custom, 0)
                IN  IF flag = <<>> \/ (flag # <<>> /\ Slice(flag[1], 0, 1) # <<1>>) THEN Thrown
                    ELSE Then(ReadField(custom, 1, StringFromBytes), LAMBDA name, rest :
                            IF name = <<>> THEN Thrown ELSE Taken(<<"Custom", name>>, <<>>))))

SchedulingTag == [Standard |-> 0, FutureEra |-> 1, FutureTimestamp |-> 2]
SchedulingBytes(scheduling) ==
    IF scheduling[1] = "Standard" THEN Taken(CalltableBytes(<<<<0>>>>), <<>>)
    ELSE IF Len(scheduling) = 1 THEN Thrown
    ELSE Taken(CalltableBytes(<<<<SchedulingTag[scheduling[1]]>>, Padded(scheduling[2], 8)>>), <<>>)

\* fromJSON reads the time of FutureTimestamp from a member that is not there.
SchedulingFromJSON(json) == IF json[1] = "FutureTimestamp" THEN <<"FutureTimestamp">> ELSE json

SchedulingFromBytes(bytes) ==
    TaggedTable(bytes, 3, LAMBDA tag, table :
        IF tag = 0 THEN Taken(<<"Standard">>, <<>>)
        ELSE Then(ReadField(table, 1, FromBytesU64), LAMBDA digits, ignored :
                IF ~Exact(digits) THEN Thrown
                ELSE Taken(<<IF tag = 1 THEN "FutureEra" ELSE "FutureTimestamp", digits>>, <<>>)))

-----------------------------------------------------------------------------
(* Durations: a number of milliseconds, below 2^31 here, and the text it is   *)
(* shown as: a sequence of <<count, unit>> where the count of seconds is in   *)
(* milliseconds, 1500 for "1.5s".                                             *)

Week == 604800000
Day == 86400000
Hour == 3600000
Minute == 60000

\* What is read when a number has lost its value: not a number, or not whole.
NotWhole == -1

Pieces(duration, units) ==
    LET count(u) == (IF u[1] = 0 THEN duration ELSE duration % u[1]) \div u[2]
        piece(u) == IF count(u) > 0 THEN <<<<count(u), u[3]>>>> ELSE <<>>
        shown == FlattenSeq([i \in DOMAIN units |-> piece(units[i])])
    IN  IF shown = <<>> THEN <<<<0, "s">>>> ELSE shown

\* Mutant: seconds are shown without their fraction.
HumanizerTTL_Whole(ttl) ==
    LET pieces == Pieces(ttl, <<<<0, Week, "undefined">>, <<Week, Day, "day">>, <<Day, Hour, "h">>,
                                <<Hour, Minute, "m">>, <<Minute, 1000, "s">>>>)
    IN  [i \in DOMAIN pieces |-> IF pieces[i][2] = "s" THEN <<pieces[i][1] * 1000, "s">> ELSE pieces[i]]

\* The largest units first, weeks among them though they have no word; units
\* above a week do not occur below 2^31 milliseconds.
HumanizerTTL(ttl) ==
    Pieces(ttl, <<<<0, Week, "undefined">>, <<Week, Day, "day">>, <<Day, Hour, "h">>, <<Hour, Minute, "m">>,
                  <<Minute, 1, "s">>>>)

\* How a node writes the same: days in the plural, milliseconds on their own.
NodeTTL(ttl) ==
    LET seconds(piece) == IF piece[2] = "s" THEN <<piece[1] * 1000, "s">>
                          ELSE IF piece[2] = "day" /\ piece[1] > 1 THEN <<piece[1], "days">> ELSE piece
        pieces == Pieces(ttl, <<<<0, Day, "day">>, <<Day, Hour, "h">>, <<Hour, Minute, "m">>,
                                <<Minute, 1000, "s">>, <<1000, 1, "ms">>>>)
    IN  [i \in DOMAIN pieces |-> seconds(pieces[i])]

\* Seconds with a fraction that floating point does not multiply back to whole
\* milliseconds: 1.001 * 1000 is 1000.9999999999999.  All of them below 1100 ms.
RoundsOff(milliseconds) == milliseconds \in 1001..1023 /\ milliseconds % 2 = 1

\* The sum of a list of numbers.
Total(numbers) ==
    LET total[i \in 0..Len(numbers)] == IF i = 0 THEN 0 ELSE total[i - 1] + numbers[i]
    IN  total[Len(numbers)]

DehumanizeUnit(piece) ==
    CASE piece[2] = "ms" -> piece[1]
      [] piece[2] = "s" -> IF RoundsOff(piece[1]) THEN NotWhole ELSE piece[1]
      [] piece[2] = "m" -> piece[1] * Minute
      [] piece[2] = "h" -> piece[1] * Hour
      [] piece[2] = "day" -> piece[1] * Day
      [] piece[2] = "days" -> NotWhole

\* dehumanizerTTL: units without a word are refused, the plural is not a number.
DehumanizerTTL(text) ==
    LET values == [i \in DOMAIN text |-> DehumanizeUnit(text[i])]
    IN  IF \E i \in DOMAIN text : text[i][2] = "undefined" THEN Thrown
        ELSE Taken(IF \E i \in DOMAIN text : values[i] = NotWhole THEN NotWhole ELSE Total(values), <<>>)

\* Mutant: only the first part counts.
ParseDurationString_First(text) ==
    IF text = <<>> \/ (text # <<>> /\ text[1][2] = "undefined") THEN Thrown
    ELSE Taken(text[1][1] * (CASE text[1][2] = "m" -> Minute [] text[1][2] = "h" -> Hour
                               [] text[1][2] \in {"day", "days"} -> Day [] OTHER -> 1), <<>>)

\* Duration.parseDurationString takes the digits before each of s, m, h and d:
\* of "1.5s" the 5, of "500ms" the 500 as minutes.
ParseDurationString(text) ==
    LET fraction(f) == IF f % 100 = 0 THEN f \div 100 ELSE IF f % 10 = 0 THEN f \div 10 ELSE f
        read(piece) ==
            CASE piece[2] = "s" -> IF piece[1] % 1000 = 0 THEN piece[1] ELSE fraction(piece[1] % 1000) * 1000
              [] piece[2] \in {"m", "ms"} -> piece[1] * Minute
              [] piece[2] = "h" -> piece[1] * Hour
              [] piece[2] \in {"day", "days"} -> piece[1] * Day
              [] piece[2] = "undefined" -> 0
    IN  IF \A i \in DOMAIN text : text[i][2] = "undefined" THEN Thrown
        ELSE Taken(Total([i \in DOMAIN text |-> read(text[i])]), <<>>)

-----------------------------------------------------------------------------
(* Payload *)

\* PayloadFields.toBytes: each field by its number, in a buffer that grows.
FieldsBytes(fields) ==
    LET buffer == WriteAll(Write(NewBuffer, U32(Len(fields))),
                           FlattenSeq([i \in DOMAIN fields |-> <<U16(i - 1), fields[i]>>]))
    IN  IF buffer.over THEN Thrown ELSE Taken(buffer.data, <<>>)

\* The arguments of the payload: named (0), counted, one after the other.
RuntimeArgsBytes(args) ==
    LET written == [i \in DOMAIN args |-> ArgBytes(args[i])]
        buffer == WriteAll(Write(NewBuffer, <<0>>),
                           <<U32(Len(args))>> \o [i \in DOMAIN args |-> written[i].val])
    IN  IF \E i \in DOMAIN args : written[i].threw THEN Thrown
        ELSE IF buffer.over THEN Thrown ELSE Taken(buffer.data, <<>>)

\* The four fields of a payload, in order.
PayloadFields(payload) ==
    <<RuntimeArgsBytes(payload.args), TargetBytes(payload.target),
      Taken(EntryPointBytes(payload.entry), <<>>), SchedulingBytes(payload.scheduling)>>

\* TransactionV1Payload.toBytes: a ttl that is not a whole number is refused.
PayloadBytes(payload) ==
    LET parts == PayloadFields(payload)
    IN  IF payload.ttl = NotWhole \/ \E i \in DOMAIN parts : parts[i].threw THEN Thrown
        ELSE Then(FieldsBytes([i \in DOMAIN parts |-> ToBytesArrayU8(parts[i].val)]), LAMBDA fields, ignored :
                Taken(CalltableBytes(<<InitiatorBytes(payload.initiator), Padded(payload.timestamp, 8),
                                       Padded(Digits(payload.ttl), 8), StringBytes(payload.chain),
                                       PricingBytes(payload.pricing), fields>>), <<>>))

\* The payload as JSON; times are exact to the millisecond in both forms.
PayloadToJSON(payload) ==
    Then(ArgsJSON(payload.args), LAMBDA args, ignored :
        Taken([payload EXCEPT !.args = args, !.ttl = HumanizerTTL(@), !.initiator = InitiatorToJSON(@)], <<>>))
PayloadFromJSON(json) ==
    LET args == ArgsOfJSON(json.args)
        entry == EntryPointFromJSON(json.entry)
        ttl == DehumanizerTTL(json.ttl)
        initiator == InitiatorFromJSON(json.initiator)
    IN  IF args.threw \/ entry.threw \/ ttl.threw \/ initiator.threw THEN Thrown
        ELSE Taken([json EXCEPT !.args = args.val, !.entry = entry.val, !.ttl = ttl.val,
                                !.initiator = initiator.val,
                                !.scheduling = SchedulingFromJSON(@)], <<>>)
=============================================================================
