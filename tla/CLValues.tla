------------------------------ MODULE CLValues ------------------------------
(***************************************************************************)
(* CLTypes and CLValues as the SDK writes, reads and shows them            *)
(* (types/clvalue).  A type is <<name>>, <<"ByteArray", size>> or          *)
(* <<name, type, ...>>; in JSON it has the same shape.  A value is         *)
(* <<type, data>>, the data being                                          *)
(*   - a number (ByteConverters), a Boolean, a text, a key (Keys);         *)
(*   - bytes for ByteArray and Any, <<>> for Unit;                         *)
(*   - <<>> or <<value>> for Option, <<success, value>> for Result;        *)
(*   - the values for List and the tuples, the <<key, value>> for Map.     *)
(***************************************************************************)
EXTENDS Keys

\* TypeID, in order: the first has id 0.
TypeID ==
    <<"Bool", "I32", "I64", "U8", "U32", "U64", "U128", "U256", "U512", "Unit", "String", "Key",
      "URef", "Option", "List", "ByteArray", "Result", "Map", "Tuple1", "Tuple2", "Tuple3",
      "Any", "PublicKey">>

Simple == {"Bool", "I32", "I64", "U8", "U32", "U64", "U128", "U256", "U512", "Unit", "String",
           "Key", "URef", "Any", "PublicKey"}

\* How many types a composite one is made of.
Parts == [Option |-> 1, List |-> 1, Result |-> 2, Map |-> 2, Tuple1 |-> 1, Tuple2 |-> 2, Tuple3 |-> 3]

\* The numbers by their width in bytes.
Width == [I32 |-> 4, I64 |-> 8, U8 |-> 1, U32 |-> 4, U64 |-> 8, U128 |-> 16, U256 |-> 32, U512 |-> 64]
Signed == {"I32", "I64"}

-----------------------------------------------------------------------------
(* Types *)

RECURSIVE TypeBytes(_)
TypeBytes(type) ==
    <<(CHOOSE i \in DOMAIN TypeID : TypeID[i] = type[1]) - 1>>
      \o (IF type[1] = "ByteArray" THEN U32(type[2])
          ELSE FlattenSeq([i \in 1..(Len(type) - 1) |-> TypeBytes(type[i + 1])]))

\* matchBytesToCLType: a tag, then as many types as it has parts.
RECURSIVE MatchBytesToCLType(_)
RECURSIVE MatchTypes(_, _)
MatchTypes(bytes, count) ==
    IF count = 0 THEN Taken(<<>>, bytes)
    ELSE Then(MatchBytesToCLType(bytes), LAMBDA first, next :
            Then(MatchTypes(next, count - 1), LAMBDA others, rest : Taken(<<first>> \o others, rest)))
MatchBytesToCLType(bytes) ==
    Tagged(bytes, Len(TypeID), LAMBDA tag, remainder :
        LET name == TypeID[tag + 1]
        IN  IF name \in Simple THEN Taken(<<name>>, remainder)
            ELSE IF name = "ByteArray"
                 THEN Then(ParseU32(remainder), LAMBDA size, rest : Taken(<<name, size>>, rest))
            ELSE Then(MatchTypes(remainder, Parts[name]), LAMBDA types, rest :
                    Taken(<<name>> \o types, rest)))

\* CLTypeParser.fromInterface: a known name with the parts that it has.
RECURSIVE FromInterface(_)
FromInterface(json) ==
    CASE json[1] \in Simple -> IF Len(json) = 1 THEN Taken(json, <<>>) ELSE Thrown
      [] json[1] = "ByteArray" -> Taken(json, <<>>)
      [] json[1] \in DOMAIN Parts ->
            IF /\ Len(json) = Parts[json[1]] + 1
               /\ \A i \in 2..Len(json) : ~FromInterface(json[i]).threw
            THEN Taken(json, <<>>) ELSE Thrown
      [] OTHER -> Thrown

-----------------------------------------------------------------------------
(* Values as they are made *)

NewCLOption(inner, type) == <<<<"Option", type>>, inner>>
NewCLList(type, elements) == <<<<"List", type>>, elements>>
NewCLTuple(values) ==
    <<<<<<"Tuple1", "Tuple2", "Tuple3">>[Len(values)]>> \o [i \in DOMAIN values |-> values[i][1]], values>>

\* Only the outermost names of the types are compared.
NewCLResult(ok, err, value, success) ==
    IF value[1][1] # (IF success THEN ok ELSE err)[1] THEN Thrown
    ELSE Taken(<<<<"Result", ok, err>>, <<success, value>>>>, <<>>)

\* How a value is shown, as far as two values of a type are told apart by it.
RECURSIVE Shown(_)
ShownAll(values, open, between, close) ==
    open \o FlattenSeq([i \in DOMAIN values |-> (IF i > 1 THEN between ELSE <<>>) \o Shown(values[i])]) \o close
Shown(value) ==
    LET data == value[2]
    IN  CASE value[1][1] = "String" -> data
          [] value[1][1] = "Any" -> FromUtf8(data)
          [] value[1][1] = "Option" -> IF data = <<>> THEN <<>> ELSE Shown(data[1])
          [] value[1][1] = "List" -> ShownAll(data, <<91, 34>>, <<34, 44, 34>>, <<34, 93>>)
          [] value[1][1] \in {"Tuple1", "Tuple2", "Tuple3"} -> ShownAll(data, <<40>>, <<44, 32>>, <<41>>)
          [] OTHER -> <<data>>

\* CLValueMap.append gives an error back and leaves the map when the key is
\* shown like one it has, or when the types are not the very ones of the map.
MapAppend(entries, key, val, sameTypes) ==
    IF ~sameTypes \/ \E i \in DOMAIN entries : Shown(entries[i][1]) = Shown(key) THEN entries
    ELSE Append(entries, <<key, val>>)

-----------------------------------------------------------------------------
(* Values as bytes *)

\* Bytes of one after the other, unless one throws.
Joined(all) ==
    IF \E i \in DOMAIN all : all[i].threw THEN Thrown
    ELSE Taken(FlattenSeq([i \in DOMAIN all |-> all[i].val]), <<>>)
Prefixed(prefix, taken) == Then(taken, LAMBDA bytes, ignored : Taken(prefix \o bytes, <<>>))

RECURSIVE Bytes(_)
BytesOfEach(values) == Joined([i \in DOMAIN values |-> Bytes(values[i])])

\* An option and a result by their tag, a list and a map by their size; a list
\* of Any has no size.
OptionBytes(data) == Prefixed(<<Len(data)>>, BytesOfEach(data))
ResultBytes(data) == Prefixed(<<IF data[1] THEN 1 ELSE 0>>, Bytes(data[2]))
ListBytes(type, data) == Prefixed(IF type = <<"Any">> THEN <<>> ELSE U32(Len(data)), BytesOfEach(data))
MapBytes(data) == Prefixed(U32(Len(data)), Joined([i \in DOMAIN data |-> BytesOfEach(data[i])]))

Bytes(value) ==
    LET name == value[1][1]
        data == value[2]
    IN  CASE name = "Bool" -> Taken(<<IF data THEN 1 ELSE 0>>, <<>>)
          [] name \in DOMAIN Width -> ToBytesNumber(data, Width[name], name \in Signed)
          [] name = "String" -> Taken(StringBytes(data), <<>>)
          [] name = "Key" -> KeyBytes(data)
          [] name = "URef" -> Taken(URefBytes(data), <<>>)
          [] name = "PublicKey" -> Taken(PublicKeyBytes(data), <<>>)
          [] name \in {"ByteArray", "Any", "Unit"} -> Taken(data, <<>>)
          [] name = "Option" -> OptionBytes(data)
          [] name = "Result" -> ResultBytes(data)
          [] name = "List" -> ListBytes(value[1][2], data)
          [] name = "Map" -> MapBytes(data)
          [] OTHER -> BytesOfEach(data)

\* The readers of the simple types.
BoolFromBytes(bytes) == Tagged(bytes, 2, LAMBDA tag, rest : Taken(tag = 1, rest))
UnitFromBytes(bytes) == IF bytes # <<>> THEN Thrown ELSE Taken(<<>>, <<>>)
ByteArrayFromBytes(bytes, size) == Taken(Slice(bytes, 0, size), From(bytes, size))

\* The readers of the composite types read their parts in order, each from
\* what the one before left.
RECURSIVE FromBytesByType(_, _)
RECURSIVE FromBytesEach(_, _)
FromBytesEach(bytes, types) ==
    IF types = <<>> THEN Taken(<<>>, bytes)
    ELSE Then(FromBytesByType(bytes, Head(types)), LAMBDA first, next :
            Then(FromBytesEach(next, Tail(types)), LAMBDA others, rest : Taken(<<first>> \o others, rest)))

\* A list or a map stops early, without a word, when nothing is left.
RECURSIVE FromBytesList(_, _, _)
FromBytesList(bytes, size, type) ==
    IF size = 0 \/ bytes = <<>> THEN Taken(<<>>, bytes)
    ELSE Then(FromBytesByType(bytes, type), LAMBDA first, next :
            Then(FromBytesList(next, size - 1, type), LAMBDA others, rest : Taken(<<first>> \o others, rest)))
RECURSIVE FromBytesMap(_, _, _, _)
FromBytesMap(bytes, size, types, entries) ==
    IF size = 0 \/ bytes = <<>> THEN Taken(entries, bytes)
    ELSE Then(FromBytesEach(bytes, types), LAMBDA entry, rest :
            FromBytesMap(rest, size - 1, types, MapAppend(entries, entry[1], entry[2], TRUE)))

OptionFromBytes(bytes, types) ==
    Tagged(bytes, 256, LAMBDA tag, rest : IF tag = 0 THEN Taken(<<>>, rest) ELSE FromBytesEach(rest, types))
ResultFromBytes(bytes, types) ==
    Tagged(bytes, 256, LAMBDA tag, rest :
        Then(FromBytesByType(rest, types[IF tag = 1 THEN 1 ELSE 2]), LAMBDA inner, left :
            Taken(<<tag = 1, inner>>, left)))
ListFromBytes(bytes, type) ==
    Then(ParseU32(bytes), LAMBDA size, rest :
        FromBytesList(IF type = <<"Any">> THEN bytes ELSE rest, size, type))
MapFromBytes(bytes, types) ==
    Then(ParseU32(bytes), LAMBDA size, rest : FromBytesMap(rest, size, types, <<>>))

\* CLValueParser.fromBytesByType.
FromBytesByType(bytes, type) ==
    LET name == type[1]
        parts == Tail(type)
        read ==
            CASE name = "Bool" -> BoolFromBytes(bytes)
              [] name \in {"I32", "I64", "U8", "U32", "U64"} ->
                    FromBytesFixed(bytes, Width[name], name \in Signed)
              [] name \in {"U128", "U256", "U512"} -> FromBytesBigIntBase(bytes, Width[name])
              [] name = "String" -> StringFromBytes(bytes)
              [] name = "Unit" -> UnitFromBytes(bytes)
              [] name = "Key" -> KeyFromBytes(bytes)
              [] name = "URef" -> URefFromBytes(bytes)
              [] name = "PublicKey" -> PublicKeyFromBytes(bytes)
              [] name = "Any" -> Taken(bytes, <<>>)
              [] name = "ByteArray" -> ByteArrayFromBytes(bytes, type[2])
              [] name = "Option" -> OptionFromBytes(bytes, parts)
              [] name = "Result" -> ResultFromBytes(bytes, parts)
              [] name = "List" -> ListFromBytes(bytes, parts[1])
              [] name = "Map" -> MapFromBytes(bytes, parts)
              [] OTHER -> FromBytesEach(bytes, parts)
    IN  Then(read, LAMBDA data, rest : Taken(<<type, data>>, rest))

-----------------------------------------------------------------------------
(* Values with their types, as bytes and as JSON *)

ToBytesWithType(value) ==
    Then(Bytes(value), LAMBDA bytes, ignored :
        Taken(ToBytesArrayU8(bytes) \o TypeBytes(value[1]), <<>>))

\* What the value leaves of its bytes is dropped.
FromBytesWithType(bytes) ==
    Then(ParseU32(bytes), LAMBDA length, rest :
        IF length = 0 THEN Thrown
        ELSE Then(MatchBytesToCLType(From(rest, length)), LAMBDA type, remainder :
                Then(FromBytesByType(Slice(rest, 0, length), type), LAMBDA value, unread :
                    Taken(value, remainder))))

ValueToJSON(value) ==
    Then(Bytes(value), LAMBDA bytes, ignored : Taken([bytes |-> bytes, cl_type |-> value[1]], <<>>))

\* Mutant: every list of lists of bytes is taken for a list of bytes.
NormalizeJsonClType_AnyLength(json) ==
    IF json.cl_type = <<"List", <<"List", <<"U8">>>>>>
    THEN [json EXCEPT !.cl_type = <<"List", <<"U8">>>>]
    ELSE json

\* A list of lists of bytes whose bytes look like those of a list is read as one.
NormalizeJsonClType(json) ==
    IF /\ json.cl_type = <<"List", <<"List", <<"U8">>>>>>
       /\ Len(json.bytes) >= 4
       /\ Len(json.bytes) = 4 + Small(Slice(json.bytes, 0, 4))
    THEN [json EXCEPT !.cl_type = <<"List", <<"U8">>>>]
    ELSE json

ValueFromJSON(json) ==
    LET normalized == NormalizeJsonClType(json)
    IN  Then(FromInterface(normalized.cl_type), LAMBDA type, ignored :
            Then(FromBytesByType(normalized.bytes, type), LAMBDA value, unread : Taken(value, <<>>)))
=============================================================================
