-------------------------------- MODULE Args --------------------------------
(***************************************************************************)
(* The named arguments of a call (types/Args.ts) as they are made, as the  *)
(* bytes that are hashed and as JSON.  Args is a sequence of               *)
(* <<name, value>> with different names, the order of a JavaScript Map.    *)
(***************************************************************************)
EXTENDS CLValues

\* Map.set: a name keeps its place and takes the new value.
Insert(args, name, value) ==
    IF \E i \in DOMAIN args : args[i][1] = name
    THEN [i \in DOMAIN args |-> IF args[i][1] = name THEN <<name, value>> ELSE args[i]]
    ELSE Append(args, <<name, value>>)

InsertAll(args, named) == FoldLeft(LAMBDA all, arg : Insert(all, arg[1], arg[2]), args, named)

\* Names that look like an array index come first in Object.keys, by number.
IsIndex(name) ==
    /\ name # <<>>
    /\ \A i \in DOMAIN name : name[i] \in 48..57
    /\ name[1] = 48 => Len(name) = 1
IndexOf(name) == FoldLeft(LAMBDA n, c : (10 * n) + (c - 48), 0, name)

\* Args.fromNamedArgs, by way of a plain object and Args.fromMap.
FromNamedArgs(named) ==
    LET object == InsertAll(<<>>, named)
        isIndex(arg) == IsIndex(arg[1])
        isName(arg) == ~IsIndex(arg[1])
    IN  SortSeq(SelectSeq(object, isIndex), LAMBDA a, b : IndexOf(a[1]) < IndexOf(b[1]))
          \o SelectSeq(object, isName)

\* NamedArg.toBytes, in the two formats of a transaction: joined at once, or
\* written piece by piece to a buffer that grows.
NamedArgBytes(arg) == Prefixed(ToBytesString(arg[1]), ToBytesWithType(arg[2]))

\* Mutant: room is made for the name and not for its length.
ToBytesWithNamedArg_NoLength(arg) ==
    LET name == Utf8(arg[1])
        named == Write(Write(MakeRoom(NewBuffer, Len(name)), U32(Len(name))), name)
    IN  Then(ToBytesWithType(arg[2]), LAMBDA value, ignored :
            LET whole == Write(MakeRoom(named, Len(value)), value)
            IN  IF whole.over THEN Thrown ELSE Taken(whole.data, <<>>))

ToBytesWithNamedArg(arg) ==
    LET name == Utf8(arg[1])
        named == Write(Write(MakeRoom(NewBuffer, 4 + Len(name)), U32(Len(name))), name)
    IN  Then(ToBytesWithType(arg[2]), LAMBDA value, ignored :
            LET whole == Write(MakeRoom(named, Len(value)), value)
            IN  IF whole.over THEN Thrown ELSE Taken(whole.data, <<>>))

ArgsBytes(args) == Prefixed(U32(Len(args)), Joined([i \in DOMAIN args |-> NamedArgBytes(args[i])]))

\* NamedArg.fromBytes: the name by its length, then the value.
NamedArgFromBytes(bytes) ==
    Then(ParseU32(bytes), LAMBDA length, rest :
        Then(FromBytesWithType(From(rest, length)), LAMBDA value, ignored :
            Taken(<<FromUtf8(Slice(rest, 0, length)), value, length>>, <<>>)))

\* Args.fromBytes: how far an argument reached is told by writing again what
\* was read of it.
RECURSIVE NamedArgsFromBytes(_, _)
NamedArgsFromBytes(bytes, count) ==
    IF count = 0 THEN Taken(<<>>, bytes)
    ELSE Then(NamedArgFromBytes(bytes), LAMBDA arg, ignored :
            Then(ToBytesWithType(arg[2]), LAMBDA again, none :
                Then(NamedArgsFromBytes(From(bytes, 4 + arg[3] + Len(again)), count - 1),
                     LAMBDA others, rest : Taken(<<<<arg[1], arg[2]>>>> \o others, rest))))
ArgsFromBytes(bytes) ==
    Then(ParseU32(bytes), LAMBDA count, rest :
        Then(NamedArgsFromBytes(rest, count), LAMBDA named, left :
            Taken(InsertAll(<<>>, named), left)))

\* serRA and desRA: a name that comes twice is refused.
ArgsToJSON(args) ==
    LET values == [i \in DOMAIN args |-> ValueToJSON(args[i][2])]
    IN  IF \E i \in DOMAIN args : values[i].threw THEN Thrown
        ELSE Taken([i \in DOMAIN args |-> <<args[i][1], values[i].val>>], <<>>)
ArgsFromJSON(json) ==
    LET values == [i \in DOMAIN json |-> ValueFromJSON(json[i][2])]
    IN  IF \/ \E i \in DOMAIN json : values[i].threw
           \/ \E i, j \in DOMAIN json : i # j /\ json[i][1] = json[j][1]
        THEN Thrown
        ELSE Taken([i \in DOMAIN json |-> <<json[i][1], values[i].val>>], <<>>)
=============================================================================
