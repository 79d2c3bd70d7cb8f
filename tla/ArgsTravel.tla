----------------------------- MODULE ArgsTravel -----------------------------
(***************************************************************************)
(* The arguments of a call (types/Args.ts) on their way: made by a caller, *)
(* written as the bytes that are hashed and signed or as the JSON that is  *)
(* put to a node, and read back by whoever gets them - any number of       *)
(* times.  Keys among the values also travel as prefixed strings.          *)
(***************************************************************************)
EXTENDS Args

CONSTANTS Given,    \* the lists of named arguments that callers make
          MaxTrips  \* bound: how often arguments are read back

ASSUME TripsAssumption == MaxTrips \in Nat \ {0}

VARIABLES made,     \* the Args as it was made
          form,     \* "args", "bytes", "json", "printed" or "thrown"
          cur,      \* the same thing in this form, <<>> once something threw
          printed,  \* whether keys have been through their strings
          trips     \* how often they were read back

vars == <<made, form, cur, printed, trips>>

\* The keys among the values as prefixed strings and back (Key.newKey).
IsKey(arg) == arg[2][1] = <<"Key">>
KeysPrinted(args) ==
    [i \in DOMAIN args |-> IF IsKey(args[i]) THEN <<args[i][1], <<<<"Key">>, KeyString(args[i][2][2])>>>>
                           ELSE args[i]]
KeysParsed(args) ==
    LET keys == [i \in DOMAIN args |->
                    IF IsKey(args[i]) THEN NewKey(args[i][2][2]) ELSE Taken(args[i][2][2], <<>>)]
    IN  IF \E i \in DOMAIN args : keys[i].threw THEN Thrown
        ELSE Taken([i \in DOMAIN args |-> <<args[i][1], <<args[i][2][1], keys[i].val>>>>], <<>>)

-----------------------------------------------------------------------------
(* The journey *)

Init == /\ \E named \in Given : made = FromNamedArgs(named)
        /\ form = "args"
        /\ cur = made
        /\ printed = FALSE
        /\ trips = 0

Becomes(taken, next) ==
    /\ IF taken.threw THEN form' = "thrown" /\ cur' = <<>> ELSE form' = next /\ cur' = taken.val
    /\ UNCHANGED made

ToBytes == form = "args" /\ Becomes(ArgsBytes(cur), "bytes")
FromBytes == form = "bytes" /\ Becomes(ArgsFromBytes(cur), "args")
ToJSON == form = "args" /\ Becomes(ArgsToJSON(cur), "json")
FromJSON == form = "json" /\ Becomes(ArgsFromJSON(cur), "args")
PrintKeys ==
    /\ form = "args"
    /\ \E i \in DOMAIN cur : IsKey(cur[i])
    /\ Becomes(Taken(KeysPrinted(cur), <<>>), "printed")
ParseKeys == form = "printed" /\ Becomes(KeysParsed(cur), "args")

Next ==
    \/ /\ trips < MaxTrips
       /\ \/ (ToBytes \/ ToJSON) /\ UNCHANGED printed
          \/ PrintKeys /\ printed' = TRUE
       /\ UNCHANGED trips
    \/ (FromBytes \/ FromJSON \/ ParseKeys) /\ trips' = trips + 1 /\ UNCHANGED printed

Spec == Init /\ [][Next]_vars
-----------------------------------------------------------------------------
(* Properties *)

Forms == {"args", "bytes", "json", "printed", "thrown"}

\* The state keeps its shape: what is carried is a sequence, and keys are
\* strings only after they were printed.
TypeOK ==
    /\ form \in Forms
    /\ printed \in BOOLEAN
    /\ trips \in 0..MaxTrips
    /\ form = "printed" => printed
    /\ form \in {"args", "json", "printed"} => \A i \in DOMAIN cur : Len(cur[i]) = 2
    /\ form = "bytes" => \A i \in DOMAIN cur : cur[i] \in Byte

\* The keys whose readers stop where the key ends, and those that are read
\* well when nothing follows them.
KeyEndsItself(key) ==
    CASE key[1] = "BidAddr" -> key[2][1] \notin BidPurses \cup {BidCredit}
      [] key[1] = "Message" -> key[2][3] # NoIndex
      [] OTHER -> key[1] \notin {"URef", "EraId", "ChainspecRegistry", "ByteCode", "BlockGlobal"}
KeyAlone(key) == key[1] # "ChainspecRegistry" /\ ~KeyBytes(key).threw

\* The keys that are read back from the strings they are printed as.
KeyPrintsBack(key) ==
    CASE key[1] = "Message" -> key[2][3] \in {NoIndex} \cup {<<i>> : i \in 1..9}
      [] key[1] = "BidAddr" -> TRUE
      [] OTHER -> key[1] \notin {"BlockGlobal", "EntryPoint"}

\* The values whose readers stop where the value ends, and those that are read
\* well when nothing follows them.
RECURSIVE EndsItself(_)
EndsItself(value) ==
    LET name == value[1][1]
        data == value[2]
    IN  CASE name = "String" -> \A i \in DOMAIN data : data[i] < 128
          [] name = "Key" -> KeyEndsItself(data)
          [] name \in {"Unit", "URef", "Any"} -> FALSE
          [] name = "Result" -> EndsItself(data[2])
          [] name = "Map" -> \A i \in DOMAIN data : EndsItself(data[i][1]) /\ EndsItself(data[i][2])
          [] name \in DOMAIN Parts -> value[1] # <<"List", <<"Any">>>> /\ \A i \in DOMAIN data : EndsItself(data[i])
          [] OTHER -> TRUE

RECURSIVE Alone(_)
EachAlone(values) ==
    \A i \in DOMAIN values : IF i = Len(values) THEN Alone(values[i]) ELSE EndsItself(values[i])
Alone(value) ==
    LET name == value[1][1]
        data == value[2]
    IN  CASE name \in {"Unit", "URef", "Any"} -> TRUE
          [] name = "Key" -> KeyAlone(data)
          [] name = "Result" -> Alone(data[2])
          [] name = "Map" -> EachAlone(FlattenSeq(data))
          [] name = "List" -> EndsItself(value) \/ (value[1][2][1] \notin {"Any", "Unit"} /\ EachAlone(data))
          [] name \in DOMAIN Parts -> EachAlone(data)
          [] OTHER -> EndsItself(value)

\* The arguments that can make the journey: written to some bytes, read well
\* from them, not taken for a list of bytes, and back from their string if
\* keys were printed.
Travels(arg) ==
    /\ Alone(arg[2])
    /\ arg[2] # NewCLList(<<"List", <<"U8">>>>, <<>>)
    /\ Bytes(arg[2]) \notin {Thrown, Taken(<<>>, <<>>)}
    /\ (printed /\ IsKey(arg)) => KeyPrintsBack(arg[2][2])

\* What is signed is what travels: however often arguments went through bytes,
\* JSON and key strings, an argument that no reader is known to misread still
\* has the bytes it was signed with, as long as those before it have.
TravelKeepsBytes ==
    form = "args" =>
        \A i \in DOMAIN made :
            (\A j \in 1..i : Travels(made[j])) =>
                /\ i \in DOMAIN cur
                /\ ToBytesWithNamedArg(cur[i]) = ToBytesWithNamedArg(made[i])

\* A journey ends in an exception only because of a value that is known not to
\* make it, never because of where it stands among the others.
ThrowsOnlyForCause == form = "thrown" => \E i \in DOMAIN made : ~Travels(made[i])

\* The 1.5 format and the 2.0 format write an argument the same way, however
\* often the buffer of the latter had to grow.
FormatsAgree == form = "args" => \A i \in DOMAIN cur : ToBytesWithNamedArg(cur[i]) = NamedArgBytes(cur[i])
=============================================================================
