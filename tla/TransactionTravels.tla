------------------------- MODULE TransactionTravels -------------------------
(***************************************************************************)
(* A V1 transaction (types/Transaction.ts) between the wallets that sign   *)
(* it: made from a payload, signed, handed on as JSON - perhaps by way of  *)
(* a node, which words the ttl its own way - read, validated and signed    *)
(* again.  Its parts may also be read back from their own bytes.           *)
(*                                                                         *)
(* A hash stands for the bytes it is the hash of, a signature is           *)
(* <<signer, the hash it was made over>>.                                  *)
(***************************************************************************)
EXTENDS TransactionParts

CONSTANTS Payloads,  \* the payloads that are built
          Signers,
          MaxTrips   \* bound: how often the transaction is read back

ASSUME PayloadsAssumption == Payloads \subseteq Payload
ASSUME SignersAssumption == IsFiniteSet(Signers)
ASSUME TripsAssumption == MaxTrips \in Nat \ {0}

VARIABLES made,   \* the payload as it was built
          form,   \* "object", "json" or "refused"
          cur,    \* [hash, payload, approvals] in this form, <<>> once refused
          byNode, \* whether a node worded the ttl
          trips

vars == <<made, form, cur, byNode, trips>>

-----------------------------------------------------------------------------
(* TransactionV1 *)

\* makeTransactionV1: the hash of the payload's bytes, nothing signed.
MakeTransactionV1(payload) == [hash |-> PayloadBytes(payload).val, payload |-> payload, approvals |-> <<>>]

\* validate: the hash is that of the payload, the signatures are over the hash.
Validates(transaction) ==
    /\ PayloadBytes(transaction.payload) = Taken(transaction.hash, <<>>)
    /\ \A i \in DOMAIN transaction.approvals : transaction.approvals[i][2] = transaction.hash

\* TransactionV1.fromJSON: parsed, then validated.
\* Mutant: parsed only.
TransactionV1FromJSON_Unchecked(json) ==
    Then(PayloadFromJSON(json.payload), LAMBDA payload, ignored : Taken([json EXCEPT !.payload = payload], <<>>))

TransactionV1FromJSON(json) ==
    Then(PayloadFromJSON(json.payload), LAMBDA payload, ignored :
        LET transaction == [json EXCEPT !.payload = payload]
        IN  IF Validates(transaction) THEN Taken(transaction, <<>>) ELSE Thrown)

\* Transaction.fromJSON falls back to the format of deploys, which has no payload.
TransactionFromJSON(json) == TransactionV1FromJSON(json)

TransactionV1ToJSON(transaction) ==
    Then(PayloadToJSON(transaction.payload), LAMBDA payload, ignored :
        Taken([transaction EXCEPT !.payload = payload], <<>>))

-----------------------------------------------------------------------------
(* The journey *)

Init == /\ made \in {payload \in Payloads : ~PayloadBytes(payload).threw}
        /\ form = "object"
        /\ cur = MakeTransactionV1(made)
        /\ byNode = FALSE
        /\ trips = 0

Becomes(taken, next) ==
    /\ IF taken.threw THEN form' = "refused" /\ cur' = <<>> ELSE form' = next /\ cur' = taken.val
    /\ UNCHANGED made

\* Mutant: the approval is added to the transaction and to the one it wraps,
\* which are the same list.
Sign_Twice(signer) ==
    /\ form = "object"
    /\ \A i \in DOMAIN cur.approvals : cur.approvals[i][1] # signer
    /\ cur' = [cur EXCEPT !.approvals = @ \o <<<<signer, cur.hash>>, <<signer, cur.hash>>>>]
    /\ UNCHANGED <<made, form, byNode, trips>>

\* sign and setSignature: once for each signer here.
Sign(signer) ==
    /\ form = "object"
    /\ \A i \in DOMAIN cur.approvals : cur.approvals[i][1] # signer
    /\ cur' = [cur EXCEPT !.approvals = Append(@, <<signer, cur.hash>>)]
    /\ UNCHANGED <<made, form, byNode, trips>>

ToJSON == /\ form = "object"
          /\ trips < MaxTrips
          /\ Becomes(TransactionV1ToJSON(cur), "json")
          /\ UNCHANGED <<byNode, trips>>

\* External: a node shows the transaction it was put, with the same ttl.
NodeShows == /\ form = "json"
             /\ cur' = [cur EXCEPT !.payload.ttl = NodeTTL(made.ttl)]
             /\ byNode' = TRUE
             /\ UNCHANGED <<made, form, trips>>

FromJSON == /\ form = "json"
            /\ Becomes(TransactionFromJSON(cur), "object")
            /\ trips' = trips + 1
            /\ UNCHANGED byNode

\* The parts that have a fromBytes, read from what their toBytes wrote.
PartsFromBytes(payload) ==
    LET entry == EntryPointFromBytes(EntryPointBytes(payload.entry))
        scheduling == SchedulingFromBytes(SchedulingBytes(payload.scheduling).val)
        id == IF payload.target[1] = "Stored" THEN InvocationFromBytes(InvocationBytes(payload.target[2]).val)
              ELSE Taken(<<>>, <<>>)
    IN  IF entry.threw \/ scheduling.threw \/ id.threw THEN Thrown
        ELSE Taken([payload EXCEPT !.entry = entry.val, !.scheduling = scheduling.val,
                                   !.target = IF @[1] = "Stored" THEN [@ EXCEPT ![2] = id.val] ELSE @], <<>>)

ReadParts == /\ form = "object"
             /\ trips < MaxTrips
             /\ Becomes(Then(PartsFromBytes(cur.payload), LAMBDA payload, ignored :
                            Taken([cur EXCEPT !.payload = payload], <<>>)), "object")
             /\ trips' = trips + 1
             /\ UNCHANGED byNode

Next ==
    \/ \E signer \in Signers : Sign(signer)
    \/ ToJSON
    \/ NodeShows
    \/ FromJSON
    \/ ReadParts

Spec == Init /\ [][Next]_vars
-----------------------------------------------------------------------------
(* Properties *)

\* The state keeps its shape, and what is read back has as many approvals as
\* there are signers at most.
TypeOK ==
    /\ form \in {"object", "json", "refused"}
    /\ byNode \in BOOLEAN
    /\ trips \in 0..MaxTrips
    /\ form = "refused" <=> cur = <<>>
    /\ form # "refused" => Len(cur.approvals) <= Cardinality(Signers)
    /\ form = "object" => cur.payload.ttl \in Nat \cup {NotWhole}

\* Names outside ASCII are written with a size that does not cover them.
Ascii(text) == \A i \in DOMAIN text : text[i] < 128

\* The parts whose own bytes are not read back.
PartsUnread(payload) ==
    \/ payload.entry[1] = "Custom"
    \/ /\ payload.target[1] = "Stored"
       /\ \/ payload.target[2][1] \in {"ByPackageHash", "ByPackageName"} /\ ~Truthy(payload.target[2][3])
          \/ payload.target[2][1] \in {"ByName", "ByPackageName"} /\ ~Ascii(payload.target[2][2])
    \/ payload.scheduling[1] # "Standard" /\ ~Exact(payload.scheduling[2])

\* The arguments that JSON does not give back.
ArgsUnread(args) == ArgsJSON(args).threw \/ ArgsOfJSON(ArgsJSON(args).val) # Taken(args, <<>>)

\* The payloads whose JSON is not read back.
JsonUnread(payload) ==
    \/ ArgsUnread(payload.args)
    \/ payload.scheduling[1] = "FutureTimestamp"
    \/ payload.ttl >= Week
    \/ payload.ttl >= 2 * Day /\ byNode
    \/ RoundsOff(payload.ttl % Minute)

\* However often a transaction was handed on, what a wallet holds is what the
\* first one built: the payload has the bytes the hash was made of, and every
\* approval gathered on the way is over it.
ArrivesAsSigned ==
    form = "object" /\ ~PartsUnread(made) =>
        /\ PayloadBytes(cur.payload) = PayloadBytes(made)
        /\ cur.hash = PayloadBytes(made).val
        /\ Validates(cur)

\* A transaction is refused only for one of the parts known not to be read
\* back, never for another or for a combination of parts.
RefusedOnlyForCause == form = "refused" => JsonUnread(made) \/ PartsUnread(made)

\* The zero versions that are signed like none at all.
WithoutZeros(target) ==
    IF target[1] # "Stored" THEN target
    ELSE IF target[2][1] \notin {"ByPackageHash", "ByPackageName"} THEN target
    ELSE [target EXCEPT ![2] = <<@[1], @[2], IF Truthy(@[3]) THEN @[3] ELSE <<>>,
                                 IF Truthy(@[4]) THEN @[4] ELSE <<>>>>]

\* A signature says one thing: two payloads with the same bytes are the same,
\* apart from versions 0 and none.
OneMeaning ==
    form = "object" /\ trips = 0 =>
        \A other \in Payloads :
            PayloadBytes(other) = PayloadBytes(made) =>
                [other EXCEPT !.target = WithoutZeros(@)] = [made EXCEPT !.target = WithoutZeros(@)]

\* What a node reads of the fields: how many there are, then a number and a
\* sized value of each, to the very end.
FieldsRead(bytes) ==
    LET number(from, width) == Small(Slice(bytes, from, from + width))
        count == number(0, 4)
        start[i \in 1..(count + 1)] ==
            IF i = 1 THEN 4 ELSE LET last == start[i - 1] IN last + 6 + number(last + 2, 4)
    IN  IF start[count + 1] # Len(bytes) THEN Thrown
        ELSE Taken([i \in 1..count |-> <<number(start[i], 2), Slice(bytes, start[i] + 6, start[i + 1])>>], <<>>)

\* The parts are found where the offsets and lengths say, however large each
\* of them is and however often the buffers had to grow.
PartsFound ==
    form = "object" =>
        LET table == CalltableFromBytes(cur.hash).val
            fields == GetField(table, 5)[1]
        IN  /\ [i \in DOMAIN table |-> table[i].index] = <<0, 1, 2, 3, 4, 5>>
            /\ GetField(table, 0) = <<InitiatorBytes(made.initiator)>>
            /\ GetField(table, 1) = <<Padded(made.timestamp, 8)>>
            /\ GetField(table, 2) = <<Padded(Digits(made.ttl), 8)>>
            /\ GetField(table, 4) = <<PricingBytes(made.pricing)>>
            /\ FieldsRead(fields) = Taken([i \in 1..4 |-> <<i - 1, PayloadFields(made)[i].val>>], <<>>)

\* So what is signed says one thing, and says it where a node looks for it.
SaysWhatIsSigned == OneMeaning /\ PartsFound

\* The two readers of durations agree on what the SDK and the nodes write, if
\* it has no weeks, no days in the plural and no fraction of a second.
DurationsAgree ==
    form = "json" /\ made.ttl % 1000 = 0 /\ made.ttl < 2 * Day =>
        /\ ParseDurationString(cur.payload.ttl) = Taken(made.ttl, <<>>)
        /\ DehumanizerTTL(cur.payload.ttl) = Taken(made.ttl, <<>>)
=============================================================================
