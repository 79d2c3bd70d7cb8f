# casper-js-sdk in TLA+

A verification development for the TypeScript SDK of the Casper network
(`src/` of this repository). Each module below models one part of the SDK, TLC
checks it on small instances, and TLAPS proves the properties that matter for
every value of the constants.

## The system

The SDK is a library: it runs inside its caller's JavaScript process, in one
event loop, and keeps no file or database. What makes it hard is (a) what
happens between an `await` and its answer, (b) callbacks that call back into
the object that called them, (c) mutable objects that are shared between values
which look independent, and (d) two generations of nodes (API 1 and API 2) with
different methods and result formats.

| Component | Source | State | Operations | Hard behaviour |
| --- | --- | --- | --- | --- |
| Confirmation polling | `src/rpc/rpc_client.ts` | deadline, attempts, a timer per race, a sleep, requests in flight | `waitForTransaction`, `waitForDeploy` | late answers, retries, deadline against answer, cleared timers, 1.x results |
| RPC client | `src/rpc/*.ts` | none between calls | one method per RPC; reads in two requests (`getStateItem`, `getDictionaryItem`, `getLatestBalance`); auction info with a fallback | the state moves between two requests; the error that selects the fallback |
| SSE client | `src/sse/client.ts`, `event_parser.ts` | subscriptions, current stream | `subscribe`, `unsubscribe`, `start`, `stop`, event loop | handlers that subscribe, unsubscribe, start or stop while the loop runs; streams that are replaced, lost, closed |
| Deploys | `src/types/Deploy.ts`, `ExecutableDeployItem.ts` | header, session, payment, approvals, all mutable | `makeDeploy`, `addArgToDeploy`, `sign`, `setSignature`, `validate`, `fromJSON`, `toJSON` | objects shared between deploys; hashes and signatures of something that changed since |
| Transactions | `src/types/Transaction.ts` | a view of a deploy or a V1 transaction | `sign`, `setSignature`, `fromDeploy`, `fromTransactionV1` | the view is copied once, the signatures go to the origin |
| Transaction builders | `src/types/TransactionBuilder.ts`, `TransactionV1Payload.ts` | the fields set so far | fluent setters, `build`, `buildFor1_5` | built values share objects with the builder; order of setters |
| Casper network | `src/utils/casper-network.ts` | the API version found at creation | `create*Transaction`, `putTransaction`, `getTransaction`, `queryLatestBalance` | version learnt once; two lookups for a hash of unknown kind |
| Serialization | `ByteConverters.ts`, `Args.ts`, `clvalue/`, `CalltableSerialization.ts`, `SerializationUtils.ts` | none | value to bytes or JSON and back | offsets, lengths, widths and recursion; readers that do not stop where the value ends; buffers that grow |
| Transaction V1 | `TransactionV1Payload.ts` and its parts, `Transaction.ts`, `Time.ts` | approvals | hash, sign, validate, JSON and parts of it from bytes | what was signed against what is read back; two ways of reading durations |
| Node results and events | `Block.ts`, `ExecutionResult.ts`, `AuctionState.ts`, `Transform*.ts`, `response.ts`, `event.ts`, ... | none | 1.x and 2.x JSON to one type | fields that exist in one generation only; facts of one generation told by a node of the other; kinds recognised by parts of their names |
| Keys | `key/`, `keypair/` | none | parse, print, sign | prefixes that begin with others; sizes by kind; cryptography (left out) |

How they interact: `CasperNetwork` builds transactions with the builders and
sends and reads them through `RpcClient`; the builders end in `TransactionV1` or
in `Deploy.makeDeploy`; a `Transaction` refers to the `Deploy` or `TransactionV1`
it is a view of; `RpcClient.waitFor...` polls with the `Transaction`'s hash;
`SseClient` is independent of all of them, but its events carry the same types as
the answers of `RpcClient`. Builders, deploys and transactions end in the same
`Args`, which end in the same `CLValue`s and `Key`s: those decide the bytes that
are hashed and signed.

## What makes each component correct

* Polling: the promise settles once, in bounded time, with an answer that was
  true; it leaves no timer and no further request; the retry budget is exact.
* SSE: an event goes to at most one handler, which is subscribed; `stop()` stops;
  no stream gets out of reach.
* Session: it is not refused by the node it has asked for its version, and it
  finds what it submitted.
* Reads: what is named is what is read; a read of the latest state is of one
  state that was the latest during the call, however many requests it takes.
* Builders: what is built says what was set last, in both formats, but for what
  the code takes for nothing (a number that is 0) or has no place for; and stays
  what it was while its builder is used on.
* Deploys: what the SDK returns validates; what was signed is not changed; a
  valid deploy stays valid until the caller attaches a wrong signature.
* Serialization: what is read back has the bytes that were signed, wherever it
  stands among other values; nothing is refused because of its neighbours; both
  formats write an argument alike.
* Transactions: what a wallet holds is what the first one built, and one signature
  says one thing.
* Node results: whatever way a fact is asked for or heard of, and whichever
  generation of node made it and tells it, it is told as it happened.

`PROJECT.json` lists the hazards at their lines, with the properties that would
catch each going wrong.

## Modules

| Module | Models | Run | Proofs |
| --- | --- | --- | --- |
| `ConfirmationPromise` | what a caller of `waitFor...` is promised (abstract) | as property `ImplementsPromise` | refined in `WaitForConfirmation_proofs` |
| `WaitForConfirmation` | `RpcClient.waitForConfirmation` with its polls, timers, node and event loop | `Wait*` | `WaitForConfirmation_proofs` |
| `SseClient` | `SseClient`, with the `EventSource` as environment | `SseStopsFirst` | `SseClient_proofs` |
| `DeployLifecycle` | `Deploy` objects and `Transaction`s from them | `DeployHandedOver` | `DeployLifecycle_proofs` |
| `CasperNetwork` | the `CasperNetwork` session over a node that is upgraded | `NetworkUpgraded` | `CasperNetwork_proofs` |
| `LatestRead` | what a read of the latest state promises (abstract) | as property `ImplementsLatestRead` | refined in `StateReads_proofs` |
| `StateReads` | the reads of `RpcClient` over a chain that grows | `ReadsOfChain` | `StateReads_proofs` |
| `TransactionBuilder` | the fluent builders, their objects and the transactions they build | `Builder*` | `TransactionBuilder_proofs` |
| `ByteConverters` | numbers, texts, byte arrays and growing buffers | those below | what `TransactionParts` uses of it |
| `Keys` | keys of global state and public keys, as bytes and as strings | those below | what `TransactionParts` uses of it |
| `CLValues` | types and values, to bytes and JSON and back | those below | |
| `Args` | named arguments, to bytes and JSON and back | those below | |
| `ArgsTravel` | arguments on their way through bytes, JSON and key strings | `ArgsTravel` | |
| `TransactionParts` | calltables, the parts of a V1 transaction and durations | `TransactionTravels` | `TransactionTravels_proofs` |
| `TransactionTravels` | a V1 transaction handed from wallet to wallet, also by way of a node | `TransactionTravels` | `TransactionTravels_proofs` |
| `Blocks` | blocks and headers of both generations | `NodeResults` | |
| `Executions` | execution results, effects and transfers of both generations | `NodeResults`| |
| `Stakes` | bids, delegations, payments and packages of both generations | `NodeResults` | |
| `NodeReaders` | `response.ts` and `event.ts` over those | `NodeResults` | |
| `NodeAnswers` | what a node writes (external), in the shapes of the repository's fixtures | `NodeResults` | |
| `NodeResults` | a client that asks and listens across the upgrade of its node | `NodeResults`, `DisabledVersions` | `NodeResults_proofs` |
| `MC...` | the constants of the runs | | |

Operators named `X_Something` are mutants of `X`: a plausible bug in the code
that `X` translates. No specification uses them; each shows that some property
can fail.

### WaitForConfirmation

`now` is `Date.now()` since the call in units of 100 ms. `pc` says where the
loop awaits: a poll (`polling`), a sleep (`sleeping`), or nothing any more
(`settled`). `timer` is when the `setTimeout` of `beforeDeadline` is due and
`wake` when that of `sleep` is. `inflight` holds the requests without an answer
with what the node had read when it served them, so an answer can be older than
the state of the network when it arrives, and an answer can arrive after its
race was lost (`LateAnswer`). A poll's outcomes are `PollConfirms`,
`PollFindsNothing`, `NodeRejects` and `TransportFails`; each action contains all
the code up to the next `await`, and so the look at the clock before the sleep.
`DeadlineFires` is the other side of the race, `Wake` the end of a sleep with
the poll that follows. `GetInfo`, `Origin` and `NodeApi` choose among the
combinations of poll, transaction and node that callers meet.

Time: `Tick` may not pass a timer that has been due for `Lag` units, which
stands for the event loop's delay (other callbacks running). Nothing bounds how
long an answer takes. `Horizon` bounds the clock and is above `Latest`, so the
bound is never what settles the promise.

Bounds: timeout 20, poll delay 4, retry delay 5, 3 retries. The delays and the
retries are those of the code; within 20 units there is room for six polls, so
the budget can be exhausted with good polls in between, and the deadline can
fall into a poll, into each kind of sleep and onto a timer.

Fairness: weak fairness of `Tick`, `DeadlineFires` and `Wake`: time passes and
the event loop runs a timer that is due. The node and the network get none.

### SseClient

The loop of `runEventsLoop` is a set of subscriptions to visit (`todo`) and the
subscription whose handler runs (`running`). `Array.forEach` visits the elements
the array had when it began; `subscribe` pushes to that array, `unsubscribe`
replaces it by a new one, and so neither changes `todo`. User code runs when no
loop does or inside the handler (`UserCode`). `streams` is the `readyState` of
each `EventSource`, whose own behaviour (connect, lose, reconnect, fail) is
external. Errors of the stream reach the user's callback and change nothing.

The code lets a caller `start()` a client that has a stream; `StopFirst` says
that callers `stop()` first. With it everything holds (`SseStopsFirst`); without
it `stop()` does not stop, because the first stream is out of reach.

### DeployLifecycle

A deploy refers to a header object and a session object by number, so two
deploys can share them as they do after `addArgToDeploy`. The hash of a body is
the body and the hash of a header the header: hashing is injective, and so is
signing. The payment takes no part in what is modelled (nothing in the code
changes it) and is a fixed part of the body. Signatures are accepted from a
wallet for any hash that was shown to it (`SetSignature`), as the code accepts
them. `KeepsOld` says whether callers go on using a deploy after passing it to
`addArgToDeploy`. Three deploys, one argument name with two values and one
signer are enough for a deploy, its successor and a further successor or copy.

### CasperNetwork

`apiVersion` is the session's field and `status` the answer that `create()`
awaits. Each caller has at most one call in flight (`call`): its operation, the
JSON-RPC method of the current request, what the node has answered and how the
promise settled. `Begin` is the code up to the first `await`; `NodeServes` is
the node at the moment it serves the request, `TransportFails` a request or an
answer that is lost (a submission may have been taken); `GetFallsBack` and
`BalanceAtRoot` are the code between the two requests of a call and `CallEnds`
the code after the last one. The node is external: the methods that an API 1
and an API 2 node serve, the transactions it knows, and one `Upgrade` at any
moment. What `create...Transaction` puts into a transaction is left out except
for its kind, a V1 transaction or a deploy, chosen by the version.

`submitted` and the flags `own` and `knew` of a call are history: what this
session had submitted, and what the node knew, when the call began. `given`
says that the version came from the caller, who may be wrong.

Two transactions of any kinds and two callers: one call can submit, or see
the node change, between the two requests of the other. `NetworkUpgraded` visits
868,170 states up to symmetry.

### StateReads

`chain` holds the state after each block, and the block at height 0 is
`chain[1]`. A call keeps what its caller asked for (`want`), the method and the
identifier of its current request, and the node's answer. The identifier goes
through the constructors of `request.ts` with their orders of arguments; an
identifier without any part means the latest state. `Begin` is the code up to
the first `await`, `ReadAtRoot` the code between the two requests of
`getStateItem`, `getDictionaryItem...` and `getLatestBalance`,
`GetAuctionInfoV1` the `catch` of the auction reads, `CallEnds` the code after
the last request. The methods that differ only in the result they parse share
an action (`GetFromChain` the blocks, transfers, eras, entities, accounts and
rewards; `GetStateItem` the three reads at a state root). Hashes do not
collide: a block's hash is its height and a root hash its state, so equal
states have equal roots. `chain` growing at any moment, `Upgrade`, lost
requests and lost answers are the environment.

`RpcClient` keeps nothing between calls, so one caller is enough; four blocks
with two values give a state that changes and comes back between the two
requests. The theorems hold for any number of callers, values and blocks. What an
answer holds is one value here: that a query by block is refused when its answer
carries a header is in `NodeResults`, and is a call that fails here.

### TransactionBuilder

One builder of any class (`kind`), used for as long as its caller likes. What
the builder, its caller and the transactions share are objects, named by number
in `heap`: initiators, argument maps, targets. `Make` is a setter that stores a
new object, `Set` one that stores a value, `InstallOrUpgrade` the one that writes
into an object it has. `InsertArg` is the caller, who keeps the `Args` it handed
in. A transaction is the references it keeps and the content its hash was made
of (hashing is injective), and `Valid` is `validate()` with no approvals.
`Build` and `BuildFor1_5` are enabled when the code does not throw: `V1Complete`
and `DeployComplete` say what each needs. A class has a small number of settings
here: the recipient of a transfer as two fields, as in the code; its id; the
amount and the tolerance of `payment()`; the contract of the auction; the contract
or package of a call with the two versions of a package; and `terms` for the other
setters of a native builder, which keep `CLValue`s, or the entry point of a call.
What the code tests by its truth is a number here (`IfTruthy`), so that 0 is one of
the inputs. `asked` is history: what the caller set last.

`SaysWhatWasAsked` has one clause for each setting, and names what is not said:

* in both formats a transfer id of 0 and a package version of 0 are left out, and
  in a transaction of 2.0 a protocol version major of 0 (`TransactionBuilder.ts:296`,
  `ExecutableDeployItem.ts:381`, `TransactionTarget.ts:150` and `:160`);
* a deploy drops the protocol version major of a package altogether
  (`TransactionBuilder.ts:1407` and `:1420`), and has no install mark;
* a deploy pays a default for a transfer of payment 0 (other classes throw), and has
  the gas price 1 for a tolerance of 0 (`TransactionBuilder.ts:160`), where a
  transaction of 2.0 says 0;
* only a deploy names the contract of `contractHash()`; without one it is that of
  the chain by its name, which is not modelled (`Unset` stands for it);
* the recipient of a deploy is the last public key: see `TransfersReach`.

`BuilderReused` has one class for each way of building (`NativeAddBid` for the
bids, `NativeDelegate` for the three that need the initiator's key), and seven
calls, which is enough to configure a builder, build, change a setting and build
again, on 3.9 million states up to symmetry, with numbers that are 0 and that are
not in every place that tells them apart; a contract call, which has the most
to configure, is built and changed once. The theorems bound neither.

### ByteConverters, Keys, CLValues, Args and ArgsTravel

The first four modules are operators, one per reader and writer of the code; a
reader gives the value with the bytes it left, or `Thrown`, so a reader that takes
too many or too few bytes shows in what is read after it. Bytes are numbers and
buffers sequences of them; an integer is a sign with digits in base 256, so every
width up to 512 bits is exact. A text is its code points, which tells its length
in UTF-16 units (which `StringBytes` writes) from its length in UTF-8 bytes. A
printed key is the sequence of its segments: what the dispatch by prefix and the
sizes of the hex parts do is modelled, the spelling of hex and digits is not.
`NewBuffer`, `ExpandBuffer` and `Write` are the buffers that grow by doubling;
`PageSize` is the page of the code, made small so that they do grow.

`ArgsTravel` is the journey: arguments are made, written as bytes or JSON, read
back, up to `MaxTrips` times in any order, and keys also as strings. `MCGiven`
has numbers of every width at their boundaries, keys of every kind, values of
every type and composites of them, each followed by a text and a list, which is
where a reader that does not stop at the end of its value is seen. One value can
be misread on one trip and what it has become on the next, hence three trips.

`EndsItself`, `Alone` and `KeyPrintsBack` name what the code does not read back:
the keys whose readers take the rest of the bytes (`EraId`, `URef`, purses and
credits of `BidAddr`, `ByteCode`, `BlockGlobal`, a `Message` without an index),
texts outside ASCII, `Unit` and `Any` before other values, and the printed keys of
`BlockGlobal` and `EntryPoint`. `TravelKeepsBytes` says that there is nothing
else: an argument without one of those keeps the bytes it was signed with.

### TransactionParts and TransactionTravels

`TransactionParts` has the calltable (fields with indices and offsets) and for
each part its bytes, its JSON and their readers, and the two readers of durations:
`DehumanizerTTL` and `ParseDurationString`. `TransactionTravels` builds a
payload, hashes it (a hash is the bytes it was made of), and hands it on: `Sign`,
`ToJSON`, `NodeShows` (a node words the ttl its own way; external), `FromJSON`
with its validation, `ReadParts` (the parts from their own bytes). `PartsUnread`
and `JsonUnread` name the payloads that are refused or changed: custom entry
points, packages without a version, names outside ASCII and very large eras when
read from bytes; a future timestamp, a ttl of weeks, one of two days or more in a
node's words and one whose seconds round off when read from JSON. The properties
say that nothing else is.

What an argument is, its bytes and its JSON are operator constants of
`TransactionParts` (`Arguments`, `ArgBytes`, `ArgsJSON`, `ArgsOfJSON`): an argument
is opaque to everything around it, in the code as here. `MCTransactionTravels`
gives them the operators of `Args`. This also keeps the recursion over the
structure of a type out of the modules that are proved about. The assumptions, all
of them evaluated by TLC on each run:

* `ArgBytesAssumption`: an argument has bytes or throws.
* `ArgsDifferAssumption`: the bytes of one argument do not begin those of another.
  Name, value and type are each preceded by a size or end themselves, so this
  should hold of `NamedArg.toBytes`; `MCArguments` has values of neighbouring types
  and names for TLC to try it on.
* `PageSizeAssumption`: the buffer's first page holds a size, the first thing
  written to it. `PayloadsAssumption`, `SignersAssumption` and `TripsAssumption` say
  that payloads are of the types the builders can give, wallets finitely many and
  the bound not 0.

Sizes, counts and offsets are the four bytes `<<n % 256, n \div 256, 0, 0>>`: those
of the code up to 65535. Beyond that (a large Wasm module) the second of them is a
digit larger than a byte where the code uses the third: still four elements, one to
one, and read back by `Small`, which is all that the layout of the tables needs.

`MCPayloads` is a base and every payload that differs from it in one part, so that
every combination of a part's fields is there while `OneMeaning` compares all
pairs. Two wallets and two trips let a transaction be signed, read, signed by
another and read again. `PageSize` is 4, so every buffer grows at least twice.

### Blocks, Executions, Stakes, NodeReaders, NodeAnswers and NodeResults

JSON is a record; an absent member is `None`. The first three modules and
`NodeReaders` are the constructors and `fromJSON`s of the types. `NodeAnswers`
writes facts of the chain as nodes do: a block keeps the form of the generation
that made it even when a node of the next one tells it, wrapped in its version.
`NodeResults` is the client: `AddBlock` and `Upgrade` are the chain, `Ask...` the
calls, `Hear...` the events, `Reread` the parse of a kept raw answer, `KeepBlock`
the JSON of a block read again, `UnwrapHeader` the header taken out of its
version, `AskStateRoot` a query whose answer has no header, `Speculate` a
speculative execution. `answers` keeps what was told with
what it is about, and the properties compare it with the fact, and answers about
one fact with each other (`TransfersAgree`).

An effect's transform is the path of names down to its value, each name a sequence
of words, because the code recognises kinds by parts of their names, also by names
of members inside the written value (`Within`). `Confused` lists the three pairs
that are confused by the kind's own name, and `EffectsTold` says that no other is
and that nothing is parsed as what it is not.

The predicates `IsBlockFact`, `IsTransaction`, `IsEffect`, `IsEraEnd`, `IsValidator`,
`IsPayment` and `IsPackage` say what a fact is, and TLC evaluates the assumptions
that the constants are facts. They allow lists of any length and values of any
kind; what they exclude is what a node does not write: an object has its members
and no other; a block does not hold a transaction twice; a 1.x node has deploys
only, files them in two categories and tells one number for cost and consumption;
each generation writes the kinds of `KindsOf`; no member inside a written value is
named `WriteTransfer` (a 1.x reader would take the value for a transfer); era ends
have weights, which tells 2.x ones from others; a 1.x era pays whom it lists.

Two blocks and two answers: a property needs at most two answers and a block of
each generation. `MCBlockFacts` has a block of each kind with failed and
successful transactions, transfers, every effect and an era's end, and a 2.x block
without a last switch block.

## Runs

| Run | Question | Result |
| --- | --- | --- |
| `WaitTransaction` | all properties of the polling loop, and that it implements `ConfirmationPromise` | hold |
| `WaitDeployOnApi1` | does `waitForDeploy` confirm a deploy with results of a 1.x node? | no: it times out |
| `SseStopsFirst` | all properties of the SSE client, with callers that stop before they start again | hold |
| `DeployHandedOver` | all properties of deploys, with callers that hand over | hold |
| `NetworkUpgraded` | is a session ever refused by the node, does it find what it submitted and what the node knows? | never refused unless the version was given; found, across the upgrade, if the session's version has methods for it |
| `ReadsOfChain` | do reads return what was named, or what was the latest at one moment of the call? | yes |
| `BuilderReused` | does what a builder builds say what was set last, and stay so while the builder is used on? | yes, but for what `SaysWhatWasAsked` names (above), and until the caller changes its own `Args` or marks a session that is still shared |
| `BuilderRecipient` | do transfers go to the account set last? | not the 1.5 deploy, after a target set by account hash |
| `ArgsTravel` | do arguments that are read back keep the bytes that were signed? | yes, but for the values named in `Travels` |
| `TransactionTravels` | does every wallet hold what was built, is nothing refused, does a signature say one thing? | yes, but for the payloads named in `PartsUnread` and `JsonUnread`; a version 0 is signed as none |
| `NodeResults` | is a client told what happened, by either generation, in answers and events? | yes, but for what the properties name (below) |
| `DisabledVersions` | does a disabled version of a 1.x node read as `[major, version]`? | no: the numbers are swapped |

Several properties are conjunctions of named parts, each with its own comment:
`KeepsTimeout` (`NoEarlyTimeout`, `SettledByLatest`), `NothingPilesUp`
(`TimersReleased`, `OneRequestAtATime`), `CalledInTurn` (`CalledWhileSubscribed`,
`NewcomersWait`), `SaysWhatIsSigned` (`OneMeaning`, `PartsFound`), `BlocksTold`,
`OutcomesTold` and `StateTold`. `TypeOK` is proved of all eight modules with proofs;
only the runs `NodeResults`, `ArgsTravel` and `TransactionTravels` check it too.

What the runs show besides:

* `RetryBudget` counts the failed polls of the whole wait, although the doc comment
  of `waitForConfirmation` speaks of failing "consistently"; and `SettledByLatest`
  is as tight as it can be: a sleep that has begun at the deadline runs to its end,
  so the timeout is not quite "the maximum time to wait".
* `HeadersTold`: a query whose answer carries a block header is refused. The
  members of `BlockHeader` (`Block.ts:1054`, `1083`, `1094`, `1117`, `1128`) and of
  `EraEnd` (`EraEnd.ts:222`, `233`, `249`) that have a reader of their own throw when
  they are absent: in a header of a 2.x node all are, because the node wraps it in
  its version, in one of a 1.x node the proposer is. Queries by state root, whose
  answer has no header, are told. Unwrapped first, only the proposer of a 1.x block
  is missing.
* `BlockTold`: a 2.x block or header whose last switch block is `null` is refused
  (`Block.ts:891` reads it without a guard), although the unified block says that it
  "can be `null` if not applicable" (`Block.ts:81`); every other block is told.
* `KeptReadsBack`: a 2.x block written as JSON keeps the last transaction of every
  category, and calls a V1 hash `V1`, which its own reader refuses.
* `EffectsTold`: asking what a bare word is throws, `isWriteBid` never holds of a
  bid (only of a value with a member of that name), and `isCLValueWrite` misses
  the writes of 2.x nodes.
* `EventsTold`: the transaction events of 1.x nodes are refused; the deploy events
  have their own parsers.

Disagreements met while modelling that no run keeps:

* `waitForTransaction` of a transaction made from a deploy asks the node for a
  `Version1` hash (`rpc_client.ts:1485`), which no node knows.
* `start()` on a started SSE client leaves a stream that `stop()` does not reach
  (`StopFirst = FALSE` shows it).
* `addArgToDeploy` refuses a signed deploy, but adding to an unsigned one that
  shares its session changes a signed one (`KeepsOld = TRUE` shows it).
* A session that found API 1 asks for deploys only, also after the node's upgrade,
  so `getTransaction` does not find V1 transactions of others by hash alone.

Deadlock checking is off where the promise has settled and the clock stands at
its bound, for the builder, whose callers stop at theirs, and for the three runs
that end at `MaxTrips`, `MaxBlocks` and `MaxAnswers`; everywhere else it is on.

## Proofs

Each `*_proofs` module proves an inductive invariant `IInv` and from it `TypeOK`
(first, where `IInv` needs it) and the others.

* `WaitForConfirmation_proofs`: `IInv` relates the timers to `pc`, the deadline
  timer to the clock of the poll it was armed for, `attempts` to the failures so
  far and the requests in flight to `issued`. It is needed because none of the
  checked invariants mentions the timers' values: that the promise is never
  early follows from the timer being due at `Timeout` or later, that it is never
  later than `Latest` from the sleep having begun before `Timeout`. The
  refinement theorem maps every step to a step of `ConfirmationPromise` or a
  stutter. `ConfirmationNotMissed` assumes an API 2 node: `WaitDeployOnApi1`
  shows why.
* `SseClient_proofs`: the invariant says that what is still to be called has
  the name of the event, at most one in all, and was subscribed before; that no
  stream but `eventSource` is alive when callers stop first. `StopIsEffective`
  assumes `StopFirst`.
* `DeployLifecycle_proofs`: under `~KeepsOld` the deploys in use share neither
  header nor session with each other, which makes every in-place change private.

* `CasperNetwork_proofs`: the invariant bounds what the session believes by what
  the node can do, ties every pending request to a method of the session's
  version, and says of each lookup that has to succeed (`Sure`) which methods it
  can still go through. `LookupsFindKnown` is about deploys and, on API 2,
  every transaction.
* `StateReads_proofs`: the invariant says that the identifier of a pending read
  names what its caller named (`IdentInv`): for reads that name something from
  the start, for those of the latest state in two requests from the second one
  on. `LatestReadsAreAtomic` cuts each call into abstract moves (`Move`) and
  shows that the node's first answer is the moment at which the state is read.
* `TransactionBuilder_proofs`: the invariant says that the builder's references
  are to objects that were made (`Made`) and have the shape of their class
  (`Shapes`), that its fields are what was asked (`Tracks`), and that an argument
  map that a native build made is not changed any more (`NativeArgsKept`).
  `BuiltIsStable` needs no more of the steps than which objects they write.

* `NodeResults_proofs`: every property of `NodeResults`, for blocks with any number
  of transactions, transfers and effects, chains of any length, and any set of
  validators, payments and packages. The state machine only collects answers, so
  `IInv` says of each answer where it was read from: `Right` has one conjunct for
  each way to ask, with the fact, the generation that told it and the reader. It is
  needed because the properties speak of what was told, long after the API has
  changed, and because an answer can be read again (`Reread`, `KeepBlock`): a
  reread answer is known only by the generation that first gave it. `ToldIsRead`
  proves it; the rest of the module is about the readers, one lemma for each class,
  from what a node writes to what the class then holds. What makes it long is lists:
  - A lemma about a list of any length is proved by `SequenceInduction`, which is
    stated of a set of sequences where the library's theorem takes an operator. It
    gives what `FlattenSeq`, `Among` (the filter) and `Mapped` do to `Append` and to
    each other; the proofs about readers cite only those.
  - A 2.x block is filed by category and read back in the order of the categories.
    `PartsFiled`, `CategoryTold` and `FiledLengths` show that each category keeps its
    order and that none is lost; `KeptTransactions` is the same for the JSON that
    keeps the last of each.
  - `NamesInclude` and `WordsDiffer` decide every inclusion of one kind's words in
    another's, which is where the three confused pairs come from; `OtherRecognised`
    then holds for every effect.
  - The auction of a 1.x node is one list of lists and that of a 2.x node a flat list
    of bids of all kinds: `Tells` says what both must amount to, `OldTells` and
    `NewTells` that they do, and `AuctionTold` draws the conclusion once for both.

  The theorems assume `Apart`: `None` and `Thrown` are different, are no objects,
  and `None` is no number, as `undefined` and an exception are in the code. It is a
  hypothesis and not an assumption of the module because TLC, for which both are
  model values, cannot evaluate the domain of one.

* `TransactionTravels_proofs`: every property of `TransactionTravels`, for every
  payload (`Payload` has ttls below 2^31 ms, which TLC can still write, and package
  versions below 65536, which `U32` writes as the code does), any arguments whose bytes differ, any wallets, any number of trips and any
  page size. The inductive invariant `IInv` says that the transaction in hand is a
  hash, a payload and approvals of different wallets (`Held`), that the hash is that of
  the payload that was made, and that the payload agrees with the one that was made
  (`ObjectOf`) or is what a wallet or a node writes of it (`JsonOf`), field by field:
  exactly on the fields that are read back, and only up to what a reader loses on the
  others. It is needed because `ArrivesAsSigned` speaks of the transaction as it is
  now, many trips after it was made, and a part that was misread once must not be
  made worse, or good again, by the next trip. Validation gives the rest: what
  is read with other bytes than were signed is refused, so a refusal has a cause.
  Its parts, in the order of the module:
  - Lists and bytes. `FlattenSeq` is a fold; `FlattenConcat`, `FlattenSplit` and
    `SliceMiddle` say where a piece of it lies.
  - Calltables: `TableRead` (any number of fields, of any lengths, come back with
    their indices) and `FieldOf`. Buffers that grow: `WriteRoom` and `AllWritten`
    (nothing runs over, nothing is lost, whatever the page), so `FieldsWritten`,
    and `FieldsFound` for the reader of the map of fields.
  - Numbers and durations: `DigitsUnique`, `HumanRead`, `NodeRead` and the
    `...Parsed` lemmas, which compute what both readers make of the words for any
    number of milliseconds.
  - Readers of parts: `InitiatorRead`, `EntryPointRead`, `SchedulingRead`,
    `InvocationRead`; what they do not read back is `PartsUnread`.
  - That different parts are written differently: one `...Differ` lemma for each
    part, for texts by `PiecesDiffer` (pieces none of which begins another), which is
    also what tells arguments apart. `MeansTheSame` joins them: two payloads with the
    same bytes are the same but for versions 0 and none, so no signature can be
    moved from one to the other.

Model-checked only:

* `Settles`, a liveness property, which is beyond the prover.
* `ArgsTravel`: its readers and writers of `CLValues` recur on the structure of a
  type, and the prover does not reason about recursive operators. For the same
  reason nothing is proved of `ArgsToJSON`, `ArgsFromJSON` and `ToBytesWithNamedArg`,
  for which the proofs about transactions have constants.

## Plan

In this order, the most important behaviour first:

1. (done) `CasperNetwork`: the session against nodes that are upgraded.
2. (done) `StateReads` and an abstract `LatestRead`: reads in two requests implement a
   read of the latest state at one moment of the call; the auction fallback.
3. (done) `TransactionBuilder`: fluent state, shared arguments and targets, V1 and
   1.5 builds of one builder.
4. (done) CLValues, keys and arguments, to bytes and back: `ArgsTravel`.
5. (done) Calltables, payloads and durations: `TransactionTravels`.
6. (done) Results and events of both generations: `NodeResults`.
7. (done) Proofs about `NodeResults`: what every reader tells, for every fact.
8. (done) Proofs about `TransactionTravels`: that calltables and fields are read back,
   `ArrivesAsSigned`, `RefusedOnlyForCause`, `DurationsAgree` and `SaysWhatIsSigned`
   for every payload.
9. Contract helpers and `CasperNetwork.create...Transaction`, which drive the
   builders by API version; `StoredValue`.

## Not modelled

* Cryptography, PEM files and the curves (hashing and signing are injective), and
  the spelling of hex, base64 and decimals.
* The HTTP libraries and `http_handler.ts`: their outcomes are environment actions.
* `StoredValue`, the responses that are JSON declarations without behaviour
  (status, peers, chainspec, entities), the events `Step`, `Fault` and
  `ApiVersion`, and the 2.x forms of writes that nest a transfer, withdrawal,
  unbonding or deploy info, of which the repository has no fixture.
* Contract helpers: each drives a builder once, chosen by the API version.
* The timestamp that a builder takes when it is made; `Conversions.ts`.
* Documentation, scripts and end-to-end tests, which were read as statements of
  what the code should do.
