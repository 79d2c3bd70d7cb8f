------------------------------ MODULE StateReads ------------------------------
(***************************************************************************)
(* The reads of RpcClient (src/src/rpc/rpc_client.ts) while the chain      *)
(* grows and the node is upgraded.  A read names a block by hash or        *)
(* height, a state by its root hash, or nothing, which means the latest.   *)
(* getStateItem, the dictionary reads and getLatestBalance find the latest *)
(* state with a request of its own; the auction reads ask for the format   *)
(* of API 2 and fall back to that of API 1.                                *)
(***************************************************************************)
EXTENDS Integers, Sequences

CONSTANTS
  Values,      (* what the part of the state that is read can hold           *)
  Callers,     (* concurrent callers                                         *)
  MaxBlocks    (* bound: how many blocks the chain gets                      *)

ASSUME ReadsAssumption == MaxBlocks \in Nat \ {0} /\ Values \subseteq Nat \ {0}

VARIABLES
  chain,    (* the state after each block; the block at height 0 is chain[1] *)
  nodeApi,  (* the node's API: 1 or 2                                        *)
  call      (* the read of each caller                                       *)

vars == <<chain, nodeApi, call>>

None == 0

Heights == 0 .. Len(chain) - 1
State(height) == chain[height + 1]
Latest == chain[Len(chain)]

(* Hashes do not collide: a block's hash is as good as its height, the root *)
(* hash of a state as good as the state.                                    *)
BlockHash(height) == <<"block", height>>
Root(value)       == <<"root", value>>
NoHash            == <<"none", 0>>
NoHeight          == -1

(* What the caller asks for: the read's argument, by what it names. *)
LatestOne == [by |-> "latest", block |-> 0, state |-> None]
AtHash(height)   == [by |-> "hash", block |-> height, state |-> None]
AtHeight(height) == [by |-> "height", block |-> height, state |-> None]
AtRoot(value)    == [by |-> "root", block |-> 0, state |-> value]

(* A height may be that of the block that comes next. *)
Blocks == {LatestOne} \union {AtHash(h) : h \in Heights}
                      \union {AtHeight(h) : h \in 0 .. Len(chain)}
Roots  == {AtRoot(State(h)) : h \in Heights}

(* The identifiers that go over the wire, one constructor for each, with    *)
(* its own order of arguments.                                              *)
Ident(hash, height, root) == [hash |-> hash, height |-> height, root |-> root]

BlockIdentifier(hash, height)             == Ident(hash, height, NoHash)
GlobalStateIdentifier(hash, height, root) == Ident(hash, height, root)
ParamQueryGlobalStateID(root, hash, height) == Ident(hash, height, root)
NoIdent == Ident(NoHash, NoHeight, NoHash)

Methods == {"chain", "query_balance", "query_global_state",
            "chain_get_state_root_hash", "state_get_item",
            "state_get_auction_info_v2", "state_get_auction_info"}
Answers == {"none", "ok", "method not found", "not known", "transport error"}

Idle == [want |-> LatestOne, method |-> "chain", ident |-> NoIdent,
         answer |-> "none", value |-> None, outcome |-> "idle"]

Init ==
  /\ chain \in {<<v>> : v \in Values}
  /\ nodeApi \in {1, 2}
  /\ call = [c \in Callers |-> Idle]
-----------------------------------------------------------------------------
(* The node. *)

Grow(v) ==
  /\ Len(chain) < MaxBlocks
  /\ chain' = Append(chain, v)
  /\ UNCHANGED <<nodeApi, call>>

Upgrade ==
  /\ nodeApi = 1
  /\ nodeApi' = 2
  /\ UNCHANGED <<chain, call>>

(* The states that an identifier stands for: one, or none. *)
Named(ident) ==
  IF ident = NoIdent THEN {Latest}
  ELSE {State(h) : h \in {g \in Heights : \/ ident.hash = BlockHash(g)
                                          \/ ident.height = g
                                          \/ ident.root = Root(State(g))}}

NodeServes(c) ==
  /\ call[c].outcome = "pending" /\ call[c].answer = "none"
  /\ \/ /\ call[c].method = "state_get_auction_info_v2" /\ nodeApi = 1
        /\ call' = [call EXCEPT ![c].answer = "method not found"]
     \/ /\ call[c].method # "state_get_auction_info_v2" \/ nodeApi = 2
        /\ \/ \E v \in Named(call[c].ident) :
                call' = [call EXCEPT ![c].answer = "ok", ![c].value = v]
           \/ /\ Named(call[c].ident) = {}
              /\ call' = [call EXCEPT ![c].answer = "not known"]
  /\ UNCHANGED <<chain, nodeApi>>

(* The request, or the answer to a request that was served, is lost. *)
TransportFails(c) ==
  /\ call[c].outcome = "pending"
  /\ call' = [call EXCEPT ![c].answer = "transport error", ![c].value = None]
  /\ UNCHANGED <<chain, nodeApi>>
-----------------------------------------------------------------------------
(* The reads, up to their first await. *)

Begin(c, want, method, ident) ==
  /\ call[c].outcome # "pending"
  /\ call' = [call EXCEPT ![c] =
                [want |-> want, method |-> method, ident |-> ident,
                 answer |-> "none", value |-> None, outcome |-> "pending"]]
  /\ UNCHANGED <<chain, nodeApi>>

(* Mutant: a height of 0 taken for no height. *)
ForBlock_Truthy(want) ==
  IF want.by = "hash" THEN BlockIdentifier(BlockHash(want.block), NoHeight)
  ELSE IF want.by = "height" /\ want.block # 0
    THEN BlockIdentifier(NoHash, want.block)
  ELSE NoIdent

(* get...ByHash, get...ByHeight, getLatest... *)
ForBlock(want) ==
  IF want.by = "hash" THEN BlockIdentifier(BlockHash(want.block), NoHeight)
  ELSE IF want.by = "height" THEN BlockIdentifier(NoHash, want.block)
  ELSE NoIdent

GetFromChain(c, want) ==
  /\ want \in Blocks
  /\ Begin(c, want, "chain", ForBlock(want))

QueryBalance(c, want) ==
  Begin(c, want, "query_balance",
        IF want.by = "root"
          THEN GlobalStateIdentifier(NoHash, NoHeight, Root(want.state))
        ELSE IF want.by = "hash"
          THEN GlobalStateIdentifier(BlockHash(want.block), NoHeight, NoHash)
        ELSE IF want.by = "height"
          THEN GlobalStateIdentifier(NoHash, want.block, NoHash)
        ELSE NoIdent)

QueryGlobalState(c, want) ==
  Begin(c, want, "query_global_state",
        IF want.by = "root"
          THEN ParamQueryGlobalStateID(Root(want.state), NoHash, NoHeight)
        ELSE IF want.by = "hash"
          THEN ParamQueryGlobalStateID(NoHash, BlockHash(want.block), NoHeight)
        ELSE IF want.by = "height"
          THEN ParamQueryGlobalStateID(NoHash, NoHash, want.block)
        ELSE NoIdent)

(* getStateItem and the dictionary reads, with a root hash or null, and     *)
(* getLatestBalance and getBalanceByStateRootHash.                          *)
GetStateItem(c, want) ==
  \/ /\ want.by = "latest"
     /\ Begin(c, want, "chain_get_state_root_hash", NoIdent)
  \/ /\ want.by = "root"
     /\ Begin(c, want, "state_get_item", Ident(NoHash, NoHeight, Root(want.state)))

GetAuctionInfo(c, want) ==
  /\ want \in Blocks
  /\ Begin(c, want, "state_get_auction_info_v2", ForBlock(want))
-----------------------------------------------------------------------------
(* The code between two requests, and after the last one. *)

(* Mutant: the second request asks for the latest state, whichever it is. *)
ReadAtRoot_Latest(c) ==
  /\ call[c].outcome = "pending" /\ call[c].answer = "ok"
  /\ call[c].method = "chain_get_state_root_hash"
  /\ call' = [call EXCEPT ![c].method = "state_get_item", ![c].answer = "none"]
  /\ UNCHANGED <<chain, nodeApi>>

ReadAtRoot(c) ==
  /\ call[c].outcome = "pending" /\ call[c].answer = "ok"
  /\ call[c].method = "chain_get_state_root_hash"
  /\ call' = [call EXCEPT ![c].method = "state_get_item", ![c].answer = "none",
                          ![c].ident = Ident(NoHash, NoHeight, Root(call[c].value))]
  /\ UNCHANGED <<chain, nodeApi>>

(* Mutant: an answer of the transport taken for the node's. *)
AuctionFallsBack_Unserved(c) ==
  call[c].method = "state_get_auction_info_v2" /\ call[c].answer = "transport error"

(* Only an error that says "Method not found" selects the old method. *)
AuctionFallsBack(c) ==
  call[c].method = "state_get_auction_info_v2" /\ call[c].answer = "method not found"

GetAuctionInfoV1(c) ==
  /\ call[c].outcome = "pending" /\ AuctionFallsBack(c)
  /\ call' = [call EXCEPT ![c].method = "state_get_auction_info", ![c].answer = "none"]
  /\ UNCHANGED <<chain, nodeApi>>

CallEnds(c) ==
  /\ call[c].outcome = "pending" /\ call[c].answer # "none"
  /\ ~AuctionFallsBack(c)
  /\ ~(call[c].method = "chain_get_state_root_hash" /\ call[c].answer = "ok")
  /\ call' = [call EXCEPT ![c].outcome =
                IF call[c].answer = "ok" THEN "resolved" ELSE "rejected"]
  /\ UNCHANGED <<chain, nodeApi>>
-----------------------------------------------------------------------------
Reads(c) == \E want \in Blocks \union Roots :
              \/ GetFromChain(c, want)
              \/ QueryBalance(c, want)
              \/ QueryGlobalState(c, want)
              \/ GetStateItem(c, want)
              \/ GetAuctionInfo(c, want)

Node == Upgrade \/ \E v \in Values : Grow(v)

Steps(c) == \/ NodeServes(c)
            \/ TransportFails(c)
            \/ ReadAtRoot(c)
            \/ GetAuctionInfoV1(c)
            \/ CallEnds(c)

Next == Node \/ \E c \in Callers : Reads(c) \/ Steps(c)

Spec == Init /\ [][Next]_vars
-----------------------------------------------------------------------------
(* Properties *)

Hashes == {NoHash} \union {BlockHash(h) : h \in 0 .. MaxBlocks}
                   \union {Root(v) : v \in Values \union {None}}

Wants == [by : {"latest", "hash", "height", "root"},
          block : 0 .. MaxBlocks, state : Values \union {None}]

Call == [want : Wants, method : Methods, answer : Answers,
         ident : [hash : Hashes, height : {NoHeight} \union 0 .. MaxBlocks, root : Hashes],
         value : Values \union {None},
         outcome : {"idle", "pending", "resolved", "rejected"}]

(* The variables keep their types. *)
TypeOK ==
  /\ chain \in Seq(Values) /\ Len(chain) \in 1 .. MaxBlocks
  /\ nodeApi \in {1, 2}
  /\ call \in [Callers -> Call]

(* A read that names a block or a state returns that one's, and never what *)
(* is the latest by then: the identifier survives the constructors, the    *)
(* fallback and the second request.                                        *)
ReadsWhatIsNamed ==
  \A c \in Callers : call[c].outcome = "resolved" =>
    LET want == call[c].want
    IN  /\ want.by = "root" => call[c].value = want.state
        /\ want.by \in {"hash", "height"} =>
             want.block \in Heights /\ call[c].value = State(want.block)

(* No auction read ends because the node lacks a method, on either API and *)
(* across the upgrade.                                                     *)
AuctionServed ==
  \A c \in Callers : call[c].outcome = "rejected" =>
    call[c].answer # "method not found"

(* Where a read of the latest state is in its abstract life. It has seen   *)
(* the state when the node has served its first request.                   *)
Phase(c) ==
  LET r == call[c]
  IN  IF r.want.by # "latest" \/ r.outcome = "idle" THEN "idle"
      ELSE IF r.outcome = "resolved" THEN "done"
      ELSE IF r.outcome = "rejected" \/ r.answer = "transport error" THEN "failed"
      ELSE IF r.method = "state_get_item" \/ r.answer = "ok" THEN "looked"
      ELSE "asked"

Read == INSTANCE LatestRead WITH
  Nothing <- None,
  current <- Latest,
  phase   <- [c \in Callers |-> Phase(c)],
  got     <- [c \in Callers |->
                IF Phase(c) \in {"looked", "done"} THEN call[c].value ELSE None]

(* Reads in two requests, reads with a fallback and reads in one request   *)
(* all are reads of the latest state at one moment of the call.            *)
ImplementsLatestRead == Read!Spec
=============================================================================
