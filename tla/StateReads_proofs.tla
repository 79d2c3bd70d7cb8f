--------------------------- MODULE StateReads_proofs ---------------------------
(***************************************************************************)
(* Proofs about StateReads.  The invariant follows a read's identifier     *)
(* from its constructor to the request that the node answers last; the     *)
(* refinement takes the moment at which the node serves the first request  *)
(* that is served as the moment of the read.                               *)
(***************************************************************************)
EXTENDS StateReads, TLAPS

RootIdent(value) == Ident(NoHash, NoHeight, Root(value))

(* The identifier that a read has to send for what it names. *)
IdentOf(want) ==
  IF want.by = "root" THEN RootIdent(want.state)
  ELSE IF want.by = "hash" THEN Ident(BlockHash(want.block), NoHeight, NoHash)
  ELSE IF want.by = "height" THEN Ident(NoHash, want.block, NoHash)
  ELSE NoIdent

(* What a read that names something has to return. *)
IsNamed(want, value) ==
  /\ want.by = "root" => value = want.state
  /\ want.by \in {"hash", "height"} =>
       want.block \in Heights /\ value = State(want.block)

IdentInv ==
  \A c \in Callers : LET r == call[c] IN
    /\ r.want.by # "latest" =>
         r.ident = IdentOf(r.want) /\ r.method # "chain_get_state_root_hash"
    /\ r.want.by = "latest" =>
         \/ r.method # "state_get_item" /\ r.ident = NoIdent
         \/ r.method = "state_get_item"
            /\ (r.ident = RootIdent(r.value) \/ r.answer = "transport error")

AnswerInv ==
  \A c \in Callers : LET r == call[c] IN
    /\ r.answer = "ok" => IsNamed(r.want, r.value)
    /\ r.answer = "method not found" => r.method = "state_get_auction_info_v2"
    /\ r.outcome = "resolved" => r.answer = "ok"
    /\ r.outcome = "rejected" => r.answer # "method not found"

IInv == TypeOK /\ IdentInv /\ AnswerInv
-----------------------------------------------------------------------------
(* The states of the chain are values, at heights within the bound. *)
LEMMA ChainFacts ==
  ASSUME TypeOK
  PROVE  /\ Len(chain) \in 1 .. MaxBlocks /\ Heights \subseteq 0 .. MaxBlocks
         /\ Latest \in Values
         /\ \A h \in Heights : h \in Nat /\ State(h) \in Values
BY ReadsAssumption DEF TypeOK, Heights, State, Latest

(* The chain only grows: what was at a height stays there. *)
LEMMA GrowKeeps ==
  ASSUME TypeOK, NEW v \in Values, Grow(v)
  PROVE  /\ chain' \in Seq(Values) /\ Len(chain') \in 1 .. MaxBlocks
         /\ Heights \subseteq Heights'
         /\ \A h \in Heights : State(h)' = State(h)
         /\ Latest' \in Values
BY ReadsAssumption DEF TypeOK, Grow, Heights, State, Latest

(* Identifiers stand for what they name, by the kind of hash they hold. *)
LEMMA NamedByRoot ==
  ASSUME TypeOK, NEW x, NEW v \in Named(RootIdent(x))
  PROVE  v = x
<1>1. RootIdent(x) # NoIdent
  BY DEF RootIdent, Ident, NoIdent, Root, NoHash
<1>2. PICK h \in Heights : /\ v = State(h)
                           /\ \/ NoHash = BlockHash(h)
                              \/ NoHeight = h
                              \/ Root(x) = Root(State(h))
  BY <1>1 DEF Named, RootIdent, Ident
<1>3. NoHash # BlockHash(h) /\ NoHeight # h
  BY ChainFacts DEF NoHash, BlockHash, NoHeight
<1> QED BY <1>2, <1>3 DEF Root

LEMMA NamedIs ==
  ASSUME TypeOK, NEW want \in Wants, NEW v \in Named(IdentOf(want))
  PROVE  IsNamed(want, v)
<1>1. CASE want.by = "root"
  BY <1>1, NamedByRoot DEF IdentOf, IsNamed
<1>2. CASE want.by = "hash"
  <2>1. IdentOf(want) = Ident(BlockHash(want.block), NoHeight, NoHash)
    BY <1>2 DEF IdentOf
  <2>2. IdentOf(want) # NoIdent
    BY <2>1 DEF Ident, NoIdent, BlockHash, NoHash
  <2>3. PICK h \in Heights : /\ v = State(h)
                             /\ \/ BlockHash(want.block) = BlockHash(h)
                                \/ NoHeight = h
                                \/ NoHash = Root(State(h))
    BY <2>1, <2>2 DEF Named, Ident
  <2>4. NoHash # Root(State(h)) /\ NoHeight # h
    BY ChainFacts DEF NoHash, Root, NoHeight
  <2>5. want.block = h
    BY <2>3, <2>4 DEF BlockHash
  <2> QED BY <1>2, <2>3, <2>5 DEF IsNamed
<1>3. CASE want.by = "height"
  <2>1. IdentOf(want) = Ident(NoHash, want.block, NoHash)
    BY <1>3 DEF IdentOf
  <2>2. want.block \in Nat
    BY ReadsAssumption DEF Wants
  <2>3. IdentOf(want) # NoIdent
    BY <2>1, <2>2 DEF Ident, NoIdent, NoHeight
  <2>4. PICK h \in Heights : /\ v = State(h)
                             /\ \/ NoHash = BlockHash(h)
                                \/ want.block = h
                                \/ NoHash = Root(State(h))
    BY <2>1, <2>3 DEF Named, Ident
  <2>5. NoHash # Root(State(h)) /\ NoHash # BlockHash(h)
    BY DEF NoHash, Root, BlockHash
  <2> QED BY <1>3, <2>4, <2>5 DEF IsNamed
<1>4. CASE want.by = "latest"
  BY <1>4 DEF IsNamed
<1> QED BY <1>1, <1>2, <1>3, <1>4 DEF Wants

LEMMA NamedValues ==
  ASSUME TypeOK, NEW ident
  PROVE  Named(ident) \subseteq Values
BY ChainFacts DEF Named

(* Every constructor puts its argument where the node looks for it.        *)
LEMMA ReadsBegin ==
  ASSUME TypeOK, NEW c \in Callers, Reads(c)
  PROVE  \E want \in Blocks \union Roots, method \in Methods :
           /\ Begin(c, want, method, IdentOf(want))
           /\ method = "chain_get_state_root_hash" => want.by = "latest"
           /\ method = "state_get_item" => want.by = "root"
<1>1. PICK want \in Blocks \union Roots :
        \/ GetFromChain(c, want) \/ QueryBalance(c, want) \/ QueryGlobalState(c, want)
        \/ GetStateItem(c, want) \/ GetAuctionInfo(c, want)
  BY DEF Reads
<1>2. want.by \in {"latest", "hash", "height", "root"}
  BY DEF Blocks, Roots, LatestOne, AtHash, AtHeight, AtRoot
<1>3. want \in Blocks => want.by # "root"
  BY DEF Blocks, LatestOne, AtHash, AtHeight
<1>a. want \in Blocks => ForBlock(want) = IdentOf(want)
  BY <1>3 DEF ForBlock, IdentOf, BlockIdentifier, Ident
<1>4. CASE GetFromChain(c, want)
  <2>1. Begin(c, want, "chain", IdentOf(want))
    BY <1>4, <1>a DEF GetFromChain
  <2> QED BY <2>1 DEF Methods
<1>5. CASE QueryBalance(c, want)
  <2>1. Begin(c, want, "query_balance", IdentOf(want))
    BY <1>5 DEF QueryBalance, IdentOf, RootIdent, GlobalStateIdentifier
  <2> QED BY <2>1 DEF Methods
<1>6. CASE QueryGlobalState(c, want)
  <2>1. Begin(c, want, "query_global_state", IdentOf(want))
    BY <1>6 DEF QueryGlobalState, IdentOf, RootIdent, ParamQueryGlobalStateID
  <2> QED BY <2>1 DEF Methods
<1>7. CASE GetStateItem(c, want)
  <2>1. CASE want.by = "latest" /\ Begin(c, want, "chain_get_state_root_hash", NoIdent)
    <3>1. IdentOf(want) = NoIdent
      BY <2>1 DEF IdentOf
    <3> QED BY <2>1, <3>1 DEF Methods
  <2>2. CASE want.by = "root"
             /\ Begin(c, want, "state_get_item", Ident(NoHash, NoHeight, Root(want.state)))
    <3>1. IdentOf(want) = Ident(NoHash, NoHeight, Root(want.state))
      BY <2>2 DEF IdentOf, RootIdent
    <3> QED BY <2>2, <3>1 DEF Methods
  <2> QED BY <1>7, <2>1, <2>2 DEF GetStateItem
<1>8. CASE GetAuctionInfo(c, want)
  <2>1. Begin(c, want, "state_get_auction_info_v2", IdentOf(want))
    BY <1>8, <1>a DEF GetAuctionInfo
  <2> QED BY <2>1 DEF Methods
<1> QED BY <1>1, <1>4, <1>5, <1>6, <1>7, <1>8
-----------------------------------------------------------------------------
(* The requests that begin are well formed. *)
LEMMA WantType ==
  ASSUME TypeOK, NEW want \in Blocks \union Roots
  PROVE  /\ want \in Wants
         /\ IdentOf(want) \in [hash : Hashes, height : {NoHeight} \union 0 .. MaxBlocks,
                              root : Hashes]
<1>1. want \in Wants
  <2>1. CASE want = LatestOne
    BY <2>1, ReadsAssumption DEF LatestOne, Wants
  <2>2. ASSUME NEW h \in 0 .. Len(chain), want = AtHash(h) \/ want = AtHeight(h)
        PROVE  want \in Wants
    <3>1. h \in 0 .. MaxBlocks
      BY <2>2, ChainFacts, ReadsAssumption
    <3> QED BY <2>2, <3>1 DEF AtHash, AtHeight, Wants
  <2>3. ASSUME NEW h \in Heights, want = AtRoot(State(h)) PROVE want \in Wants
    BY <2>3, ChainFacts, ReadsAssumption DEF AtRoot, Wants
  <2>4. Heights \subseteq 0 .. Len(chain)
    BY ChainFacts DEF Heights
  <2> QED BY <2>1, <2>2, <2>3, <2>4 DEF Blocks, Roots
<1>2. want.block \in 0 .. MaxBlocks /\ want.state \in Values \union {None}
  BY <1>1 DEF Wants
<1>3. IdentOf(want) \in [hash : Hashes, height : {NoHeight} \union 0 .. MaxBlocks,
                        root : Hashes]
  BY <1>2 DEF IdentOf, RootIdent, Ident, NoIdent, Hashes
<1> QED BY <1>1, <1>3

(* Every step keeps the types. *)
LEMMA NextType ==
  ASSUME TypeOK, [Next]_vars
  PROVE  TypeOK'
<1>1. CASE Upgrade
  BY <1>1 DEF Upgrade, TypeOK
<1>2. ASSUME NEW v \in Values, Grow(v) PROVE TypeOK'
  BY <1>2, GrowKeeps DEF Grow, TypeOK
<1>3. ASSUME NEW c \in Callers, Reads(c) PROVE TypeOK'
  <2>1. PICK want \in Blocks \union Roots, method \in Methods :
          Begin(c, want, method, IdentOf(want))
    BY <1>3, ReadsBegin
  <2> DEFINE r == [want |-> want, method |-> method, ident |-> IdentOf(want),
                   answer |-> "none", value |-> None, outcome |-> "pending"]
  <2>2. r \in Call
    BY WantType DEF Call, Answers
  <2>3. call' = [call EXCEPT ![c] = r] /\ UNCHANGED <<chain, nodeApi>>
    BY <2>1 DEF Begin
  <2> HIDE DEF r
  <2> QED BY <2>2, <2>3 DEF TypeOK
<1>4. ASSUME NEW c \in Callers, Steps(c) PROVE TypeOK'
  <2>a. call[c] \in Call
    BY DEF TypeOK
  <2>b. UNCHANGED <<chain, nodeApi>>
    BY <1>4 DEF Steps, NodeServes, TransportFails, ReadAtRoot, GetAuctionInfoV1, CallEnds
  <2>c. ASSUME call' \in [Callers -> Call] PROVE TypeOK'
    BY <2>b, <2>c DEF TypeOK
  <2>1. CASE NodeServes(c)
    <3>1. PICK a \in Answers, v \in Values \union {None} :
            call' = [call EXCEPT ![c] = [call[c] EXCEPT !.answer = a, !.value = v]]
      <4>1. CASE \E a \in Answers : call' = [call EXCEPT ![c].answer = a]
        <5>1. PICK a \in Answers : call' = [call EXCEPT ![c].answer = a]
          BY <4>1
        <5>2. call[c].value \in Values \union {None}
          BY <2>a DEF Call
        <5>3. call' = [call EXCEPT ![c] = [call[c] EXCEPT !.answer = a, !.value = call[c].value]]
          BY <2>a, <5>1 DEF TypeOK, Call
        <5> QED BY <5>2, <5>3
      <4>2. CASE \E v \in Named(call[c].ident) :
                    call' = [call EXCEPT ![c].answer = "ok", ![c].value = v]
        <5>1. PICK v \in Named(call[c].ident) :
                call' = [call EXCEPT ![c].answer = "ok", ![c].value = v]
          BY <4>2
        <5>2. v \in Values /\ "ok" \in Answers
          BY <5>1, NamedValues DEF Answers
        <5>3. call' = [call EXCEPT ![c] = [call[c] EXCEPT !.answer = "ok", !.value = v]]
          BY <5>1 DEF TypeOK
        <5> QED BY <5>2, <5>3
      <4> QED BY <2>1, <4>1, <4>2 DEF NodeServes, Answers
    <3>2. [call[c] EXCEPT !.answer = a, !.value = v] \in Call
      BY <2>a, <3>1 DEF Call
    <3> QED BY <2>c, <3>1, <3>2 DEF TypeOK
  <2>2. CASE TransportFails(c)
    <3>1. call' = [call EXCEPT ![c] = [call[c] EXCEPT !.answer = "transport error",
                                                      !.value = None]]
      BY <2>2 DEF TransportFails, TypeOK
    <3>2. [call[c] EXCEPT !.answer = "transport error", !.value = None] \in Call
      BY <2>a DEF Call, Answers
    <3> QED BY <2>c, <3>1, <3>2 DEF TypeOK
  <2>3. CASE ReadAtRoot(c)
    <3> DEFINE r == [call[c] EXCEPT !.method = "state_get_item", !.answer = "none",
                                    !.ident = RootIdent(call[c].value)]
    <3>1. call' = [call EXCEPT ![c] = r]
      BY <2>3 DEF ReadAtRoot, TypeOK, RootIdent
    <3>2. RootIdent(call[c].value) \in
            [hash : Hashes, height : {NoHeight} \union 0 .. MaxBlocks, root : Hashes]
      BY <2>a DEF RootIdent, Ident, Hashes, Call
    <3>3. r \in Call
      BY <2>a, <3>2 DEF Call, Answers, Methods
    <3> HIDE DEF r
    <3> QED BY <2>c, <3>1, <3>3 DEF TypeOK
  <2>4. CASE GetAuctionInfoV1(c)
    <3>1. call' = [call EXCEPT ![c] = [call[c] EXCEPT !.method = "state_get_auction_info",
                                                      !.answer = "none"]]
      BY <2>4 DEF GetAuctionInfoV1, TypeOK
    <3>2. [call[c] EXCEPT !.method = "state_get_auction_info", !.answer = "none"] \in Call
      BY <2>a DEF Call, Answers, Methods
    <3> QED BY <2>c, <3>1, <3>2 DEF TypeOK
  <2>5. CASE CallEnds(c)
    BY <2>5, <2>c DEF CallEnds, TypeOK, Call
  <2> QED BY <1>4, <2>1, <2>2, <2>3, <2>4, <2>5 DEF Steps
<1>5. CASE UNCHANGED vars
  BY <1>5 DEF vars, TypeOK
<1> QED BY <1>1, <1>2, <1>3, <1>4, <1>5 DEF Next, Node

(* What each step does to the caller that takes it. *)
LEMMA StepCall ==
  ASSUME TypeOK, NEW c \in Callers, Steps(c)
  PROVE  /\ UNCHANGED <<chain, nodeApi>>
         /\ \A d \in Callers \ {c} : call'[d] = call[d]
         /\ call[c].outcome = "pending" /\ call'[c].want = call[c].want
<1>a. call[c] \in Call
  BY DEF TypeOK
<1>1. CASE NodeServes(c)
  <2>1. CASE \E a \in Answers : call' = [call EXCEPT ![c].answer = a]
    <3>1. PICK a \in Answers : call' = [call EXCEPT ![c].answer = a]
      BY <2>1
    <3>2. call'[c].want = call[c].want
      BY <1>a, <3>1 DEF TypeOK, Call
    <3>3. \A d \in Callers \ {c} : call'[d] = call[d]
      BY <3>1 DEF TypeOK
    <3> QED BY <1>1, <3>2, <3>3 DEF NodeServes
  <2>2. CASE \E v : call' = [call EXCEPT ![c].answer = "ok", ![c].value = v]
    <3>1. PICK v : call' = [call EXCEPT ![c].answer = "ok", ![c].value = v]
      BY <2>2
    <3>2. call'[c].want = call[c].want
      BY <1>a, <3>1 DEF TypeOK, Call
    <3>3. \A d \in Callers \ {c} : call'[d] = call[d]
      BY <3>1 DEF TypeOK
    <3> QED BY <1>1, <3>2, <3>3 DEF NodeServes
  <2> QED BY <1>1, <2>1, <2>2 DEF NodeServes, Answers
<1>2. CASE TransportFails(c)
  BY <1>a, <1>2 DEF TransportFails, TypeOK, Call
<1>3. CASE ReadAtRoot(c)
  BY <1>a, <1>3 DEF ReadAtRoot, TypeOK, Call
<1>4. CASE GetAuctionInfoV1(c)
  BY <1>a, <1>4 DEF GetAuctionInfoV1, TypeOK, Call
<1>5. CASE CallEnds(c)
  BY <1>a, <1>5 DEF CallEnds, TypeOK, Call
<1> QED BY <1>1, <1>2, <1>3, <1>4, <1>5 DEF Steps

LEMMA ServedCall ==
  ASSUME TypeOK, NEW c \in Callers, NodeServes(c)
  PROVE  /\ call[c].answer = "none" /\ call'[c].outcome = "pending"
         /\ call'[c].method = call[c].method /\ call'[c].ident = call[c].ident
         /\ \/ call'[c].answer = "method not found" /\ call'[c].value = call[c].value
               /\ call[c].method = "state_get_auction_info_v2"
            \/ call'[c].answer = "ok" /\ call'[c].value \in Named(call[c].ident)
            \/ call'[c].answer = "not known" /\ call'[c].value = call[c].value
<1>a. call[c] \in Call
  BY DEF TypeOK
<1>1. CASE call' = [call EXCEPT ![c].answer = "method not found"]
           /\ call[c].method = "state_get_auction_info_v2"
  BY <1>a, <1>1 DEF NodeServes, TypeOK, Call
<1>2. CASE \E v \in Named(call[c].ident) :
             call' = [call EXCEPT ![c].answer = "ok", ![c].value = v]
  <2>1. PICK v \in Named(call[c].ident) :
          call' = [call EXCEPT ![c].answer = "ok", ![c].value = v]
    BY <1>2
  <2>2. call'[c] = [call[c] EXCEPT !.answer = "ok", !.value = v]
    BY <2>1 DEF TypeOK
  <2>3. /\ call'[c].answer = "ok" /\ call'[c].value = v
        /\ call'[c].outcome = call[c].outcome
        /\ call'[c].method = call[c].method /\ call'[c].ident = call[c].ident
    BY <1>a, <2>2 DEF Call
  <2> QED BY <2>1, <2>3 DEF NodeServes
<1>3. CASE call' = [call EXCEPT ![c].answer = "not known"]
  BY <1>a, <1>3 DEF NodeServes, TypeOK, Call
<1> QED BY <1>1, <1>2, <1>3 DEF NodeServes

LEMMA NextInv ==
  ASSUME IInv, [Next]_vars
  PROVE  IInv'
<1> DEFINE IdentOk(d) ==
      /\ call[d].want.by # "latest" =>
           call[d].ident = IdentOf(call[d].want)
           /\ call[d].method # "chain_get_state_root_hash"
      /\ call[d].want.by = "latest" =>
           \/ call[d].method # "state_get_item" /\ call[d].ident = NoIdent
           \/ call[d].method = "state_get_item"
              /\ (call[d].ident = RootIdent(call[d].value)
                  \/ call[d].answer = "transport error")
<1> DEFINE AnswerOk(d) ==
      /\ call[d].answer = "ok" => IsNamed(call[d].want, call[d].value)
      /\ call[d].answer = "method not found" =>
           call[d].method = "state_get_auction_info_v2"
      /\ call[d].outcome = "resolved" => call[d].answer = "ok"
      /\ call[d].outcome = "rejected" => call[d].answer # "method not found"
<1>a. TypeOK /\ \A d \in Callers : IdentOk(d) /\ AnswerOk(d)
  BY DEF IInv, IdentInv, AnswerInv
<1>b. TypeOK'
  BY <1>a, NextType
<1>c. ASSUME \A d \in Callers : IdentOk(d)' /\ AnswerOk(d)' PROVE IInv'
  BY <1>b, <1>c DEF IInv, IdentInv, AnswerInv
<1> HIDE DEF IdentOk, AnswerOk
<1>d. ASSUME UNCHANGED call, \A w, v : IsNamed(w, v) => IsNamed(w, v)' PROVE IInv'
  BY <1>a, <1>c, <1>d DEF IdentOk, AnswerOk
<1>e. ASSUME UNCHANGED chain, NEW d \in Callers, call'[d] = call[d]
      PROVE  IdentOk(d)' /\ AnswerOk(d)'
  BY <1>a, <1>e DEF IdentOk, AnswerOk, IsNamed, Heights, State
<1>1. CASE Upgrade
  BY <1>1, <1>d DEF Upgrade, IsNamed, Heights, State
<1>2. ASSUME NEW v \in Values, Grow(v) PROVE IInv'
  <2>1. \A w, x : IsNamed(w, x) => IsNamed(w, x)'
    BY <1>a, <1>2, GrowKeeps DEF IsNamed
  <2> QED BY <1>2, <1>d, <2>1 DEF Grow
<1>3. ASSUME NEW c \in Callers, Reads(c) PROVE IInv'
  <2>1. PICK want \in Blocks \union Roots, method \in Methods :
          /\ Begin(c, want, method, IdentOf(want))
          /\ method = "chain_get_state_root_hash" => want.by = "latest"
          /\ method = "state_get_item" => want.by = "root"
    BY <1>3, <1>a, ReadsBegin
  <2>2. /\ UNCHANGED chain /\ \A d \in Callers \ {c} : call'[d] = call[d]
        /\ call'[c].want = want /\ call'[c].method = method
        /\ call'[c].ident = IdentOf(want) /\ call'[c].answer = "none"
        /\ call'[c].outcome = "pending"
    BY <1>a, <2>1 DEF Begin, TypeOK
  <2>3. want.by = "latest" => IdentOf(want) = NoIdent
    BY DEF IdentOf
  <2>4. IdentOk(c)'
    BY <2>1, <2>2, <2>3 DEF IdentOk
  <2>5. AnswerOk(c)'
    BY <2>2 DEF AnswerOk
  <2> QED BY <1>c, <1>e, <2>2, <2>4, <2>5
<1>4. ASSUME NEW c \in Callers, Steps(c) PROVE IInv'
  <2>a. /\ UNCHANGED <<chain, nodeApi>>
        /\ \A d \in Callers \ {c} : call'[d] = call[d]
        /\ call[c].outcome = "pending" /\ call'[c].want = call[c].want
    BY <1>4, <1>a, StepCall
  <2>b. call[c] \in Call /\ call[c].want \in Wants
    BY <1>a DEF TypeOK, Call
  <2>c. ASSUME IdentOk(c)', AnswerOk(c)' PROVE IInv'
    BY <1>c, <1>e, <2>a, <2>c
  <2>1. CASE NodeServes(c)
    <3>1. /\ call[c].answer = "none" /\ call'[c].outcome = "pending"
          /\ call'[c].method = call[c].method /\ call'[c].ident = call[c].ident
          /\ \/ call'[c].answer = "method not found" /\ call'[c].value = call[c].value
                /\ call[c].method = "state_get_auction_info_v2"
             \/ call'[c].answer = "ok" /\ call'[c].value \in Named(call[c].ident)
             \/ call'[c].answer = "not known" /\ call'[c].value = call[c].value
      BY <1>a, <2>1, ServedCall
    <3>2. call'[c].answer = "ok" => IsNamed(call[c].want, call'[c].value)
      <4>1. CASE call[c].want.by = "latest"
        BY <4>1 DEF IsNamed
      <4>2. CASE call[c].want.by # "latest" /\ call'[c].answer = "ok"
        BY <1>a, <2>b, <3>1, <4>2, NamedIs DEF IdentOk
      <4> QED BY <4>1, <4>2
    <3>3. AnswerOk(c)'
      BY <2>a, <3>1, <3>2 DEF AnswerOk, IsNamed, Heights, State
    <3>4. call[c].method = "state_get_item" /\ call[c].want.by = "latest" =>
            call'[c].value = call[c].value
      BY <1>a, <3>1, NamedByRoot DEF IdentOk
    <3>5. IdentOk(c)'
      BY <1>a, <2>a, <3>1, <3>4 DEF IdentOk
    <3> QED BY <2>c, <3>3, <3>5
  <2>2. CASE TransportFails(c)
    <3>1. /\ call'[c].method = call[c].method /\ call'[c].ident = call[c].ident
          /\ call'[c].answer = "transport error" /\ call'[c].outcome = "pending"
      BY <1>a, <2>2, <2>b DEF TransportFails, TypeOK, Call
    <3> QED BY <1>a, <2>a, <2>c, <3>1 DEF IdentOk, AnswerOk
  <2>3. CASE ReadAtRoot(c)
    <3>1. /\ call[c].method = "chain_get_state_root_hash"
          /\ call'[c].method = "state_get_item" /\ call'[c].answer = "none"
          /\ call'[c].ident = RootIdent(call[c].value)
          /\ call'[c].value = call[c].value /\ call'[c].outcome = "pending"
      BY <1>a, <2>3, <2>b DEF ReadAtRoot, RootIdent, TypeOK, Call
    <3> QED BY <1>a, <2>a, <2>c, <3>1 DEF IdentOk, AnswerOk
  <2>4. CASE GetAuctionInfoV1(c)
    <3>1. /\ call[c].method = "state_get_auction_info_v2"
          /\ call'[c].method = "state_get_auction_info" /\ call'[c].answer = "none"
          /\ call'[c].ident = call[c].ident /\ call'[c].outcome = "pending"
      BY <1>a, <2>4, <2>b DEF GetAuctionInfoV1, AuctionFallsBack, TypeOK, Call
    <3> QED BY <1>a, <2>a, <2>c, <3>1 DEF IdentOk, AnswerOk
  <2>5. CASE CallEnds(c)
    <3>1. /\ call'[c].method = call[c].method /\ call'[c].ident = call[c].ident
          /\ call'[c].answer = call[c].answer /\ call'[c].value = call[c].value
          /\ call'[c].outcome = IF call[c].answer = "ok" THEN "resolved" ELSE "rejected"
          /\ ~AuctionFallsBack(c)
      BY <1>a, <2>5, <2>b DEF CallEnds, TypeOK, Call
    <3>2. IdentOk(c)'
      BY <1>a, <2>a, <3>1 DEF IdentOk
    <3>3. AnswerOk(c)'
      BY <1>a, <2>a, <3>1 DEF AnswerOk, AuctionFallsBack, IsNamed, Heights, State
    <3> QED BY <2>c, <3>2, <3>3
  <2> QED BY <1>4, <2>1, <2>2, <2>3, <2>4, <2>5 DEF Steps
<1>5. CASE UNCHANGED vars
  BY <1>5, <1>d DEF vars, IsNamed, Heights, State
<1> QED BY <1>1, <1>2, <1>3, <1>4, <1>5 DEF Next, Node

LEMMA InitInv ==
  ASSUME Init
  PROVE  IInv
<1>1. Idle \in Call
  <2>1. LatestOne \in Wants
    BY ReadsAssumption DEF LatestOne, Wants
  <2>2. NoIdent \in [hash : Hashes, height : {NoHeight} \union 0 .. MaxBlocks, root : Hashes]
    BY DEF NoIdent, Ident, Hashes
  <2> QED BY <2>1, <2>2 DEF Idle, Call, Methods, Answers
<1>2. chain \in Seq(Values) /\ Len(chain) \in 1 .. MaxBlocks
  <2>1. PICK v \in Values : chain = <<v>>
    BY DEF Init
  <2> QED BY <2>1, ReadsAssumption
<1>3. TypeOK
  BY <1>1, <1>2 DEF Init, TypeOK
<1>4. IdentInv /\ AnswerInv
  BY DEF Init, Idle, LatestOne, IdentInv, AnswerInv
<1> QED BY <1>3, <1>4 DEF IInv

LEMMA Invariance == Spec => []IInv
<1>1. Init => IInv
  BY InitInv
<1>2. IInv /\ [Next]_vars => IInv'
  BY NextInv
<1> QED BY <1>1, <1>2, PTL DEF Spec

(* Type correctness: identifiers, methods and answers stay those of the    *)
(* code, for any number of callers and any chain.                          *)
THEOREM TypeCorrect == Spec => []TypeOK
<1>1. IInv => TypeOK
  BY DEF IInv
<1> QED BY <1>1, Invariance, PTL

(* A read by hash, height or state root returns what it names, however the *)
(* chain grows meanwhile.                                                  *)
THEOREM NamedReadsAreExact == Spec => []ReadsWhatIsNamed
<1>1. IInv => ReadsWhatIsNamed
  BY DEF IInv, AnswerInv, IsNamed, ReadsWhatIsNamed
<1> QED BY <1>1, Invariance, PTL

(* The auction reads are served by nodes of both APIs.                     *)
THEOREM AuctionIsServed == Spec => []AuctionServed
<1>1. IInv => AuctionServed
  BY DEF IInv, AnswerInv, AuctionServed
<1> QED BY <1>1, Invariance, PTL
-----------------------------------------------------------------------------
(* The refinement.  What the abstract read has seen: *)
Got(c) == IF Phase(c) \in {"looked", "done"} THEN call[c].value ELSE None

(* The moves of one caller that the abstract specification has. *)
Move(c) ==
  \/ Phase(c)' = Phase(c) /\ Got(c)' = Got(c)
  \/ Phase(c) \in {"idle", "done", "failed"} /\ Phase(c)' = "asked" /\ Got(c)' = None
  \/ Phase(c) = "asked" /\ Phase(c)' = "looked" /\ Got(c)' = Latest
  \/ Phase(c) = "looked" /\ Phase(c)' = "done" /\ Got(c)' = Got(c)
  \/ Phase(c) \in {"asked", "looked"} /\ Phase(c)' = "failed" /\ Got(c)' = None
  \/ Phase(c) \in {"done", "failed"} /\ Phase(c)' = "idle" /\ Got(c)' = None

LEMMA MoveRefines ==
  ASSUME NEW c \in Callers, UNCHANGED chain, Move(c),
         \A d \in Callers \ {c} : call'[d] = call[d]
  PROVE  [Read!Next]_(Read!vars)
<1> DEFINE P == [d \in Callers |-> Phase(d)]
           G == [d \in Callers |-> IF Phase(d) \in {"looked", "done"}
                                   THEN call[d].value ELSE None]
<1>1. \A d \in Callers \ {c} : Phase(d)' = Phase(d) /\ Got(d)' = Got(d)
  BY DEF Phase, Got
<1>2. P' = [P EXCEPT ![c] = Phase(c)'] /\ G' = [G EXCEPT ![c] = Got(c)']
  BY <1>1 DEF Got
<1>3. Latest' = Latest
  BY DEF Latest
<1>4. P[c] = Phase(c) /\ G[c] = Got(c)
  BY DEF Got
<1>5. G = [G EXCEPT ![c] = Got(c)] /\ P = [P EXCEPT ![c] = Phase(c)]
  BY <1>4
<1>6. CASE Phase(c)' = Phase(c) /\ Got(c)' = Got(c)
  <2>1. P' = P /\ G' = G
    BY <1>2, <1>5, <1>6
  <2> QED BY <1>3, <2>1 DEF Read!vars
<1>7. CASE Phase(c) \in {"idle", "done", "failed"} /\ Phase(c)' = "asked" /\ Got(c)' = None
  <2>1. Read!Ask(c)
    BY <1>2, <1>3, <1>4, <1>7 DEF Read!Ask
  <2> QED BY <2>1 DEF Read!Next
<1>8. CASE Phase(c) = "asked" /\ Phase(c)' = "looked" /\ Got(c)' = Latest
  <2>1. Read!Look(c)
    BY <1>2, <1>3, <1>4, <1>8 DEF Read!Look
  <2> QED BY <2>1 DEF Read!Next
<1>9. CASE Phase(c) = "looked" /\ Phase(c)' = "done" /\ Got(c)' = Got(c)
  <2>1. G' = G
    BY <1>2, <1>5, <1>9
  <2>2. Read!Return(c)
    BY <1>2, <1>3, <1>4, <1>9, <2>1 DEF Read!Return
  <2> QED BY <2>2 DEF Read!Next
<1>10. CASE Phase(c) \in {"asked", "looked"} /\ Phase(c)' = "failed" /\ Got(c)' = None
  <2>1. Read!Fail(c)
    BY <1>2, <1>3, <1>4, <1>10 DEF Read!Fail
  <2> QED BY <2>1 DEF Read!Next
<1>11. CASE Phase(c) \in {"done", "failed"} /\ Phase(c)' = "idle" /\ Got(c)' = None
  <2>1. Read!Leave(c)
    BY <1>2, <1>3, <1>4, <1>11 DEF Read!Leave
  <2> QED BY <2>1 DEF Read!Next
<1> QED BY <1>6, <1>7, <1>8, <1>9, <1>10, <1>11 DEF Move

(* Each step of a read is one of the moves. *)
LEMMA StepsMove ==
  ASSUME IInv, NEW c \in Callers, Steps(c)
  PROVE  Move(c)
<1>a. TypeOK /\ call[c] \in Call
  BY DEF IInv, TypeOK
<1>b. call[c].outcome = "pending" /\ call'[c].want = call[c].want
  BY <1>a, StepCall
<1>c. CASE call[c].want.by # "latest"
  BY <1>b, <1>c DEF Move, Phase, Got
<1>d. SUFFICES ASSUME call[c].want.by = "latest" PROVE Move(c)
  BY <1>c
<1>e. \/ call[c].method # "state_get_item" /\ call[c].ident = NoIdent
      \/ call[c].method = "state_get_item"
         /\ (call[c].ident = RootIdent(call[c].value) \/ call[c].answer = "transport error")
  BY <1>d DEF IInv, IdentInv
<1>1. CASE NodeServes(c)
  <2>1. /\ call[c].answer = "none" /\ call'[c].outcome = "pending"
        /\ call'[c].method = call[c].method
        /\ \/ call'[c].answer = "method not found" /\ call'[c].value = call[c].value
              /\ call[c].method = "state_get_auction_info_v2"
           \/ call'[c].answer = "ok" /\ call'[c].value \in Named(call[c].ident)
           \/ call'[c].answer = "not known" /\ call'[c].value = call[c].value
    BY <1>a, <1>1, ServedCall
  <2>2. CASE call[c].method = "state_get_item"
    <3>1. call'[c].value = call[c].value
      BY <1>a, <1>e, <2>1, <2>2, NamedByRoot
    <3>2. Phase(c) = "looked" /\ Phase(c)' = "looked"
      BY <1>b, <1>d, <2>1, <2>2 DEF Phase
    <3> QED BY <3>1, <3>2 DEF Move, Got
  <2>3. CASE call[c].method # "state_get_item"
    <3>1. call'[c].answer = "ok" => call'[c].value = Latest
      BY <1>e, <2>1, <2>3 DEF Named
    <3>2. Phase(c) = "asked"
      BY <1>b, <1>d, <2>1, <2>3 DEF Phase
    <3>3. Phase(c)' = IF call'[c].answer = "ok" THEN "looked" ELSE "asked"
      BY <1>b, <1>d, <2>1, <2>3 DEF Phase
    <3> QED BY <3>1, <3>2, <3>3 DEF Move, Got
  <2> QED BY <2>2, <2>3
<1>2. CASE TransportFails(c)
  <2>1. call'[c].answer = "transport error" /\ call'[c].outcome = "pending"
    BY <1>a, <1>2 DEF TransportFails, TypeOK, Call
  <2>2. Phase(c)' = "failed"
    BY <1>b, <1>d, <2>1 DEF Phase
  <2>3. Phase(c) \in {"asked", "looked", "failed"}
    BY <1>b, <1>d DEF Phase
  <2> QED BY <2>2, <2>3 DEF Move, Got
<1>3. CASE ReadAtRoot(c)
  <2>1. /\ call[c].answer = "ok" /\ call'[c].outcome = "pending"
        /\ call'[c].method = "state_get_item" /\ call'[c].answer = "none"
        /\ call'[c].value = call[c].value
    BY <1>a, <1>3 DEF ReadAtRoot, TypeOK, Call
  <2>2. Phase(c) = "looked" /\ Phase(c)' = "looked"
    BY <1>b, <1>d, <2>1 DEF Phase
  <2> QED BY <2>1, <2>2 DEF Move, Got
<1>4. CASE GetAuctionInfoV1(c)
  <2>1. /\ call[c].method = "state_get_auction_info_v2"
        /\ call[c].answer = "method not found" /\ call'[c].outcome = "pending"
        /\ call'[c].method = "state_get_auction_info" /\ call'[c].answer = "none"
    BY <1>a, <1>4 DEF GetAuctionInfoV1, AuctionFallsBack, TypeOK, Call
  <2>2. Phase(c) = "asked" /\ Phase(c)' = "asked"
    BY <1>b, <1>d, <2>1 DEF Phase
  <2> QED BY <2>2 DEF Move, Got
<1>5. CASE CallEnds(c)
  <2>1. /\ call[c].answer # "none"
        /\ call'[c].outcome = IF call[c].answer = "ok" THEN "resolved" ELSE "rejected"
        /\ call'[c].value = call[c].value
    BY <1>a, <1>5 DEF CallEnds, TypeOK, Call
  <2>2. CASE call[c].answer = "ok"
    <3>1. Phase(c) = "looked" /\ Phase(c)' = "done"
      BY <1>b, <1>d, <2>1, <2>2 DEF Phase
    <3> QED BY <2>1, <3>1 DEF Move, Got
  <2>3. CASE call[c].answer # "ok"
    <3>1. Phase(c) \in {"asked", "looked", "failed"} /\ Phase(c)' = "failed"
      BY <1>b, <1>d, <2>1, <2>3 DEF Phase
    <3> QED BY <3>1 DEF Move, Got
  <2> QED BY <2>2, <2>3
<1> QED BY <1>1, <1>2, <1>3, <1>4, <1>5 DEF Steps

LEMMA ReadsMove ==
  ASSUME IInv, NEW c \in Callers, Reads(c)
  PROVE  /\ Move(c) /\ UNCHANGED chain
         /\ \A d \in Callers \ {c} : call'[d] = call[d]
<1>a. TypeOK
  BY DEF IInv
<1>1. PICK want \in Blocks \union Roots, method \in Methods :
        /\ Begin(c, want, method, IdentOf(want))
        /\ method = "state_get_item" => want.by = "root"
  BY <1>a, ReadsBegin
<1>2. /\ UNCHANGED chain /\ \A d \in Callers \ {c} : call'[d] = call[d]
      /\ call'[c].want = want /\ call'[c].method = method
      /\ call'[c].answer = "none" /\ call'[c].outcome = "pending"
      /\ call[c].outcome # "pending"
  BY <1>a, <1>1 DEF Begin, TypeOK
<1>3. Phase(c)' = (IF want.by = "latest" THEN "asked" ELSE "idle")
  BY <1>1, <1>2 DEF Phase
<1>4. Phase(c) \in {"idle", "done", "failed"}
  <2>1. call[c].outcome \in {"idle", "resolved", "rejected"}
    BY <1>a, <1>2 DEF TypeOK, Call
  <2> QED BY <2>1 DEF Phase
<1> QED BY <1>2, <1>3, <1>4 DEF Move, Got

(* Every read of the latest state, in one request or two, is a read of     *)
(* what was the latest state at one moment of the call.                    *)
THEOREM LatestReadsAreAtomic == Spec => ImplementsLatestRead
<1>1. Init => Read!Init
  <2> SUFFICES ASSUME Init PROVE Read!Init
    OBVIOUS
  <2>1. TypeOK
    BY InitInv DEF IInv
  <2>2. Latest \in Values
    BY <2>1, ChainFacts
  <2>3. \A c \in Callers : Phase(c) = "idle"
    BY DEF Init, Idle, Phase
  <2> QED BY <2>2, <2>3 DEF Read!Init
<1>2. IInv /\ [Next]_vars => [Read!Next]_(Read!vars)
  <2> SUFFICES ASSUME IInv, [Next]_vars PROVE [Read!Next]_(Read!vars)
    OBVIOUS
  <2>1. CASE Upgrade \/ UNCHANGED vars
    <3>1. UNCHANGED <<chain, call>>
      BY <2>1 DEF Upgrade, vars
    <3>2. Latest' = Latest
      BY <3>1 DEF Latest
    <3>3. \A d \in Callers : Phase(d)' = Phase(d)
      BY <3>1 DEF Phase
    <3> QED BY <3>1, <3>2, <3>3 DEF Read!vars
  <2>2. ASSUME NEW v \in Values, Grow(v) PROVE Read!Next
    <3>1. Latest' \in Values
      BY <2>2, GrowKeeps DEF IInv
    <3>2. UNCHANGED call
      BY <2>2 DEF Grow
    <3>3. \A d \in Callers : Phase(d)' = Phase(d)
      BY <3>2 DEF Phase
    <3>4. Read!Change
      BY <3>1, <3>2, <3>3 DEF Read!Change
    <3> QED BY <3>4 DEF Read!Next
  <2>3. ASSUME NEW c \in Callers, Reads(c) PROVE [Read!Next]_(Read!vars)
    BY <2>3, ReadsMove, MoveRefines
  <2>4. ASSUME NEW c \in Callers, Steps(c) PROVE [Read!Next]_(Read!vars)
    <3>1. UNCHANGED chain /\ \A d \in Callers \ {c} : call'[d] = call[d]
      BY <2>4, StepCall DEF IInv
    <3> QED BY <2>4, <3>1, StepsMove, MoveRefines
  <2> QED BY <2>1, <2>2, <2>3, <2>4 DEF Next, Node
<1> QED BY <1>1, <1>2, Invariance, PTL DEF Spec, ImplementsLatestRead, Read!Spec
=============================================================================
