-------------------------------- MODULE Keys --------------------------------
(***************************************************************************)
(* The keys of global state as bytes and as prefixed strings               *)
(* (types/key, types/keypair/PublicKey.ts).  A key is <<kind, address>>;   *)
(* what the address is depends on the kind:                                *)
(*   - the hash kinds: a hash;  RewardsHandling: nothing (<<>>);           *)
(*   - URef: <<data, access>>;  EraId: the digits of the era;              *)
(*   - AddressableEntity, State: an entity <<tag, hash>>;                  *)
(*   - BidAddr: <<tag, parts>>;  ByteCode, BlockGlobal: <<tag, hashes>>;   *)
(*   - Message: <<entity, topic, index>>;  NamedKey: <<entity, name>>;     *)
(*   - BalanceHold: <<tag, purse, time>>;                                  *)
(*   - EntryPoint: <<tag, entity, name or selector>>.                      *)
(* Eras, indexes, times and selectors are digits in base 256.              *)
(* A printed key is the sequence of its dash-separated segments, each      *)
(* <<word>>, <<"hex", bytes>> or <<"num", number>>.                        *)
(***************************************************************************)
EXTENDS ByteConverters, FiniteSetsExt

HashLen == 32

\* KeyTypeID, in order: the first has tag 0.
KeyTypeID ==
    <<"Account", "Hash", "URef", "Transfer", "DeployInfo", "EraId", "Balance", "Bid",
      "Withdraw", "Dictionary", "SystemContractRegistry", "EraSummary", "Unbond",
      "ChainspecRegistry", "ChecksumRegistry", "BidAddr", "Package", "AddressableEntity",
      "ByteCode", "Message", "NamedKey", "BlockGlobal", "BalanceHold", "EntryPoint",
      "State", "RewardsHandling">>

Tag(kind) == (CHOOSE i \in DOMAIN KeyTypeID : KeyTypeID[i] = kind) - 1

HashKinds ==
    {"Account", "Hash", "Transfer", "DeployInfo", "Balance", "Bid", "Withdraw", "Dictionary",
     "SystemContractRegistry", "EraSummary", "Unbond", "ChainspecRegistry",
     "ChecksumRegistry", "Package"}

-----------------------------------------------------------------------------
(* Bytes *)

\* Hash.fromBytes: the first 32 bytes.
HashFromBytes(bytes) ==
    IF Len(bytes) < HashLen THEN Thrown
    ELSE Taken(Slice(bytes, 0, HashLen), From(bytes, HashLen))

\* A tag byte below the bound, then what Step reads with it.
Tagged(bytes, bound, Step(_, _)) ==
    IF bytes = <<>> \/ (bytes # <<>> /\ bytes[1] >= bound) THEN Thrown ELSE Step(bytes[1], From(bytes, 1))

\* EntityAddr: system 0, account 1, contract 2.
EntityAddrBytes(entity) == <<entity[1]>> \o entity[2]
EntityAddrFromBytes(bytes) ==
    Tagged(bytes, 3, LAMBDA tag, rem :
        Then(HashFromBytes(rem), LAMBDA hash, rest : Taken(<<tag, hash>>, rest)))

\* URef: the address and its access rights; the reader wants 33 bytes, no more.
URefBytes(uref) == uref[1] \o <<uref[2]>>
URefFromBytes(bytes) ==
    IF Len(bytes) # HashLen + 1 \/ (Len(bytes) = HashLen + 1 /\ bytes[HashLen + 1] > 7) THEN Thrown
    ELSE Taken(<<Slice(bytes, 0, HashLen), bytes[HashLen + 1]>>, <<>>)

\* splitAt refuses to split at the very end of a buffer.
SplitAt(i, bytes) ==
    IF i > Len(bytes) - 1 THEN Thrown ELSE Taken(Slice(bytes, 0, i), From(bytes, i))

\* Era.fromBytes reads four bytes of the buffer under the one-byte view it
\* is given, and Key.fromBytes goes on after that one byte.
EraFromBytes(bytes) ==
    Then(SplitAt(1, bytes), LAMBDA view, rest :
        IF Len(bytes) < 4 THEN Thrown ELSE Taken(FirstDigits(bytes, 4), rest))

\* BidAddr by tag: what follows the tag.
BidOne == {0, 1, 9}          \* Unified, Validator, ValidatorRev: one hash
BidAccounts == {2, 5, 7}     \* validator and delegator account
BidPurses == {3, 6, 8}       \* validator and delegator purse, kept as hex
BidCredit == 4               \* validator and era

BidAddrBytes(bid) ==
    CASE bid[1] = BidCredit -> IF bid[2][2] = <<>> THEN Thrown
                               ELSE Taken(<<bid[1]>> \o bid[2][1] \o Padded(bid[2][2], 8), <<>>)
      [] OTHER -> Taken(<<bid[1]>> \o FlattenSeq(bid[2]), <<>>)

\* BigNumber.toNumber refuses what a JavaScript number cannot hold (2^53 - 1).
Exact(digits) == Len(digits) < 7 \/ (Len(digits) = 7 /\ digits[7] < 32)

\* A purse is everything that is left, and is left again to who reads on;
\* so are the eight bytes of a credit's era.
BidAddrFromBytes(bytes) ==
    IF Len(bytes) < HashLen + 1 THEN Thrown
    ELSE Tagged(bytes, 10, LAMBDA tag, rem :
        Then(HashFromBytes(rem), LAMBDA first, next :
            CASE tag \in BidOne -> Taken(<<tag, <<first>>>>, next)
              [] tag \in BidAccounts ->
                    Then(HashFromBytes(next), LAMBDA second, rest : Taken(<<tag, <<first, second>>>>, rest))
              [] tag \in BidPurses -> Taken(<<tag, <<first, next>>>>, next)
              [] tag = BidCredit ->
                    IF Exact(FirstDigits(next, 8)) THEN Taken(<<tag, <<first, FirstDigits(next, 8)>>>>, next)
                    ELSE Thrown))

\* An empty byte code is one byte, and the reader leaves that byte unread;
\* with a hash it takes whatever follows the hash for its own.
ByteCodeBytes(code) == <<code[1]>> \o FlattenSeq(code[2])
ByteCodeFromBytes(bytes) ==
    Tagged(bytes, 2, LAMBDA tag, rem :
        IF tag = 0 THEN Taken(<<0, <<>>>>, bytes)
        ELSE Then(HashFromBytes(Slice(rem, 0, HashLen)), LAMBDA hash, rest : Taken(<<1, <<hash>>>>, rest)))

\* NoIndex stands for the undefined index of a topic.  Four bytes after the
\* topic are taken for an index whoever wrote them.
NoIndex == <<-1>>
MessageAddrBytes(addr) ==
    EntityAddrBytes(addr[1]) \o addr[2] \o (IF addr[3] = NoIndex THEN <<>> ELSE Padded(addr[3], 4))
MessageAddrFromBytes(bytes) ==
    Then(EntityAddrFromBytes(bytes), LAMBDA entity, next :
        Then(HashFromBytes(next), LAMBDA topic, rest :
            IF Len(rest) < 4 THEN Taken(<<entity, topic, NoIndex>>, rest)
            ELSE Taken(<<entity, topic, FirstDigits(rest, 4)>>, From(rest, 4))))

NamedKeyAddrBytes(addr) == EntityAddrBytes(addr[1]) \o addr[2]
NamedKeyAddrFromBytes(bytes) ==
    Then(EntityAddrFromBytes(bytes), LAMBDA entity, next :
        Then(HashFromBytes(next), LAMBDA name, rest : Taken(<<entity, name>>, rest)))

\* The tag of a block-global key is left unread.
BlockGlobalAddrBytes(addr) == <<addr[1]>>
BlockGlobalAddrFromBytes(bytes) == Tagged(bytes, 2, LAMBDA tag, rem : Taken(<<tag, <<>>>>, bytes))

BalanceHoldAddrBytes(hold) == <<hold[1]>> \o hold[2] \o Padded(hold[3], 8)
BalanceHoldAddrFromBytes(bytes) ==
    IF Len(bytes) < HashLen + 9 THEN Thrown
    ELSE Tagged(bytes, 2, LAMBDA tag, rem :
            Taken(<<tag, Slice(rem, 0, HashLen), FirstDigits(From(rem, HashLen), 8)>>,
                  From(rem, HashLen + 8)))

\* VM 1: an entity and the 32 bytes of a name; VM 2: an entity and a selector.
EntryPointAddrBytes(addr) ==
    <<addr[1]>> \o EntityAddrBytes(addr[2]) \o (IF addr[1] = 0 THEN addr[3] ELSE Padded(addr[3], 4))
EntryPointAddrFromBytes(bytes) ==
    Tagged(bytes, 2, LAMBDA tag, rem :
        Then(EntityAddrFromBytes(rem), LAMBDA entity, next :
            IF tag = 0 THEN Taken(<<0, entity, Slice(next, 0, HashLen)>>, From(next, HashLen))
            ELSE IF Len(next) < 4 THEN Thrown
            ELSE Taken(<<1, entity, FirstDigits(next, 4)>>, From(next, 4))))

\* Key.bytes: the tag of the kind, then its address (Thrown for the one
\* address that cannot be written).
KeyBytes(key) ==
    LET kind == key[1]
        addr == key[2]
        address ==
            CASE kind \in HashKinds -> Taken(addr, <<>>)
              [] kind = "URef" -> Taken(URefBytes(addr), <<>>)
              [] kind = "EraId" -> Taken(Padded(addr, 8), <<>>)
              [] kind = "BidAddr" -> BidAddrBytes(addr)
              [] kind \in {"AddressableEntity", "State"} -> Taken(EntityAddrBytes(addr), <<>>)
              [] kind = "ByteCode" -> Taken(ByteCodeBytes(addr), <<>>)
              [] kind = "Message" -> Taken(MessageAddrBytes(addr), <<>>)
              [] kind = "NamedKey" -> Taken(NamedKeyAddrBytes(addr), <<>>)
              [] kind = "BlockGlobal" -> Taken(BlockGlobalAddrBytes(addr), <<>>)
              [] kind = "BalanceHold" -> Taken(BalanceHoldAddrBytes(addr), <<>>)
              [] kind = "EntryPoint" -> Taken(EntryPointAddrBytes(addr), <<>>)
              [] kind = "RewardsHandling" -> Taken(Zeros(HashLen), <<>>)
    IN  Then(address, LAMBDA bytes, ignored : Taken(<<Tag(kind)>> \o bytes, <<>>))

\* Key.fromBytes.
KeyFromBytes(bytes) ==
    Tagged(bytes, Len(KeyTypeID), LAMBDA tag, content :
        LET kind == KeyTypeID[tag + 1]
            address ==
                CASE kind = "ChainspecRegistry" -> SplitAt(HashLen, content)
                  [] kind \in HashKinds \ {"ChainspecRegistry"} -> HashFromBytes(content)
                  [] kind = "URef" -> URefFromBytes(content)
                  [] kind = "EraId" -> EraFromBytes(content)
                  [] kind = "BidAddr" -> BidAddrFromBytes(content)
                  [] kind \in {"AddressableEntity", "State"} -> EntityAddrFromBytes(content)
                  [] kind = "ByteCode" -> ByteCodeFromBytes(content)
                  [] kind = "Message" -> MessageAddrFromBytes(content)
                  [] kind = "NamedKey" -> NamedKeyAddrFromBytes(content)
                  [] kind = "BlockGlobal" -> BlockGlobalAddrFromBytes(content)
                  [] kind = "BalanceHold" -> BalanceHoldAddrFromBytes(content)
                  [] kind = "EntryPoint" -> EntryPointAddrFromBytes(content)
                  [] kind = "RewardsHandling" ->
                        Then(HashFromBytes(content), LAMBDA padding, rest : Taken(<<>>, rest))
        IN  Then(address, LAMBDA addr, rest : Taken(<<kind, addr>>, rest)))

-----------------------------------------------------------------------------
(* Prefixed strings *)

Word(word) == <<word>>
Words(words) == [i \in DOMAIN words |-> Word(words[i])]
Hex(bytes) == <<"hex", bytes>>
Number(digits) == <<"num", digits>>
IsHex(segment) == Len(segment) = 2 /\ segment[1] = "hex"
IsNumber(segment) == Len(segment) = 2 /\ segment[1] = "num"

\* PrefixName as keyIDbyPrefix lists it, in the order of that map.
KeyIDByPrefix ==
    <<[prefix |-> <<"account", "hash">>, kind |-> "Account"],
      [prefix |-> <<"hash">>, kind |-> "Hash"],
      [prefix |-> <<"transfer">>, kind |-> "Transfer"],
      [prefix |-> <<"uref">>, kind |-> "URef"],
      [prefix |-> <<"deploy">>, kind |-> "DeployInfo"],
      [prefix |-> <<"era">>, kind |-> "EraId"],
      [prefix |-> <<"bid">>, kind |-> "Bid"],
      [prefix |-> <<"balance">>, kind |-> "Balance"],
      [prefix |-> <<"withdraw">>, kind |-> "Withdraw"],
      [prefix |-> <<"dictionary">>, kind |-> "Dictionary"],
      [prefix |-> <<"system", "contract", "registry">>, kind |-> "SystemContractRegistry"],
      [prefix |-> <<"era", "summary">>, kind |-> "EraSummary"],
      [prefix |-> <<"unbond">>, kind |-> "Unbond"],
      [prefix |-> <<"chainspec", "registry">>, kind |-> "ChainspecRegistry"],
      [prefix |-> <<"checksum", "registry">>, kind |-> "ChecksumRegistry"],
      [prefix |-> <<"bid", "addr">>, kind |-> "BidAddr"],
      [prefix |-> <<"package">>, kind |-> "Package"],
      [prefix |-> <<"entity">>, kind |-> "AddressableEntity"],
      [prefix |-> <<"byte", "code">>, kind |-> "ByteCode"],
      [prefix |-> <<"message">>, kind |-> "Message"],
      [prefix |-> <<"named", "key">>, kind |-> "NamedKey"],
      [prefix |-> <<"block">>, kind |-> "BlockGlobal"],
      [prefix |-> <<"balance", "hold">>, kind |-> "BalanceHold"],
      [prefix |-> <<"entry", "point">>, kind |-> "EntryPoint"],
      [prefix |-> <<"system", "entity", "registry">>, kind |-> "SystemContractRegistry"],
      [prefix |-> <<"state">>, kind |-> "State"],
      [prefix |-> <<"rewards", "handling">>, kind |-> "RewardsHandling"]>>

StartsWith(source, words) == IsPrefix(Words(words), source)
Without(source, words) ==
    IF StartsWith(source, words) THEN From(source, Len(words)) ELSE source

\* The prefix a kind is printed with: its last one in the map.
PrefixOf(kind) ==
    KeyIDByPrefix[Max({i \in DOMAIN KeyIDByPrefix : KeyIDByPrefix[i].kind = kind})].prefix

\* findPrefixByMap: the loop does not stop at a match, the last one stays,
\* and three short prefixes give way to the longer ones they begin.
FindPrefixByMap(source) ==
    LET matches == {i \in DOMAIN KeyIDByPrefix : StartsWith(source, KeyIDByPrefix[i].prefix)}
        kind == KeyIDByPrefix[Max(matches)].kind
    IN  IF matches = {} THEN "none"
        ELSE CASE kind = "EraId" /\ StartsWith(source, <<"era", "summary">>) -> "EraSummary"
               [] kind = "Bid" /\ StartsWith(source, <<"bid", "addr">>) -> "BidAddr"
               [] kind = "Balance" /\ StartsWith(source, <<"balance", "hold">>) -> "BalanceHold"
               [] OTHER -> kind

EntityWord == <<"system", "account", "contract">>
EntityString(entity) == Words(<<"entity", EntityWord[entity[1] + 1]>>) \o <<Hex(entity[2])>>
EntityFromString(source) ==
    LET left == Without(source, <<"entity">>)
        tags == {t \in 0..2 : StartsWith(left, <<EntityWord[t + 1]>>)}
    IN  IF tags = {} \/ Len(left) # 2 \/ ~IsHex(left[Len(left)]) THEN Thrown
        ELSE Taken(<<CHOOSE t \in tags : TRUE, left[2][2]>>, <<>>)

HashFromHex(source) ==
    IF Len(source) # 1 \/ (Len(source) = 1 /\ ~IsHex(source[1])) THEN Thrown
    ELSE IF Len(source[1][2]) # HashLen THEN Thrown ELSE Taken(source[1][2], <<>>)

\* BidAddr.fromHex knows the length every tag must have.
BidAddrFromHex(bytes) ==
    LET tag == bytes[1]
        size == CASE tag \in BidOne -> 33 [] tag = BidCredit -> 41 [] OTHER -> 65
    IN  IF bytes = <<>> \/ (bytes # <<>> /\ (tag > 9 \/ Len(bytes) # size)) THEN Thrown
        ELSE LET first == Slice(bytes, 1, 33)
                 second == From(bytes, 33)
             IN  Taken(<<tag, CASE tag \in BidOne -> <<first>>
                                [] tag = BidCredit -> <<first, FirstDigits(second, 4)>>
                                [] OTHER -> <<first, second>>>>, <<>>)

\* What a number below 100 that is printed in decimal is read as in
\* hexadecimal; a larger one is read as some larger number.
DecimalAsHex(digits) ==
    CASE digits = <<>> -> <<>>
      [] Len(digits) = 1 /\ digits[1] < 100 -> <<16 * (digits[1] \div 10) + (digits[1] % 10)>>
      [] OTHER -> digits \o <<1>>

\* An index is printed unless it is undefined, "topic-" whenever it is falsy.
MessageString(addr) ==
    Words(IF addr[3] \in {NoIndex, <<>>} THEN <<"message", "topic">> ELSE <<"message">>)
      \o EntityString(addr[1]) \o <<Hex(addr[2])>>
      \o (IF addr[3] = NoIndex THEN <<>> ELSE <<Number(addr[3])>>)

MessageFromString(source) ==
    LET left == Without(source, <<"message">>)
        topic == StartsWith(left, <<"topic">>)
        parts == Without(left, <<"topic">>)
    IN  IF Len(parts) # (IF topic THEN 4 ELSE 5) THEN Thrown
        ELSE Then(EntityFromString(Slice(parts, 0, 3)), LAMBDA entity, ignored :
                Taken(<<entity, parts[4][2], IF topic THEN NoIndex ELSE DecimalAsHex(parts[5][2])>>, <<>>))

\* The address of an entry point is printed without the prefix of its kind.
EntryPointString(addr) ==
    Words(<<IF addr[1] = 0 THEN "v1" ELSE "v2">>) \o EntityString(addr[2])
      \o <<Hex(IF addr[1] = 0 THEN addr[3] ELSE Padded(addr[3], 4))>>
EntryPointFromString(source) ==
    IF ~(StartsWith(source, <<"v1">>) \/ StartsWith(source, <<"v2">>)) THEN Thrown
    ELSE Then(EntityFromString(Slice(source, 1, Len(source) - 1)), LAMBDA entity, ignored :
            LET data == source[Len(source)][2]
            IN  IF StartsWith(source, <<"v1">>) THEN Taken(<<0, entity, data>>, <<>>)
                ELSE Taken(<<1, entity, FirstDigits(data, 4)>>, <<>>))

BlockGlobalWords == <<<<"time">>, <<"message", "count">>>>
BlockGlobalString(addr) ==
    Words(<<"block", "global">> \o BlockGlobalWords[addr[1] + 1]) \o <<Hex(Zeros(HashLen))>>
BlockGlobalFromString(source) ==
    LET body == Without(source, <<"block", "global">>)
        tags == {t \in 0..1 : StartsWith(body, BlockGlobalWords[t + 1])}
    IN  IF tags = {} THEN Thrown ELSE Taken(<<CHOOSE t \in tags : TRUE, <<>>>>, <<>>)

\* Key.toPrefixedString.
KeyString(key) ==
    LET kind == key[1]
        addr == key[2]
        prefix == Words(PrefixOf(kind))
    IN  CASE kind \in HashKinds -> prefix \o <<Hex(addr)>>
          [] kind = "URef" -> prefix \o <<Hex(addr[1]), Number(addr[2])>>
          [] kind = "EraId" -> prefix \o <<Number(addr)>>
          [] kind = "BidAddr" ->
                prefix \o <<Hex(<<addr[1]>> \o addr[2][1] \o
                    (CASE addr[1] \in BidOne -> <<>>
                       [] addr[1] = BidCredit -> Padded(addr[2][2], 8)
                       [] OTHER -> addr[2][2]))>>
          [] kind = "AddressableEntity" -> EntityString(addr)
          [] kind = "State" -> prefix \o EntityString(addr)
          [] kind = "ByteCode" ->
                prefix \o (IF addr[1] = 0 THEN Words(<<"empty">>) \o <<Hex(Zeros(HashLen))>>
                           ELSE Words(<<"v1", "wasm">>) \o <<Hex(addr[2][1])>>)
          [] kind = "Message" -> MessageString(addr)
          [] kind = "NamedKey" -> prefix \o EntityString(addr[1]) \o <<Hex(addr[2])>>
          [] kind = "BlockGlobal" -> BlockGlobalString(addr)
          [] kind = "BalanceHold" -> prefix \o <<Hex(BalanceHoldAddrBytes(addr))>>
          [] kind = "EntryPoint" -> EntryPointString(addr)
          [] kind = "RewardsHandling" -> prefix \o <<Hex(Zeros(HashLen))>>

\* Key.createByType: what follows the prefix, read as the kind prescribes.
CreateByType(source, kind) ==
    LET left == Without(IF kind = "SystemContractRegistry"
                        THEN Without(source, <<"system", "contract", "registry">>) ELSE source,
                        PrefixOf(kind))
        address ==
            CASE kind \in HashKinds -> HashFromHex(left)
              [] kind = "URef" ->
                    IF Len(left) < 2 THEN Thrown ELSE Taken(<<left[1][2], left[2][2]>>, <<>>)
              [] kind = "EraId" -> IF IsNumber(left[1]) THEN Taken(left[1][2], <<>>) ELSE Thrown
              [] kind = "BidAddr" -> BidAddrFromHex(left[1][2])
              [] kind \in {"AddressableEntity", "State"} -> EntityFromString(left)
              [] kind = "ByteCode" ->
                    IF StartsWith(left, <<"v1", "wasm">>)
                    THEN Then(HashFromHex(From(left, 2)), LAMBDA hash, ignored : Taken(<<1, <<hash>>>>, <<>>))
                    ELSE IF StartsWith(left, <<"empty">>) THEN Taken(<<0, <<>>>>, <<>>) ELSE Thrown
              [] kind = "Message" -> MessageFromString(source)
              [] kind = "NamedKey" ->
                    Then(EntityFromString(Slice(left, 0, Len(left) - 1)), LAMBDA entity, ignored :
                        Taken(<<entity, left[Len(left)][2]>>, <<>>))
              [] kind = "BlockGlobal" -> BlockGlobalFromString(left)
              [] kind = "BalanceHold" -> BalanceHoldAddrFromBytes(left[1][2])
              [] kind = "EntryPoint" -> EntryPointFromString(left)
              [] kind = "RewardsHandling" ->
                    IF left = <<Hex(Zeros(HashLen))>> THEN Taken(<<>>, <<>>) ELSE Thrown
    IN  Then(address, LAMBDA addr, ignored : Taken(<<kind, addr>>, <<>>))

\* Key.newKey: a bare hash, or the kind that the prefix tells.
NewKey(source) ==
    IF Len(source) = 1 /\ IsHex(source[1]) /\ Len(source[1][2]) = HashLen
    THEN Taken(<<"Hash", source[1][2]>>, <<>>)
    ELSE LET kind == FindPrefixByMap(source)
         IN  IF kind = "none" THEN Thrown ELSE CreateByType(source, kind)

-----------------------------------------------------------------------------
(* Public keys: <<algorithm, key>>, algorithm 1 (32 bytes) or 2 (33 bytes) *)

KeySize(algorithm) == 31 + algorithm
PublicKeyBytes(key) == <<key[1]>> \o key[2]
PublicKeyFromBytes(bytes) ==
    IF bytes = <<>> \/ (bytes # <<>> /\ bytes[1] \notin {1, 2}) THEN Thrown
    ELSE IF Len(bytes) < 1 + KeySize(bytes[1]) THEN Thrown
    ELSE Taken(<<bytes[1], Slice(bytes, 1, 1 + KeySize(bytes[1]))>>, From(bytes, 1 + KeySize(bytes[1])))

\* The digest of bytes (blake2b) is only known to differ when they do.
Digest(bytes) == <<"blake2b", bytes>>
AlgorithmName == <<<<101, 100>>, <<115, 101>>>>
AccountHashOf(key) == Digest(AlgorithmName[key[1]] \o <<0>> \o key[2])
=============================================================================
