--------------------------- MODULE ByteConverters ---------------------------
(***************************************************************************)
(* Bytes, numbers and texts as the SDK writes and reads them               *)
(* (types/ByteConverters.ts and the numeric classes of types/clvalue).     *)
(* A byte is a number of 0..255 and a buffer a sequence of them.           *)
(*                                                                         *)
(* An integer of any width is <<sign, digits>>: sign 0 or 1 and the        *)
(* magnitude in base 256, least digit first, no zero on top.  A text is    *)
(* the sequence of its code points, all below 2048: at most two UTF-8      *)
(* bytes each and always one UTF-16 unit, which tells the two lengths of a *)
(* text apart.                                                             *)
(***************************************************************************)
EXTENDS Integers, Sequences, SequencesExt

Byte == 0..255

\* What a decoder gives: the value with the bytes it left, or an exception.
Thrown == [threw |-> TRUE]
Taken(val, rest) == [threw |-> FALSE, val |-> val, rest |-> rest]

\* Runs the next step of a decoder on what the previous one gave.
Then(taken, Step(_, _)) ==
    IF taken.threw THEN Thrown ELSE Step(taken.val, taken.rest)

\* subarray and slice: positions are 0-based and clamped to the buffer.
Slice(bytes, from, to) ==
    SubSeq(bytes, from + 1, IF to < Len(bytes) THEN to ELSE Len(bytes))
From(bytes, from) == Slice(bytes, from, Len(bytes))

-----------------------------------------------------------------------------
(* Numbers *)

Zeros(n) == [i \in 1..n |-> 0]

\* A natural number as digits, and as an integer.
Digits(n) ==
    LET digits[m \in Nat] == IF m = 0 THEN <<>> ELSE <<m % 256>> \o digits[m \div 256] IN digits[n]
Num(n) == <<0, Digits(n)>>
Negative(num) == <<1, num[2]>>

WithoutTopZeros(digits) ==
    LET used == {i \in DOMAIN digits : digits[i] # 0}
    IN  SubSeq(digits, 1, IF used = {} THEN 0 ELSE CHOOSE i \in used : \A j \in used : j <= i)

\* Digits over a fixed number of bytes, and read from one.
Padded(digits, width) == digits \o Zeros(width - Len(digits))
FirstDigits(bytes, width) == WithoutTopZeros(Slice(bytes, 0, width))

\* Mutant: the complement of every digit, and one more on the lowest without
\* a carry.
Twos_NoCarry(digits, width) ==
    [i \in 1..width |-> (255 - Padded(digits, width)[i]) + (IF i = 1 THEN 1 ELSE 0)]

\* Two's complement over the given number of bytes: zeros stay below the
\* lowest digit that is not zero, which turns to 256 - d, those above to 255 - d.
Twos(digits, width) ==
    LET wide == Padded(digits, width)
        lowest == CHOOSE i \in 1..width : wide[i] # 0 /\ \A j \in 1..(i - 1) : wide[j] = 0
    IN  [i \in 1..width |-> IF i < lowest THEN 0
                            ELSE IF i = lowest THEN 256 - wide[i] ELSE 255 - wide[i]]

\* Whether a number is within what a type of this width can hold.
FitsUnsigned(num, width) == num[1] = 0 /\ Len(num[2]) <= width
FitsSigned(num, width) ==
    \/ Len(num[2]) < width
    \/ Len(num[2]) = width /\ num[2][width] < 128
    \/ num[1] = 1 /\ num[2] = Zeros(width - 1) \o <<128>>

\* toBytesNumber: nothing is written of a number out of bounds (Thrown).
ToBytesNumber(num, width, signed) ==
    IF ~(IF signed THEN FitsSigned(num, width) ELSE FitsUnsigned(num, width)) THEN Thrown
    ELSE Taken(IF num[1] = 1 THEN Twos(num[2], width)
               ELSE IF width <= 8 THEN Padded(num[2], width)
               ELSE <<Len(num[2])>> \o num[2], <<>>)

\* The readers of the fixed widths: shorter buffers are refused.
FromBytesFixed(bytes, width, signed) ==
    IF Len(bytes) < width THEN Thrown
    ELSE LET digits == Slice(bytes, 0, width)
             minus == signed /\ digits[width] >= 128
             magnitude == IF minus THEN Twos(digits, width) ELSE digits
         IN  Taken(<<IF minus THEN 1 ELSE 0, WithoutTopZeros(magnitude)>>, From(bytes, width))

\* Mutant: a number that fills its buffer is taken for one cut off.
FromBytesBigIntBase_Short(bytes, width) ==
    IF \/ Len(bytes) < 1
       \/ bytes[1] > width
       \/ bytes[1] + 1 >= Len(bytes)
    THEN Thrown
    ELSE Taken(<<0, WithoutTopZeros(Slice(bytes, 1, 1 + bytes[1]))>>, From(bytes, 1 + bytes[1]))

\* fromBytesBigIntBase: a length byte, then as many digits.  A zero read from
\* a buffer of <<1, 0>> keeps its digit, to be written as it was read.
FromBytesBigIntBase(bytes, width) ==
    IF \/ Len(bytes) < 1
       \/ bytes[1] > width
       \/ bytes[1] + 1 > Len(bytes)
    THEN Thrown
    ELSE Taken(<<0, IF bytes = <<1, 0>> THEN <<0>>
                    ELSE WithoutTopZeros(Slice(bytes, 1, 1 + bytes[1]))>>, From(bytes, 1 + bytes[1]))

\* Widths of the count and size fields, whose values stay below 65536 when
\* the SDK writes them; a larger one read is only told apart as TooLarge.
TooLarge == 65536
U16(n) == <<n % 256, n \div 256>>
U32(n) == <<n % 256, n \div 256, 0, 0>>
U64(n) == U16(n) \o Zeros(6)
Small(digits) ==
    IF Len(WithoutTopZeros(digits)) > 2 THEN TooLarge ELSE digits[1] + 256 * digits[2]

\* parseU16, parseU32: what follows is left to the caller.
ParseU16(bytes) == IF Len(bytes) < 2 THEN Thrown ELSE Taken(bytes[1] + 256 * bytes[2], From(bytes, 2))
ParseU32(bytes) == IF Len(bytes) < 4 THEN Thrown ELSE Taken(Small(Slice(bytes, 0, 4)), From(bytes, 4))

\* fromBytesU64 wants the eight bytes and nothing else.
FromBytesU64(bytes) == IF Len(bytes) # 8 THEN Thrown ELSE Taken(WithoutTopZeros(bytes), <<>>)

-----------------------------------------------------------------------------
(* Texts *)

\* What a lone half of a character is read as (U+FFFD).
Replacement == 65533

Utf8(text) ==
    FlattenSeq([i \in DOMAIN text |->
        CASE text[i] < 128 -> <<text[i]>>
          [] text[i] = Replacement -> <<239, 191, 189>>
          [] OTHER -> <<192 + (text[i] \div 64), 128 + (text[i] % 64)>>])

\* fromBytesString: buffers are read as UTF-8, whatever they hold; three bytes
\* are read only as the replacement, the one such character written here.
FromUtf8(bytes) ==
    LET from[i \in 1..(Len(bytes) + 3)] ==
            IF i > Len(bytes) THEN <<>>
            ELSE IF bytes[i] < 128 THEN <<bytes[i]>> \o from[i + 1]
            ELSE IF bytes[i] \in 192..223 /\ i < Len(bytes) /\ bytes[i + 1] \in 128..191
                 THEN <<(64 * (bytes[i] - 192)) + (bytes[i + 1] - 128)>> \o from[i + 2]
            ELSE IF Slice(bytes, i - 1, i + 2) = Utf8(<<Replacement>>)
                 THEN <<Replacement>> \o from[i + 3]
            ELSE <<Replacement>> \o from[i + 1]
    IN  from[1]

\* toBytesString counts the bytes, toBytesArrayU8 prefixes bytes with their number.
ToBytesArrayU8(bytes) == U32(Len(bytes)) \o bytes
ToBytesString(text) == ToBytesArrayU8(Utf8(text))

\* CLValueString.bytes counts UTF-16 units where the reader counts bytes; the
\* size that is read may go past the end.
StringBytes(text) == U32(Len(text)) \o Utf8(text)
StringFromBytes(bytes) ==
    Then(ParseU32(bytes), LAMBDA size, rest : Taken(FromUtf8(Slice(rest, 0, size)), From(rest, size)))

-----------------------------------------------------------------------------
(* Buffers that grow: PageSize is 1024 in the code *)

CONSTANT PageSize

\* A count of four bytes is written before anyone asks for room.
ASSUME PageSizeAssumption == PageSize \in Nat /\ PageSize >= 4

\* A buffer being filled: its capacity, the bytes written, whether a write
\* ran over the end (a RangeError).
NewBuffer == [cap |-> PageSize, data |-> <<>>, over |-> FALSE]

\* expandBuffer doubles the capacity until the required size fits.
ExpandBuffer(cap, required) ==
    LET doubled[n \in Nat] == IF n >= required THEN n ELSE doubled[2 * n] IN doubled[cap]

\* writeInteger, writeUShort, writeBytes: at the end of what is written.
Write(buffer, bytes) ==
    IF Len(buffer.data) + Len(bytes) > buffer.cap
    THEN [buffer EXCEPT !.over = TRUE]
    ELSE [buffer EXCEPT !.data = @ \o bytes]

\* The callers' test before a write.
MakeRoom(buffer, size) ==
    IF Len(buffer.data) + size > buffer.cap
    THEN [buffer EXCEPT !.cap = ExpandBuffer(@, Len(buffer.data) + size)]
    ELSE buffer

\* The callers' loops: room for each piece, then the piece.
WriteAll(buffer, pieces) ==
    LET filled[i \in 0..Len(pieces)] ==
            IF i = 0 THEN buffer ELSE Write(MakeRoom(filled[i - 1], Len(pieces[i])), pieces[i])
    IN  filled[Len(pieces)]
=============================================================================
