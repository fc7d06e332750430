----------------------------- MODULE Encodings -----------------------------
(***************************************************************************)
(* The texts that are written and read back: base64 and base32, hex and    *)
(* amounts of money (util.cpp), and addresses in base58 (base58.h); and    *)
(* the strings, vectors, pairs, maps and sets that are written to a        *)
(* CDataStream (serialize.h).                                              *)
(*                                                                         *)
(* The digits of an alphabet are their values.  Letters of both cases that *)
(* mean the same digit are the same here.                                  *)
(***************************************************************************)
EXTENDS Numbers, DataStream

CONSTANTS
  Base58,            \* digits of an address
  HashSize,          \* bytes of a key's or a script's hash
  nDecimals,         \* COIN is 1 with as many zeros
  MaxWhole,          \* digits before the point that are read
  MaxCompactSize,    \* MAX_SIZE
  BlockSize          \* bytes a vector is read by at once

ASSUME EncodingsAssumption ==
  /\ Base58 \in 2..(Bytes - 1) /\ {HashSize, MaxWhole, MaxCompactSize, BlockSize} \subseteq Nat \ {0}
  /\ nDecimals \in Nat \ 0..1

Pad == -5
Point == -6
PlusSign == -7

Repeat(c, n) == [i \in 1..n |-> c]

----------------------------------------------------------------------------
(* base64 and base32 write the bits of bytes in digits of w bits, and a text *)
(* is as long as a group.  The mode of the code is how many bits are left.   *)

\* What numbers of some bits make in numbers of other bits, and what is left.
Regrouped(s, from, to) ==
  LET Regroup(r, x) ==
        LET bits == r.left * 2 ^ from + x
            n == r.nLeft + from
        IN  [out |-> r.out \o [i \in 1..(n \div to) |-> (bits \div 2 ^ (n - i * to)) % 2 ^ to],
             left |-> bits % 2 ^ (n % to), nLeft |-> n % to]
  IN  FoldLeft(Regroup, [out |-> <<>>, left |-> 0, nLeft |-> 0], s)

\* Mutant: what is left is written without a shift.
LastDigitAsIs(left, nLeft, w) == left
LastDigit(left, nLeft, w) == left * 2 ^ (w - nLeft)

EncodeBits(bytes, w, group) ==
  LET r == Regrouped(bytes, 8, w)
      text == IF r.nLeft = 0 THEN r.out ELSE Append(r.out, LastDigit(r.left, r.nLeft, w))
  IN  text \o Repeat(Pad, (-Len(text)) % group)

\* Bytes come out of any text.  It is invalid when a whole digit or bits other
\* than zeros are left, or when it is not padded, with no digit after that.
DecodeBits(text, w, group) ==
  LET digits == Leading(text, IsDigit)
      rest == After(text, IsDigit)
      r == Regrouped(digits, w, 8)
      nPad == (-Len(digits)) % group
  IN  [bytes |-> r.out,
       fInvalid |-> nPad # 0 /\ \/ r.nLeft >= w \/ r.left # 0
                                \/ ~IsPrefix(Repeat(Pad, nPad), rest)
                                \/ Len(rest) > nPad /\ IsDigit(rest[nPad + 1])]

EncodeBase64(bytes) == EncodeBits(bytes, 6, 4)
DecodeBase64(text) == DecodeBits(text, 6, 4)
EncodeBase32(bytes) == EncodeBits(bytes, 5, 8)
DecodeBase32(text) == DecodeBits(text, 5, 8)

----------------------------------------------------------------------------
(* Hex: two digits a byte.  Spaces may come before a byte. *)

HexStr(bytes) == FlattenSeq([i \in DOMAIN bytes |-> DigitsOf(bytes[i], HexBase, 2)])

IsHex(text) == text # <<>> /\ Len(text) % 2 = 0 /\ \A i \in DOMAIN text : IsDigit(text[i])

ParseHex(text) ==
  LET Reads(r, c) ==
        IF r.ended \/ (c = Space /\ r.high = Other) THEN r
        ELSE IF ~IsDigit(c) THEN [r EXCEPT !.ended = TRUE]
        ELSE IF r.high = Other THEN [r EXCEPT !.high = c]
        ELSE [r EXCEPT !.high = Other, !.bytes = Append(@, r.high * HexBase + c)]
  IN  FoldLeft(Reads, [bytes |-> <<>>, high |-> Other, ended |-> FALSE], text).bytes

----------------------------------------------------------------------------
(* Money *)

COIN == 10 ^ nDecimals

\* Zeros are dropped from the end while two characters before is a digit.
Trimmed(text) ==
  LET Drops(k) == \A j \in 0..(k - 1) : text[Len(text) - j] = 0 /\ IsDigit(text[Len(text) - j - 2])
      n == CHOOSE k \in 0..nDecimals : Drops(k) /\ (k < nDecimals => ~Drops(k + 1))
  IN  SubSeq(text, 1, Len(text) - n)

FormatMoney(n, fPlus) ==
  LET whole == Magnitude(n) \div COIN
      text == DigitsOf(whole, 10, IF whole = 0 THEN 1 ELSE LengthIn(whole, 10)) \o <<Point>>
              \o DigitsOf(Magnitude(n) % COIN, 10, nDecimals)
      sign == IF n < 0 THEN <<Minus>> ELSE IF fPlus /\ n > 0 THEN <<PlusSign>> ELSE <<>>
  IN  sign \o Trimmed(text)

\* Digits, a point and no more decimals than there are, between spaces.  No sign
\* is read.
ParseMoney(text) ==
  LET t == Unspaced(text)
      strWhole == Leading(t, IsDigit)
      rest == After(t, IsDigit)
      point == rest # <<>> /\ rest[1] = Point
      all == IF point THEN Leading(Tail(rest), IsDigit) ELSE <<>>
      read == SubSeq(all, 1, IF Len(all) < nDecimals THEN Len(all) ELSE nDecimals)
      unread == SubSeq(rest, Len(read) + (IF point THEN 2 ELSE 1), Len(rest))
  IN  [fOk |-> Unspaced(unread) = <<>> /\ Len(strWhole) <= MaxWhole,
       n |-> ValueOf(strWhole, 10) * COIN + ValueOf(read, 10) * 10 ^ (nDecimals - Len(read))]

----------------------------------------------------------------------------
(* Addresses: the leading zeros of the bytes, and the number the rest make. *)

EncodeBase58(bytes) ==
  LET bn == SetVch(Reverse(<<0>> \o bytes))
  IN  Leading(bytes, LAMBDA b : b = 0) \o DigitsOf(bn, Base58, LengthIn(bn, Base58))

\* Without the byte that keeps the number positive.
Unsigned(vch) ==
  LET n == Len(vch) IN IF n >= 2 /\ vch[n] = 0 /\ vch[n - 1] >= SignBit THEN Front(vch) ELSE vch

BytesOf58(digits) ==
  Leading(digits, LAMBDA d : d = 0) \o Reverse(Unsigned(GetVch(ValueOf(digits, Base58))))
DecodeBase58(text) ==
  LET t == Unspaced(text)
  IN  [fOk |-> Unspaced(After(t, IsDigit)) = <<>>, bytes |-> BytesOf58(Leading(t, IsDigit))]

\* The check is a byte of a hash.
Check(bytes) == FoldLeft(LAMBDA h, b : (3 * h + b + 1) % Bytes, 0, bytes)
EncodeBase58Check(bytes) == EncodeBase58(Append(bytes, Check(bytes)))
Checked(d) ==
  IF d.fOk /\ d.bytes # <<>> /\ Last(d.bytes) = Check(Front(d.bytes))
  THEN [fOk |-> TRUE, bytes |-> Front(d.bytes)] ELSE [fOk |-> FALSE, bytes |-> <<>>]
DecodeBase58Check(text) == Checked(DecodeBase58(text))

BlankData == [nVersion |-> 0, vchData |-> <<>>]
ToString58(data) == EncodeBase58Check(<<data.nVersion>> \o data.vchData)
DataOf(bytes) ==
  IF bytes = <<>> THEN BlankData ELSE [nVersion |-> bytes[1], vchData |-> Tail(bytes)]
SetString(text) == DataOf(DecodeBase58Check(text).bytes)

\* CBitcoinAddress: the version tells keys from scripts and the test network.
Versions == [key |-> <<0, 2>>, script |-> <<1, 3>>]
SetAddress(kind, hash, testNet) ==
  [nVersion |-> Versions[kind][IF testNet THEN 2 ELSE 1], vchData |-> hash]
IsValidAddress(data, testNet) ==
  /\ \E kind \in DOMAIN Versions : data.nVersion = Versions[kind][IF testNet THEN 2 ELSE 1]
  /\ Len(data.vchData) = HashSize
GetAddress(data, testNet) ==
  IF ~IsValidAddress(data, testNet) THEN [kind |-> "none", hash |-> <<>>]
  ELSE [kind |-> CHOOSE kind \in DOMAIN Versions : data.nVersion \in ToSet(Versions[kind]),
        hash |-> data.vchData]

----------------------------------------------------------------------------
(* Sizes: small ones are a byte, others 2, 4 or 8 after one that says which. *)

Markers == <<Bytes - 3, Bytes - 2, Bytes - 1>>
FixedSize(i) == 2 ^ i
Widths(nSize) == {i \in 1..3 : i = 3 \/ nSize < Bytes ^ FixedSize(i)}
Narrowest(nSize) == CHOOSE i \in Widths(nSize) : \A j \in Widths(nSize) : i <= j

GetSizeOfCompactSize(nSize) ==
  IF nSize < Markers[1] THEN 1 ELSE 1 + FixedSize(Narrowest(nSize))
WriteCompactSize(nSize) ==
  IF nSize < Markers[1] THEN <<nSize>>
  ELSE LET i == Narrowest(nSize)
       IN  <<Markers[i]>> \o Reverse(DigitsOf(nSize, Bytes, FixedSize(i)))

\* A size that is too large has been taken out when it is refused.
Sized(r) ==
  LET n == ValueOf(Reverse(r.value), Bytes) IN [r EXCEPT !.fOk = @ /\ n <= MaxCompactSize, !.value = n]
SizeFrom(chSize) ==
  IF ~chSize.fOk \/ chSize.value[1] < Markers[1] THEN Sized(chSize)
  ELSE Sized(Read(chSize.stream, FixedSize(chSize.value[1] - Markers[1] + 1)))
ReadCompactSize(s) == SizeFrom(Read(s, 1))

----------------------------------------------------------------------------
(* Containers: their size, and one item after another.  A type is a record,  *)
(* for the templates of the code.                                            *)

ByteType   == [is |-> "byte"]
StringType == [is |-> "string"]
BytesType  == [is |-> "bytes"] \* a vector of bytes
VectorOf(type)     == [is |-> "vector", of |-> type]
PairOf(first, second) == [is |-> "pair", first |-> first, second |-> second]
MapOf(key, value)  == [is |-> "map", key |-> key, value |-> value]
SetOf(key)         == [is |-> "set", key |-> key]

RECURSIVE WriteAs(_, _), ReadAs(_, _)

\* Of one item after another both count, unless reading has failed.
Then(r, item, both) ==
  IF ~r.fOk THEN r ELSE [item EXCEPT !.value = IF item.fOk THEN both ELSE <<>>]
Joined(r, item) == Then(r, item, r.value \o item.value)
WithItem(r, item) == Then(r, item, Append(r.value, item.value))
Paired(first, second) == Then(first, second, <<first.value, second.value>>)
Emptied(nSize) == [nSize EXCEPT !.value = <<>>]
Times(n) == [i \in 1..n |-> i]

WriteString(str) == WriteCompactSize(Len(str)) \o str
StringFrom(nSize) ==
  IF ~nSize.fOk \/ nSize.value = 0 THEN Emptied(nSize)
  ELSE Joined(Emptied(nSize), Read(nSize.stream, nSize.value))
ReadString(s) == StringFrom(ReadCompactSize(s))

\* A vector of bytes grows by a block at a time, whatever its size is said to be.
BlocksFrom(nSize) ==
  LET blk(i) == IF i * BlockSize <= nSize.value THEN BlockSize ELSE nSize.value % BlockSize
      Block(r, i) == Joined(r, Read(r.stream, blk(i)))
  IN  IF ~nSize.fOk THEN nSize
      ELSE FoldLeft(Block, Emptied(nSize), Times((nSize.value + BlockSize - 1) \div BlockSize))
ReadBlocks(s) == BlocksFrom(ReadCompactSize(s))

SizeOfStrings(v) ==
  GetSizeOfCompactSize(Len(v)) + FoldLeft(LAMBDA n, str : n + GetSizeOfCompactSize(Len(str)) + Len(str), 0, v)
WriteVector(v, type) ==
  WriteCompactSize(Len(v)) \o FlattenSeq([i \in DOMAIN v |-> WriteAs(v[i], type)])
ItemsFrom(nSize, type) ==
  LET Item(r, i) == WithItem(r, ReadAs(r.stream, type))
  IN  IF ~nSize.fOk THEN nSize ELSE FoldLeft(Item, Emptied(nSize), Times(nSize.value))
ReadVector(s, type) == ItemsFrom(ReadCompactSize(s), type)

WritePair(p, type) == WriteAs(p[1], type.first) \o WriteAs(p[2], type.second)
PairFrom(first, type) == Paired(first, ReadAs(first.stream, type.second))
ReadPair(s, type) == PairFrom(ReadAs(s, type.first), type)

\* Maps and sets are written in the order of their keys; of two items of one key
\* the first one read is kept.
InOrder(S) == SetToSortSeq(S, <)
WriteMap(m, type) ==
  WriteVector([i \in 1..Cardinality(DOMAIN m) |-> <<InOrder(DOMAIN m)[i], m[InOrder(DOMAIN m)[i]]>>],
              PairOf(type.key, type.value))
MapFrom(r) ==
  LET FirstOf(k) == r.value[SelectInSeq(r.value, LAMBDA p : p[1] = k)][2]
  IN  IF ~r.fOk THEN r ELSE [r EXCEPT !.value = [k \in {p[1] : p \in ToSet(@)} |-> FirstOf(k)]]
ReadMap(s, type) == MapFrom(ReadVector(s, PairOf(type.key, type.value)))
WriteSet(S, type) == WriteVector(InOrder(S), type.key)
SetFrom(r) == IF ~r.fOk THEN r ELSE [r EXCEPT !.value = ToSet(@)]
ReadSet(s, type) == SetFrom(ReadVector(s, type.key))

\* Which of them the compiler takes.
WriteAs(x, type) ==
  CASE type.is = "byte" -> <<x>>
    [] type.is \in {"string", "bytes"} -> WriteString(x)
    [] type.is = "vector" -> WriteVector(x, type.of)
    [] type.is = "pair" -> WritePair(x, type)
    [] type.is = "map" -> WriteMap(x, type)
    [] type.is = "set" -> WriteSet(x, type)
ReadAs(s, type) ==
  CASE type.is = "byte" -> LET r == Read(s, 1) IN Then(r, r, r.value[1])
    [] type.is = "string" -> ReadString(s)
    [] type.is = "bytes" -> ReadBlocks(s)
    [] type.is = "vector" -> ReadVector(s, type.of)
    [] type.is = "pair" -> ReadPair(s, type)
    [] type.is = "map" -> ReadMap(s, type)
    [] type.is = "set" -> ReadSet(s, type)

----------------------------------------------------------------------------

\* Bytes written in an alphabet are read back as they were, and so is an address,
\* but on the other network (util.cpp, base58.h).
BytesReadBack(bytes) ==
  /\ DecodeBase64(EncodeBase64(bytes)) = [bytes |-> bytes, fInvalid |-> FALSE]
  /\ DecodeBase32(EncodeBase32(bytes)) = [bytes |-> bytes, fInvalid |-> FALSE]
  /\ (\A i \in DOMAIN bytes : bytes[i] < Bytes)
     => /\ ParseHex(HexStr(bytes)) = bytes /\ (bytes # <<>> => IsHex(HexStr(bytes)))
        /\ DecodeBase58(EncodeBase58(bytes)) = [fOk |-> TRUE, bytes |-> bytes]
        /\ DecodeBase58Check(EncodeBase58Check(bytes)) = [fOk |-> TRUE, bytes |-> bytes]
        /\ Len(bytes) = HashSize =>
             \A kind \in DOMAIN Versions, testNet, other \in BOOLEAN :
               GetAddress(SetString(ToString58(SetAddress(kind, bytes, testNet))), other)
                 = IF other = testNet THEN [kind |-> kind, hash |-> bytes]
                   ELSE [kind |-> "none", hash |-> <<>>]

\* A text that is taken as valid is the one text its bytes are written as, but for
\* spaces around it and what follows the padding.
TextIsCanonical(text) ==
  LET b64 == DecodeBase64(text)
      b32 == DecodeBase32(text)
      b58 == DecodeBase58(text)
      spaceless == SelectSeq(text, LAMBDA c : c # Space)
      inBase(base) == \A i \in DOMAIN text : text[i] < base
  IN  /\ inBase(64) /\ ~b64.fInvalid => IsPrefix(EncodeBase64(b64.bytes), text)
      /\ inBase(32) /\ ~b32.fInvalid => IsPrefix(EncodeBase32(b32.bytes), text)
      /\ inBase(HexBase) /\ IsHex(text) => HexStr(ParseHex(text)) = text
      /\ inBase(Base58) /\ b58.fOk =>
           EncodeBase58(b58.bytes) = spaceless

\* An amount is read back as it was, to the last decimal, unless it has more digits
\* than are read; and a text that is read is worth what its digits say.
MoneyReadsBack(n, text) ==
  /\ LET parsed == ParseMoney(FormatMoney(n, FALSE))
     IN  n \in 0..(10 ^ MaxWhole * COIN - 1) => parsed = [fOk |-> TRUE, n |-> n]
  /\ n < 0 => ~ParseMoney(FormatMoney(n, FALSE)).fOk
  /\ LET digits == SelectSeq(text, IsDigit)
         decimals == IF Point \in ToSet(text)
                     THEN Len(SelectSeq(SubSeq(text, SelectInSeq(text, LAMBDA c : c = Point), Len(text)), IsDigit)) ELSE 0
     IN  ParseMoney(text).fOk =>
           decimals <= nDecimals /\ ParseMoney(text).n = ValueOf(digits, 10) * 10 ^ (nDecimals - decimals)

\* A size is read back, unless it is too large to be believed.
SizeReadsBack(nSize, next) ==
  LET read == ReadCompactSize(StreamOf(WriteCompactSize(nSize) \o next))
  IN  /\ Len(WriteCompactSize(nSize)) = GetSizeOfCompactSize(nSize)
      /\ read.fOk = (nSize <= MaxCompactSize)
      /\ read.fOk => read.value = nSize /\ Unread(read.stream) = next

\* What was written is read back, and what follows is left; what is cut off at any
\* place is not read at all.
IsRead(r, x, next) == r.fOk /\ r.value = x /\ Unread(r.stream) = next
AllRead(bytes, x, type, next) ==
  /\ IsRead(ReadAs(StreamOf(bytes \o next), type), x, next)
  /\ \A n \in 0..(Len(bytes) - 1) : ~ReadAs(StreamOf(SubSeq(bytes, 1, n)), type).fOk
ReadsBack(x, type, next) == AllRead(WriteAs(x, type), x, type, next)

\* Strings, vectors of bytes and of strings, maps and sets are read back, and
\* take the bytes they were counted with (serialize.h).
ContainersReadBack(strings, keys, next) ==
  LET m == [k \in keys |-> strings[(k % Len(strings)) + 1]]
      items == <<<<Last(strings), StringType>>, <<Last(strings), BytesType>>,
                 <<strings, VectorOf(StringType)>>, <<strings, VectorOf(BytesType)>>,
                 <<m, MapOf(ByteType, StringType)>>, <<keys, SetOf(ByteType)>>>>
  IN  /\ \A i \in DOMAIN items : ReadsBack(items[i][1], items[i][2], next)
      /\ Len(WriteVector(strings, StringType)) = SizeOfStrings(strings)
=============================================================================
