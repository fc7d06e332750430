------------------------------- MODULE Numbers -------------------------------
(***************************************************************************)
(* The numbers hashes and amounts of work are computed with: base_uint of  *)
(* uint256.h, an array of limbs, and the conversions of CBigNum through    *)
(* the MPI format of OpenSSL (bignum.h).  A CBigNum itself is an integer.  *)
(*                                                                         *)
(* A limb is a byte here, and a byte two hex digits of half its bits.      *)
(***************************************************************************)
EXTENDS Integers, Sequences, FiniteSets, SequencesExt

CONSTANTS
  ByteBits,    \* 8
  WIDTH,       \* limbs of a base_uint
  WORD         \* of them, those of a uint64

ASSUME NumbersAssumption == {ByteBits \div 2, WIDTH, WORD} \subseteq Nat \ {0} /\ WORD <= WIDTH

Bytes == 2 ^ ByteBits
HexBase == 2 ^ (ByteBits \div 2)
Modulus == Bytes ^ WIDTH

\* Characters: digits are their values.
Space == -1
Other == -2
X == -3
Minus == -4
IsDigit(c) == c >= 0
DigitsOf(n, base, size) == [i \in 1..size |-> (n \div base ^ (size - i)) % base]
ValueOf(digits, base) == FoldLeft(LAMBDA n, d : n * base + d, 0, digits)

MaxDigits == 9 \* bound: what is written has fewer digits than this
LengthIn(n, base) == Cardinality({i \in 0..MaxDigits : base ^ i <= n})

\* What is left of a text once it is read up to a character that does not fit.
Leading(text, Fits(_)) ==
  LET n == SelectInSeq(text, LAMBDA c : ~Fits(c)) IN SubSeq(text, 1, IF n = 0 THEN Len(text) ELSE n - 1)
After(text, Fits(_)) == SubSeq(text, Len(Leading(text, Fits)) + 1, Len(text))
Unspaced(text) == After(text, LAMBDA c : c = Space)

\* Leading spaces and an 0x are skipped, and then all is read that is a digit.
HexDigits(text) ==
  LET t == Unspaced(text)
      x == IF Len(t) >= 2 /\ t[1] = 0 /\ t[2] = X THEN 2 ELSE 0
  IN  Leading(SubSeq(t, x + 1, Len(t)), IsDigit)

----------------------------------------------------------------------------
(* base_uint: the limbs, lowest first. *)

Uint(n) == Reverse(DigitsOf(n, Bytes, WIDTH))
Nat256(pn) == ValueOf(Reverse(pn), Bytes)

Complement(pn) == [i \in 1..WIDTH |-> Bytes - 1 - pn[i]]

\* ++: on to the next limb while one becomes 0.  --: while one becomes the last.
Increment(pn) ==
  [i \in 1..WIDTH |-> IF \A j \in 1..(i - 1) : pn[j] = Bytes - 1 THEN (pn[i] + 1) % Bytes ELSE pn[i]]
Decrement(pn) ==
  [i \in 1..WIDTH |-> IF \A j \in 1..(i - 1) : pn[j] = 0 THEN (pn[i] - 1) % Bytes ELSE pn[i]]

Negative(pn) == Increment(Complement(pn))

Plus(a, b) ==
  LET Limb(r, i) ==
        LET n == r.carry + a[i] + b[i] IN [pn |-> Append(r.pn, n % Bytes), carry |-> n \div Bytes]
  IN  FoldLeft(Limb, [pn |-> <<>>, carry |-> 0], [i \in 1..WIDTH |-> i]).pn
Difference(a, b) == Plus(a, Negative(b))

\* A limb of the result has bits of two limbs, unless whole limbs are shifted.
ShiftLeft(a, shift) ==
  LET k == shift \div ByteBits
      s == shift % ByteBits
      Limb(i) == IF i \in 1..WIDTH THEN a[i] ELSE 0
  IN  [i \in 1..WIDTH |-> ((Limb(i - k) * 2 ^ s) % Bytes)
                          + (IF s # 0 THEN Limb(i - k - 1) \div 2 ^ (ByteBits - s) ELSE 0)]
ShiftRight(a, shift) ==
  LET k == shift \div ByteBits
      s == shift % ByteBits
      Limb(i) == IF i \in 1..WIDTH THEN a[i] ELSE 0
  IN  [i \in 1..WIDTH |-> Limb(i + k) \div 2 ^ s
                          + (IF s # 0 THEN ((Limb(i + k + 1) * 2 ^ (ByteBits - s)) % Bytes) ELSE 0)]

\* The highest limb that differs decides.
Less(a, b) == \E i \in 1..WIDTH : a[i] < b[i] /\ \A j \in (i + 1)..WIDTH : a[j] = b[j]
AtMost(a, b) == Less(a, b) \/ \A i \in 1..WIDTH : a[i] = b[i]

OfWord(n) == [i \in 1..WIDTH |-> IF i <= WORD THEN (n \div Bytes ^ (i - 1)) % Bytes ELSE 0]
IsWord(pn, n) == \A i \in 1..WIDTH : pn[i] = OfWord(n)[i]

GetHex(pn) == FlattenSeq([i \in 1..WIDTH |-> DigitsOf(pn[WIDTH + 1 - i], HexBase, 2)])

\* Bytes from the end of the digits, while there are any and there is room.
SetHex(text) ==
  LET d == Reverse(HexDigits(text))
      Digit(i) == IF i <= Len(d) THEN d[i] ELSE 0
  IN  [i \in 1..WIDTH |-> Digit(2 * i - 1) + HexBase * Digit(2 * i)]

----------------------------------------------------------------------------
(* CBigNum: the bytes of an MPI number, highest first, start with a sign bit. *)

SignBit == Bytes \div 2
Magnitude(n) == IF n < 0 THEN -n ELSE n

BN_mpi2bn(vch) ==
  IF vch = <<>> THEN 0
  ELSE IF vch[1] >= SignBit THEN -ValueOf([vch EXCEPT ![1] = @ - SignBit], Bytes) ELSE ValueOf(vch, Bytes)
BN_bn2mpi(n) ==
  LET vch == DigitsOf(Magnitude(n), Bytes, LengthIn(Magnitude(n), Bytes))
      sign == IF n < 0 THEN SignBit ELSE 0
  IN  IF vch = <<>> THEN vch
      ELSE IF vch[1] >= SignBit THEN <<sign>> \o vch ELSE [vch EXCEPT ![1] = @ + sign]

\* A byte in front when the first one has its sign bit set already.
FirstByte(c, fNegative) ==
  LET sign == IF fNegative THEN SignBit ELSE 0 IN IF c >= SignBit THEN <<sign, c>> ELSE <<c + sign>>

\* Leading zeros are left out.
ToMpi(bytes, fNegative) ==
  LET c == After(bytes, LAMBDA b : b = 0)
  IN  IF c = <<>> THEN c ELSE FirstByte(c[1], fNegative) \o Tail(c)

\* A negative number is made one less negative first, as the least has no opposite.
SetInt64(sn) ==
  LET n == IF sn < 0 THEN -(sn + 1) + 1 ELSE sn IN BN_mpi2bn(ToMpi(DigitsOf(n, Bytes, WORD), sn < 0))
SetUint64(n) == BN_mpi2bn(ToMpi(DigitsOf(n, Bytes, WORD), FALSE))
SetUint256(pn) == BN_mpi2bn(ToMpi(Reverse(pn), FALSE))

\* The sign is dropped, and what does not fit.
GetUint256(n) ==
  LET mpi == BN_bn2mpi(n)
      vch == IF mpi = <<>> THEN mpi ELSE [mpi EXCEPT ![1] = @ % SignBit]
  IN  [i \in 1..WIDTH |-> IF i <= Len(vch) THEN vch[Len(vch) + 1 - i] ELSE 0]

SetVch(vch) == BN_mpi2bn(Reverse(vch))
GetVch(n) == Reverse(BN_bn2mpi(n))

\* Clamped to the ints.
GetInt(n, max) ==
  IF n >= 0 THEN (IF n > max THEN max ELSE n) ELSE (IF -n > max THEN -max - 1 ELSE n)

\* Zero for all that is less than 2^shift, negative numbers too.
BigShiftRight(n, shift) == IF 2 ^ shift > n THEN 0 ELSE n \div 2 ^ shift

BigToString(n, base) ==
  IF n = 0 THEN <<0>>
  ELSE (IF n < 0 THEN <<Minus>> ELSE <<>>) \o DigitsOf(Magnitude(n), base, LengthIn(Magnitude(n), base))

\* A minus sign, an 0x and spaces again may come before the digits.
BigSetHex(text) ==
  LET t == Unspaced(text)
      fNegative == t # <<>> /\ t[1] = Minus
      u == IF fNegative THEN Tail(t) ELSE t
      x == IF Len(u) >= 2 /\ u[1] = 0 /\ u[2] = X THEN 2 ELSE 0
      n == ValueOf(Leading(Unspaced(SubSeq(u, x + 1, Len(u))), IsDigit), HexBase)
  IN  IF fNegative THEN -n ELSE n

----------------------------------------------------------------------------

\* Limb by limb the numbers are those modulo the width: sums, differences, steps,
\* shifts and comparisons (the operators of base_uint, uint256.h).
LimbsCompute(x, y) ==
  LET a == Uint(x)
      b == Uint(y)
  IN  /\ Nat256(Plus(a, b)) = (x + y) % Modulus /\ Nat256(Difference(a, b)) = (x - y) % Modulus
      /\ Nat256(Increment(a)) = (x + 1) % Modulus /\ Nat256(Decrement(a)) = (x - 1) % Modulus
      /\ \A s \in 0..(ByteBits * WIDTH + 1) :
           /\ Nat256(ShiftLeft(a, s)) = (x * 2 ^ s) % Modulus
           /\ Nat256(ShiftRight(a, s)) = x \div 2 ^ s
      /\ Less(a, b) = (x < y) /\ AtMost(a, b) = (x <= y)
      /\ y < Bytes ^ WORD => (IsWord(a, y) = (x = y)) /\ Nat256(OfWord(y)) = y

\* A number is itself again after any of its other forms, the least one too, and
\* what is too wide loses its high bits only (bignum.h, uint256.h).
FormsAgree(n) ==
  LET int64 == Bytes ^ WORD \div 2
      wide == Magnitude(n) % Modulus
  IN  /\ SetVch(GetVch(n)) = n
      /\ Nat256(GetUint256(n)) = wide /\ SetUint256(Uint(wide)) = wide
      /\ n \in -int64..(int64 - 1) => SetInt64(n) = n
      /\ n \in 0..(2 * int64 - 1) => SetUint64(n) = n
      /\ BigSetHex(BigToString(n, HexBase)) = n
      /\ SetHex(GetHex(Uint(wide))) = Uint(wide)
      /\ n >= 0 => /\ Nat256(SetHex(BigToString(n, HexBase))) = n % Modulus
                   /\ \A s \in 0..4 : BigShiftRight(n, s) = n \div 2 ^ s
      /\ GetInt(n, int64 - 1) = CHOOSE i \in -int64..(int64 - 1) :
                                  \A j \in -int64..(int64 - 1) : Magnitude(n - i) <= Magnitude(n - j)
=============================================================================
