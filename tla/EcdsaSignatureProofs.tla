------------------------- MODULE EcdsaSignatureProofs -------------------------
(***************************************************************************)
(* Theorems about EcdsaSignature for every width, coordinate and encoding. *)
(* Both strings are compared digit by digit from their ends, so no         *)
(* induction on the bytes is needed.                                       *)
(***************************************************************************)
EXTENDS EcdsaSignature, NaturalsInduction, WellFoundedInduction, TLAPS

\* Two strings are one number in every digit, also beyond both of them.
SameDigits(a, b) == \A k \in Nat : Digit(a, k) = Digit(b, k)

LEMMA SameNumberDigits ==
  ASSUME NEW a \in Seq(Byte), NEW b \in Seq(Byte), SameNumber(a, b)
  PROVE  SameDigits(a, b)
BY DEF SameNumber, SameDigits, Digit

LEMMA CoordinateIsString ==
  ASSUME NEW width \in Nat, NEW c \in Coordinates(width)
  PROVE  c \in Seq(Byte) /\ Len(c) = width
BY DEF Coordinates

\* The loop of removeLeadingZeros stops.
LEMMA SomewhereItStops ==
  ASSUME NEW bytes \in Seq(Byte), bytes # <<>>
  PROVE  \E i \in 1..Len(bytes) : Stops(bytes, i)
<1> DEFINE Ends == {i \in 1..Len(bytes) : i = Len(bytes) \/ bytes[i] # 0}
<1>1. Len(bytes) \in Nat /\ Len(bytes) > 0
  OBVIOUS
<1>2. Ends \subseteq Nat /\ Len(bytes) \in Ends
  BY <1>1
<1>3. PICK i \in Ends : \A j \in Ends : <<j, i>> \notin OpToRel(<, Nat)
  BY <1>2, NatLessThanWellFounded, WFMin
<1>4. \A j \in 1..(i - 1) : bytes[j] = 0
  <2> SUFFICES ASSUME NEW j \in 1..(i - 1), bytes[j] # 0 PROVE FALSE
    OBVIOUS
  <2>1. j \in Ends /\ j \in Nat /\ i \in Nat /\ j < i
    BY <1>1
  <2> QED
    BY <1>3, <2>1 DEF OpToRel
<1> QED
  BY <1>4 DEF Stops

\* Removing leading zeros leaves a number as it is and at least one byte, the
\* first of several not a zero.
LEMMA Stripped ==
  ASSUME NEW bytes \in Seq(Byte), bytes # <<>>
  PROVE  LET out == RemoveLeadingZeros(bytes) IN
           /\ out \in Seq(Byte) /\ Len(out) \in Nat \ {0}
           /\ SameDigits(out, bytes)
           /\ Len(out) > 1 => out[1] # 0
<1> DEFINE n == Len(bytes)
           i == CHOOSE i \in 1..n : Stops(bytes, i)
           out == SubSeq(bytes, i, n)
<1>1. RemoveLeadingZeros(bytes) = out
  BY DEF RemoveLeadingZeros
<1>2. n \in Nat /\ n > 0 /\ \A k \in 1..n : bytes[k] \in Byte
  OBVIOUS
<1>3. i \in 1..n /\ Stops(bytes, i)
  BY SomewhereItStops
<1> HIDE DEF i
<1>4. /\ out \in Seq(Byte) /\ Len(out) = n - i + 1
      /\ \A k \in 1..(n - i + 1) : out[k] = bytes[i + k - 1]
  BY <1>2, <1>3
<1> HIDE DEF out
<1>5. Len(out) > 1 => out[1] # 0
  BY <1>2, <1>3, <1>4 DEF Stops
<1>6. ASSUME NEW k \in Nat PROVE Digit(out, k) = Digit(bytes, k)
  <2>1. CASE k < n - i + 1
    <3>1. Digit(out, k) = out[n - i + 1 - k] /\ Digit(bytes, k) = bytes[n - k]
      BY <1>2, <1>3, <1>4, <2>1 DEF Digit
    <3>2. n - i + 1 - k \in 1..(n - i + 1) /\ i + (n - i + 1 - k) - 1 = n - k
      BY <1>2, <1>3, <2>1
    <3> QED
      BY <1>4, <3>1, <3>2
  <2>2. CASE k >= n - i + 1 /\ k < n
    <3>1. n - k \in 1..(i - 1)
      BY <1>2, <1>3, <2>2
    <3>2. bytes[n - k] = 0
      BY <1>3, <3>1 DEF Stops
    <3> QED
      BY <1>2, <1>3, <1>4, <2>2, <3>2 DEF Digit
  <2>3. CASE k >= n
    BY <1>2, <1>3, <1>4, <2>3 DEF Digit
  <2> QED
    BY <1>2, <1>3, <2>1, <2>2, <2>3
<1> QED
  BY <1>1, <1>2, <1>3, <1>4, <1>5, <1>6 DEF SameDigits

\* Brought to a coordinate's width, a string of the same number is the coordinate.
LEMMA Padded ==
  ASSUME NEW width \in Nat, NEW c \in Coordinates(width), NEW bytes \in Seq(Byte), SameDigits(bytes, c)
  PROVE  PadToLength(bytes, width) = c
<1> DEFINE n == Len(bytes)
           missing == width - n
           out == [k \in 1..width |-> IF k <= missing THEN 0 ELSE bytes[k - missing]]
<1>1. PadToLength(bytes, width) = out
  BY DEF PadToLength
<1>2. n \in Nat /\ Len(c) = width /\ c \in [1..width -> Byte]
  BY CoordinateIsString DEF Coordinates
<1>3. ASSUME NEW k \in 1..width PROVE out[k] = c[k]
  <2>1. width - k \in Nat /\ width - k < width /\ width - (width - k) = k
    OBVIOUS
  <2>2. Digit(c, width - k) = c[k]
    BY <1>2, <2>1 DEF Digit
  <2>3. Digit(bytes, width - k) = c[k]
    BY <2>1, <2>2 DEF SameDigits
  <2>4. CASE k <= missing
    BY <1>2, <2>1, <2>3, <2>4 DEF Digit
  <2>5. CASE k > missing
    <3>1. width - k < n /\ n - (width - k) = k - missing
      BY <1>2, <2>5
    <3> QED
      BY <1>2, <2>3, <2>5, <3>1 DEF Digit
  <2> QED
    BY <1>2, <2>4, <2>5
<1> QED
  BY <1>1, <1>2, <1>3

\* What the two steps make of an encoded coordinate.
LEMMA Converted ==
  ASSUME NEW width \in Nat \ {0}, NEW c \in Coordinates(width), NEW der \in Seq(Byte), Encodes(der, c)
  PROVE  /\ PadToLength(RemoveLeadingZeros(der), width) = c
         /\ RemoveLeadingZeros(der) \in Seq(Byte)
         /\ Len(RemoveLeadingZeros(der)) \in 1..width
         /\ (Len(RemoveLeadingZeros(der)) = width) <=> (width = 1 \/ c[1] # 0)
<1> DEFINE out == RemoveLeadingZeros(der)
           n == Len(out)
<1>1. c \in Seq(Byte) /\ Len(c) = width /\ c \in [1..width -> Byte]
  BY CoordinateIsString DEF Coordinates
<1>2. out \in Seq(Byte) /\ n \in Nat \ {0} /\ SameDigits(out, der) /\ (n > 1 => out[1] # 0)
  BY Stripped DEF Encodes
<1>3. SameDigits(out, c)
  BY <1>1, <1>2, SameNumberDigits DEF Encodes, SameDigits
<1> HIDE DEF out
<1>4. PadToLength(out, width) = c
  BY <1>2, <1>3, Padded
<1>5. Digit(out, n - 1) = out[1] /\ n - 1 \in Nat
  BY <1>2 DEF Digit
<1>6. Digit(c, n - 1) = out[1]
  BY <1>3, <1>5 DEF SameDigits
<1>7. n <= width
  <2> SUFFICES ASSUME n > width PROVE FALSE
    BY <1>2
  <2>1. Digit(c, n - 1) = 0
    BY <1>1, <1>2 DEF Digit
  <2> QED
    BY <1>2, <1>6, <2>1
<1>8. Digit(c, width - 1) = c[1] /\ Digit(out, width - 1) = c[1]
  <2>1. Digit(c, width - 1) = c[1] /\ width - 1 \in Nat
    BY <1>1 DEF Digit
  <2> QED
    BY <1>3, <2>1 DEF SameDigits
<1>9. (n = width) <=> (width = 1 \/ c[1] # 0)
  <2>1. ASSUME n = width, width # 1 PROVE c[1] # 0
    BY <1>2, <1>5, <1>8, <2>1
  <2>2. ASSUME c[1] # 0 PROVE n = width
    <3> SUFFICES ASSUME n < width PROVE FALSE
      BY <1>2, <1>7
    <3>1. Digit(out, width - 1) = 0
      BY <1>2 DEF Digit
    <3> QED
      BY <1>8, <2>2, <3>1
  <2>3. ASSUME width = 1 PROVE n = width
    <3>1. n \in Nat \ {0} /\ n <= 1
      BY <1>2, <1>7, <2>3
    <3> HIDE DEF n
    <3> QED
      BY <2>3, <3>1
  <2> HIDE DEF n
  <2> QED
    BY <2>1, <2>2, <2>3
<1> QED
  BY <1>2, <1>4, <1>7, <1>9 DEF out

\* The output is as long as two coordinates of the size it is asked for.
LEMMA Widths ==
  ASSUME NEW a \in Seq(Byte), NEW b \in Seq(Byte), NEW size \in Nat
  PROVE  Len(PadToLength(a, size) \o PadToLength(b, size)) = size + size
<1>1. ASSUME NEW bytes \in Seq(Byte)
      PROVE  PadToLength(bytes, size) \in Seq(Byte) /\ Len(PadToLength(bytes, size)) = size
  <2> DEFINE out == [k \in 1..size |-> IF k <= size - Len(bytes) THEN 0 ELSE bytes[k - (size - Len(bytes))]]
  <2>1. ASSUME NEW k \in 1..size PROVE out[k] \in Byte
    <3>1. CASE k <= size - Len(bytes)
      BY <3>1 DEF Byte
    <3>2. CASE k > size - Len(bytes)
      <4>1. k - (size - Len(bytes)) \in 1..Len(bytes)
        BY <3>2
      <4> QED
        BY <3>2, <4>1
    <3> QED
      BY <3>1, <3>2
  <2>2. out \in [1..size -> Byte]
    BY <2>1
  <2> QED
    BY <2>2 DEF PadToLength
<1> QED
  BY <1>1

LEMMA WithWidth ==
  ASSUME NEW width \in Nat \ {0}, NEW r \in Coordinates(width), NEW s \in Coordinates(width),
         NEW derR \in Seq(Byte), NEW derS \in Seq(Byte), Encodes(derR, r), Encodes(derS, s),
         NEW size, KeySize(derR, derS, size) = width
  PROVE  RawSignature(derR, derS, size) = r \o s
BY Converted DEF RawSignature

\* A signature by a key on a supported curve reaches Web Crypto as its two
\* coordinates, in the width of the issuer's curve: whatever zeros they start
\* with, and whatever zeros their DER integers have or lack
\* (derToRawEcdsaSignature under the size verifyCertificateIssuedBy passes).
THEOREM SignatureIsKept ==
  ASSUME NEW curve \in Curves, NEW width, width = CoordinateSize(curve),
         NEW r \in Coordinates(width), NEW s \in Coordinates(width),
         NEW derR \in Seq(Byte), NEW derS \in Seq(Byte), Encodes(derR, r), Encodes(derS, s)
  PROVE  RawSignature(derR, derS, width) = r \o s /\ Len(RawSignature(derR, derS, width)) = 2 * width
<1>1. width \in Nat \ {0}
  BY DEF Curves, CoordinateSize
<1>2. KeySize(derR, derS, width) = width
  BY <1>1 DEF KeySize
<1>3. RawSignature(derR, derS, width) = r \o s
  BY <1>1, <1>2, WithWidth
<1>4. r \in Seq(Byte) /\ s \in Seq(Byte) /\ Len(r) = width /\ Len(s) = width
  BY <1>1, CoordinateIsString
<1>5. Len(r \o s) = width + width
  BY <1>4
<1>6. width + width = 2 * width
  BY <1>1
<1> QED
  BY <1>3, <1>5, <1>6

\* Without a size the width is inferred, and is right exactly when one of the
\* coordinates starts with a byte that is not zero.  (The comment on
\* derToRawEcdsaSignature asks that of both, more than is needed.)
THEOREM InferredWidthSuffices ==
  ASSUME NEW width \in Nat \ {0}, NEW r \in Coordinates(width), NEW s \in Coordinates(width),
         NEW derR \in Seq(Byte), NEW derS \in Seq(Byte), Encodes(derR, r), Encodes(derS, s)
  PROVE  (RawSignature(derR, derS, 0) = r \o s) <=> (width = 1 \/ r[1] # 0 \/ s[1] # 0)
<1> DEFINE a == RemoveLeadingZeros(derR)
           b == RemoveLeadingZeros(derS)
           size == KeySize(derR, derS, 0)
<1>1. /\ a \in Seq(Byte) /\ b \in Seq(Byte)
      /\ Len(a) \in 1..width /\ (Len(a) = width <=> (width = 1 \/ r[1] # 0))
      /\ Len(b) \in 1..width /\ (Len(b) = width <=> (width = 1 \/ s[1] # 0))
  BY Converted
<1>2. size = IF Len(a) >= Len(b) THEN Len(a) ELSE Len(b)
  BY DEF KeySize
<1> HIDE DEF a, b, size
<1>3. size \in 1..width /\ ((size = width) <=> (Len(a) = width \/ Len(b) = width))
  BY <1>1, <1>2
<1>4. CASE size = width
  BY <1>1, <1>3, <1>4, WithWidth DEF size
<1>5. CASE size # width
  <2>1. RawSignature(derR, derS, 0) = PadToLength(a, size) \o PadToLength(b, size)
    BY DEF RawSignature, a, b, size
  <2>2. Len(RawSignature(derR, derS, 0)) = size + size
    BY <1>1, <1>3, <2>1, Widths
  <2>3. Len(r \o s) = width + width
    <3>1. r \in Seq(Byte) /\ s \in Seq(Byte) /\ Len(r) = width /\ Len(s) = width
      BY CoordinateIsString
    <3> QED
      BY <3>1
  <2>4. size + size # width + width
    BY <1>3, <1>5
  <2>5. ~(width = 1 \/ r[1] # 0 \/ s[1] # 0)
    BY <1>1, <1>3, <1>5
  <2> QED
    BY <2>2, <2>3, <2>4, <2>5
<1> QED
  BY <1>4, <1>5
=============================================================================
