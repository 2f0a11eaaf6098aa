---------------------------- MODULE EcdsaSignature ----------------------------
(***************************************************************************)
(* How typescript/src/x509.ts turns the ECDSA signature of a certificate,  *)
(* two DER integers, into what Web Crypto verifies, two coordinates of the *)
(* curve's width (derToRawEcdsaSignature).  A DER integer drops the zeros  *)
(* a coordinate starts with, and gains one where its first byte would read *)
(* as a sign; neither may move or lose a byte that counts.                 *)
(*                                                                         *)
(* Byte strings are sequences over Byte, most significant byte first.      *)
(***************************************************************************)
EXTENDS Integers, Sequences

Byte == 0..255

Curves == {"P-256", "P-384", "P-521"}

\* ecCoordinateSize: 0 where the issuer's key names no such curve.
CoordinateSize(curve) ==
  CASE curve = "P-256" -> 32 [] curve = "P-384" -> 48 [] curve = "P-521" -> 66 [] OTHER -> 0

\* The position the loop of removeLeadingZeros stops at: it leaves one byte.
Stops(bytes, i) == /\ i = Len(bytes) \/ bytes[i] # 0
                   /\ \A j \in 1..(i - 1) : bytes[j] = 0

RemoveLeadingZeros(bytes) ==
  IF bytes = <<>> THEN <<>>
  ELSE SubSeq(bytes, CHOOSE i \in 1..Len(bytes) : Stops(bytes, i), Len(bytes))

\* padToLength: zeros in front of what is too short; of what is too long, the end.
PadToLength(bytes, length) ==
  LET missing == length - Len(bytes) IN
    [k \in 1..length |-> IF k <= missing THEN 0 ELSE bytes[k - missing]]

\* The coordinate size asked for or, without one, the longer of the two.
KeySize(r, s, coordinateSize) ==
  IF coordinateSize # 0 THEN coordinateSize
  ELSE IF Len(RemoveLeadingZeros(r)) >= Len(RemoveLeadingZeros(s))
       THEN Len(RemoveLeadingZeros(r)) ELSE Len(RemoveLeadingZeros(s))

\* derToRawEcdsaSignature, of the contents r and s of the two DER integers.
RawSignature(r, s, coordinateSize) ==
  LET size == KeySize(r, s, coordinateSize)
  IN PadToLength(RemoveLeadingZeros(r), size) \o PadToLength(RemoveLeadingZeros(s), size)

-----------------------------------------------------------------------------
(* The reference: what it is for two byte strings to be one number.        *)

\* The byte that counts 256^k.
Digit(bytes, k) == IF k < Len(bytes) THEN bytes[Len(bytes) - k] ELSE 0

SameNumber(a, b) == \A k \in 0..(Len(a) + Len(b)) : Digit(a, k) = Digit(b, k)

Coordinates(width) == [1..width -> Byte]

\* The contents a DER integer may have for a coordinate, minimal or not.
Encodes(der, coordinate) == der # <<>> /\ SameNumber(der, coordinate)
=============================================================================
