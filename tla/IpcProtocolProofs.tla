-------------------------- MODULE IpcProtocolProofs --------------------------
(***************************************************************************)
(* What the two ends of a connection make of a header.                     *)
(***************************************************************************)
EXTENDS IpcProtocol, TLAPS

(* Division leaves a remainder that is a digit. *)
LEMMA Division ==
  ASSUME NEW v \in Nat
  PROVE  /\ v \div Byte \in Nat
         /\ v % Byte \in Digit
         /\ ((v \div Byte) * Byte) + (v % Byte) = v
BY ByteAssumption, SMTT(60) DEF Digit

(* A product grows with its first factor. *)
LEMMA Grows ==
  ASSUME NEW a \in Nat, NEW b \in Nat, a <= b
  PROVE  a * Byte <= b * Byte
<1>1. PICK c \in Nat : b = a + c
  BY b - a \in Nat
<1>2. b * Byte = (a * Byte) + (c * Byte)
  BY <1>1, ByteAssumption
<1>3. a * Byte \in Nat /\ c * Byte \in Nat
  BY ByteAssumption
<1> QED
  BY <1>2, <1>3

(* A shift by a byte divides an upper bound. *)
LEMMA Shift ==
  ASSUME NEW v \in Nat, NEW bound \in Nat, v < bound * Byte
  PROVE  v \div Byte < bound
<1> DEFINE q == v \div Byte
<1>1. q \in Nat /\ q * Byte <= v
  BY Division, ByteAssumption DEF Digit
<1> HIDE DEF q
<1>2. SUFFICES ASSUME bound <= q PROVE FALSE
  BY <1>1 DEF q
<1>3. bound * Byte <= q * Byte
  BY <1>1, <1>2, Grows
<1> QED
  BY <1>1, <1>3, ByteAssumption

(* A digit is its own remainder. *)
LEMMA DigitRemainder ==
  ASSUME NEW d \in Digit
  PROVE  d % Byte = d
BY ByteAssumption, SMTT(60) DEF Digit

LEMMA WordType == Word \in Nat
<1>1. Byte * Byte \in Nat
  BY ByteAssumption
<1>2. Byte * Byte * Byte \in Nat
  BY <1>1, ByteAssumption
<1> QED
  BY <1>2, ByteAssumption DEF Word

-----------------------------------------------------------------------------

(* decodeLength reads what encodeLength has written, for every 32-bit size:*)
(* both ends agree on where a message ends.                                *)
THEOREM DecodeEncode ==
  \A value \in 0 .. Word - 1 : /\ EncodeLength(value) \in Header
                               /\ DecodeLength(EncodeLength(value)) = value
<1> SUFFICES ASSUME NEW value \in 0 .. Word - 1
             PROVE  /\ EncodeLength(value) \in Header
                    /\ DecodeLength(EncodeLength(value)) = value
  OBVIOUS
<1> DEFINE high == value \div Byte
           higher == high \div Byte
           highest == higher \div Byte
<1>1. value \in Nat /\ value < Byte * Byte * Byte * Byte
  BY WordType DEF Word
<1>2. Byte \in Nat /\ Byte * Byte \in Nat /\ Byte * Byte * Byte \in Nat
  <2>1. Byte * Byte \in Nat
    BY ByteAssumption
  <2> QED
    BY <2>1, ByteAssumption
<1>3. high \in Nat /\ high < Byte * Byte * Byte
  BY <1>1, <1>2, Shift, Division
<1>4. higher \in Nat /\ higher < Byte * Byte
  <2> HIDE DEF high
  <2> QED
    BY <1>2, <1>3, Shift, Division
<1>5. highest \in Nat /\ highest < Byte
  <2> HIDE DEF high, higher
  <2> QED
    BY <1>2, <1>4, Shift, Division
<1>6. EncodeLength(value) = <<highest, higher % Byte, high % Byte, value % Byte>>
  <2>1. highest \in Digit
    BY <1>2, <1>5 DEF Digit
  <2>2. highest % Byte = highest
    BY <2>1, DigitRemainder
  <2> QED
    BY <2>2 DEF EncodeLength
<1>7. /\ value % Byte \in Digit /\ (high * Byte) + (value % Byte) = value
      /\ high % Byte \in Digit /\ (higher * Byte) + (high % Byte) = high
      /\ higher % Byte \in Digit /\ (highest * Byte) + (higher % Byte) = higher
  <2>1. value % Byte \in Digit /\ (high * Byte) + (value % Byte) = value
    BY <1>1, Division
  <2>2. high % Byte \in Digit /\ (higher * Byte) + (high % Byte) = high
    <3> HIDE DEF high
    <3> QED
      BY <1>3, Division
  <2>3. higher % Byte \in Digit /\ (highest * Byte) + (higher % Byte) = higher
    <3> HIDE DEF high, higher
    <3> QED
      BY <1>4, Division
  <2> QED
    BY <2>1, <2>2, <2>3
<1> HIDE DEF high, higher, highest
<1>8. EncodeLength(value) \in Header
  BY <1>2, <1>5, <1>6, <1>7 DEF Header, Digit
<1>9. DecodeLength(EncodeLength(value)) = value
  BY <1>6, <1>7 DEF DecodeLength
<1> QED
  BY <1>8, <1>9

(* A message below 2^32 bytes that makeFrame accepts is declared with its  *)
(* own size, and one of any size with a size that the other end accepts.   *)
THEOREM FrameTellsSize ==
  \A size \in Nat : ~MakeFrameThrows(size) =>
    /\ IsValidMessageSize(DecodeLength(FrameHeader(size)))
    /\ size < Word => DecodeLength(FrameHeader(size)) = size
<1> SUFFICES ASSUME NEW size \in Nat, ~MakeFrameThrows(size)
             PROVE  /\ IsValidMessageSize(DecodeLength(FrameHeader(size)))
                    /\ size < Word => DecodeLength(FrameHeader(size)) = size
  OBVIOUS
<1>1. Word \in Nat /\ Word > 0
  BY WordType, MaxSizeAssumption DEF Word
<1>2. Cast(size) \in 0 .. Word - 1
  BY <1>1, SMTT(60) DEF Cast
<1>3. DecodeLength(FrameHeader(size)) = Cast(size)
  BY <1>2, DecodeEncode DEF FrameHeader
<1>4. size < Word => Cast(size) = size
  BY <1>1, SMTT(60) DEF Cast
<1> QED
  BY <1>3, <1>4 DEF MakeFrameThrows
=============================================================================
