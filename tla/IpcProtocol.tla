----------------------------- MODULE IpcProtocol -----------------------------
(***************************************************************************)
(* IpcProtocol.cpp: a message is sent as a header of four bytes, which is  *)
(* the size of its body in big-endian order, and the body.                 *)
(*                                                                         *)
(* A byte is a digit to the base Byte, so that a small base makes messages *)
(* of more than 2^32 bytes small enough to check.                          *)
(***************************************************************************)
EXTENDS Naturals

CONSTANTS Byte,               \* the values of a byte: 256 in the code
          MaxIpcMessageSize   \* 1024 * 1024 in the code

ASSUME ByteAssumption    == Byte \in Nat \ {0, 1}
ASSUME MaxSizeAssumption == MaxIpcMessageSize \in 1 .. Byte * Byte * Byte * Byte - 1

Word   == Byte * Byte * Byte * Byte   \* the values of a uint32_t
Digit  == 0 .. Byte - 1
Header == Digit \X Digit \X Digit \X Digit

EncodeLength(value) ==
  LET high == value \div Byte
      higher == high \div Byte
      highest == higher \div Byte
  IN  <<highest % Byte, higher % Byte, high % Byte, value % Byte>>

DecodeLength(header) ==
  ((header[1] * Byte + header[2]) * Byte + header[3]) * Byte + header[4]

IsValidMessageSize(size) == size > 0 /\ size <= MaxIpcMessageSize

(* makeFrame casts the size to 32 bits before it checks it: a message that *)
(* is too large by a multiple of 2^32 passes, with a header that is short. *)
Cast(size)             == size % Word
MakeFrameThrows(size)  == ~IsValidMessageSize(Cast(size))
FrameHeader(size)      == EncodeLength(Cast(size))
=============================================================================
