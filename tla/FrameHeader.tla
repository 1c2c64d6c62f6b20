---------------------------- MODULE FrameHeader -----------------------------
(***************************************************************************)
(* The header that ClientConnection::createHeader() puts in front of a     *)
(* payload, and how a client reads it (RFC 6455, section 5.2).  Frames of  *)
(* the server are not masked.                                              *)
(***************************************************************************)
EXTENDS Integers, Sequences

CONSTANTS
  Short,     \* the first length that does not fit into the second byte, 126
  Medium     \* the first length that is written with four bytes, 0xFFFF

ASSUME LengthsAssumption ==
  /\ Short \in 1..126
  /\ Medium \in Short..65536

\* WSopcode_t
Continuation == 0
Text == 1
Close == 8

\* n >> 8, and n & 0xFF
Shift(n) == n \div 256
LowByte(n) == n % 256

\* Mutant: the two bytes of a length are swapped.
HeaderBytesSwapped(first, length) ==
  IF length < Short THEN <<first, length>>
  ELSE IF length < Medium
  THEN <<first, 126, LowByte(length), LowByte(Shift(length))>>
  ELSE <<first, 127, 0, 0, 0, 0,
         LowByte(Shift(Shift(Shift(length)))), LowByte(Shift(Shift(length))),
         LowByte(Shift(length)), LowByte(length)>>

\* The first byte, and the length after it.
HeaderBytes(first, length) ==
  IF length < Short THEN <<first, length>>
  ELSE IF length < Medium
  THEN <<first, 126, LowByte(Shift(length)), LowByte(length)>>
  ELSE <<first, 127, 0, 0, 0, 0,
         LowByte(Shift(Shift(Shift(length)))), LowByte(Shift(Shift(length))),
         LowByte(Shift(length)), LowByte(length)>>

\* createHeader()
CreateHeader(opcode, length, fin) ==
  HeaderBytes((IF fin THEN 128 ELSE 0) + opcode, length)

\* The size that sendFrame() computes once more.
HeaderSize(length) ==
  IF length < Short THEN 2 ELSE IF length < Medium THEN 4 ELSE 10

-----------------------------------------------------------------------------
(* The client, external.                                                   *)

\* The number that stands in two or four bytes, from the i-th on.
Number2(h, i) == 256 * h[i] + h[i + 1]
Number4(h, i) == 256 * (256 * Number2(h, i) + h[i + 2]) + h[i + 3]

\* The header that h begins with; lengths of 2^32 and more are none.
DecodedSize(h) == IF h[2] = 126 THEN 4 ELSE IF h[2] = 127 THEN 10 ELSE 2
DecodedLength(h) ==
  IF h[2] = 126 THEN Number2(h, 3)
  ELSE IF h[2] # 127 THEN h[2]
  ELSE IF \A i \in 3..6 : h[i] = 0 THEN Number4(h, 7) ELSE -1
Decode(h) ==
  [opcode |-> h[1] % 128, fin |-> h[1] >= 128, length |-> DecodedLength(h)]
=============================================================================
