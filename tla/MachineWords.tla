---------------------------- MODULE MachineWords ----------------------------
(***************************************************************************)
(* The std::uint8_t and std::uint16_t arithmetic of cpp65.  A byte is a    *)
(* number below 2^8 and a word a number below 2^16; every narrowing cast   *)
(* of the code is Wrap8 or Wrap16.  Bitwise operations go through the set  *)
(* of bit positions that are 1, so that & is intersection, | is union and  *)
(* ^ is symmetric difference.                                              *)
(***************************************************************************)
EXTENDS Integers

Byte == 0 .. 255
Word == {w \in Nat : w < 65536}

Wrap8(n)  == n % 256
Wrap16(n) == n % 65536

Low(w)  == w % 256
High(w) == w \div 256

\* lo | (hi << 8), for two bytes.
Pair(lo, hi) == lo + 256 * hi

LowNibble(b)  == b % 16
HighNibble(b) == b - (b % 16)

SamePage(v, w) == High(v) = High(w)

SignBit(b) == b >= 128

\* A mutant of SignExtend: $80 is taken for a positive offset.
SignExtendAfter128(b) == IF b > 128 THEN b + 65280 ELSE b

\* A branch offset is a signed byte, kept as a word: $80..$FF become $FF80..$FFFF.
SignExtend(b) == IF SignBit(b) THEN b + 65280 ELSE b

-----------------------------------------------------------------------------
Bits(b) == {i \in 0 .. 7 : (b \div <<1, 2, 4, 8, 16, 32, 64, 128>>[i + 1]) % 2 = 1}

FromBits(S) ==
    (IF 0 \in S THEN 1 ELSE 0)  + (IF 1 \in S THEN 2 ELSE 0)
  + (IF 2 \in S THEN 4 ELSE 0)  + (IF 3 \in S THEN 8 ELSE 0)
  + (IF 4 \in S THEN 16 ELSE 0) + (IF 5 \in S THEN 32 ELSE 0)
  + (IF 6 \in S THEN 64 ELSE 0) + (IF 7 \in S THEN 128 ELSE 0)

BitAnd(b, c) == FromBits(Bits(b) \cap Bits(c))
BitOr(b, c)  == FromBits(Bits(b) \cup Bits(c))
BitXor(b, c) == FromBits((Bits(b) \cup Bits(c)) \ (Bits(b) \cap Bits(c)))

\* b & ~c
BitClear(b, c) == FromBits(Bits(b) \ Bits(c))
=============================================================================
