-------------------------------- MODULE Word --------------------------------
(***************************************************************************)
(* Machine words.  The simulators compute with 32-bit C integers made of   *)
(* four bytes; ByteBits scales them down, everything else is kept: a word  *)
(* is four bytes, a half word and an immediate field are half a word, and  *)
(* arithmetic is modulo 2^W.  A word is written as its unsigned value.     *)
(***************************************************************************)
EXTENDS Integers, Bitwise

CONSTANT ByteBits
ASSUME ByteBits \in Nat \ {0}

W == 4 * ByteBits
H == 2 * ByteBits
Words == 0 .. (2 ^ W - 1)

Trunc(x) == x % 2 ^ W
Negative(x) == x >= 2 ^ (W - 1)
Signed(x) == IF Negative(x) THEN x - 2 ^ W ELSE x
SignExtend(x, bits) == IF x >= 2 ^ (bits - 1) THEN Trunc(x - 2 ^ bits) ELSE x
Neg(x) == Trunc(-x)
Compl(x) == 2 ^ W - 1 - x
Bit(b) == IF b THEN 1 ELSE 0

\* C's <<, >> on int (arithmetic) and >> on unsigned; the host uses the low
\* bits of the shift count only.
Sll(x, n) == Trunc(x * 2 ^ (n % W))
Sra(x, n) == Trunc(Signed(x) \div 2 ^ (n % W))
Srl(x, n) == x \div 2 ^ (n % W)

\* C's / and % on int, which truncate towards zero.
Mag(x) == IF x < 0 THEN -x ELSE x
Quot(a, b) == LET q == Mag(a) \div Mag(b) IN IF (a < 0) = (b < 0) THEN q ELSE -q
Rem(a, b) == a - b * Quot(a, b)
=============================================================================
