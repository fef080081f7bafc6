-------------------------------- MODULE Bits --------------------------------
(* Bytes, 16-bit words and the bitwise operators of C on them, as          *)
(* arithmetic, so that both TLC and the provers can compute with them.      *)
EXTENDS Integers

Byte == 0..255
Word == 0..65535

(* Whether the bit of weight w is set in n.                                 *)
BitSet(n, w) == (n \div w) % 2 = 1

Masked(n, w, keep) == IF BitSet(n, w) /\ keep THEN w ELSE 0

And8(m, n) ==
    Masked(m, 1, BitSet(n, 1)) + Masked(m, 2, BitSet(n, 2))
      + Masked(m, 4, BitSet(n, 4)) + Masked(m, 8, BitSet(n, 8))
      + Masked(m, 16, BitSet(n, 16)) + Masked(m, 32, BitSet(n, 32))
      + Masked(m, 64, BitSet(n, 64)) + Masked(m, 128, BitSet(n, 128))

Or8(m, n) == m + n - And8(m, n)
Xor8(m, n) == m + n - 2 * And8(m, n)

Lo(word) == word % 256
Hi(word) == word \div 256
Word16(lo, hi) == lo + 256 * hi

(* Arithmetic of uint8_t and uint16_t.                                      *)
U8(n) == n % 256
U16(n) == n % 65536

(* rel(): a byte sign-extended to 16 bits.                                  *)
SignExtend(byte) == IF BitSet(byte, 128) THEN byte + 65280 ELSE byte
=============================================================================
