-------------------------- MODULE ArithmeticProofs --------------------------
(* The arithmetic instructions are right for every operand byte, not only   *)
(* for those a run enumerates, and decimal_test.s finds no error in them    *)
(* but for the overflow flag.                                               *)
EXTENDS Arithmetic, DecimalTest, TLAPS

(* The carry flag of the status as the number adc() and sbc() add.          *)
LEMMA CarryBit == ASSUME NEW S PROVE Carry(S) \in {0, 1} /\ (Carry(S) = 1 <=> "C" \in S)
BY DEF Carry

(* The sign bit of a sum of two bytes, by its range.                        *)
LEMMA SignBit ==
    ASSUME NEW n \in 0..511
    PROVE  BitSet(n, 128) <=> (n \in 128..255 \/ n \in 384..511)
BY SMTT(30) DEF BitSet

(* What adcBinary() returns, before the sum is read as a byte.              *)
LEMMA AddFlags ==
    ASSUME NEW m \in Byte, NEW o \in Byte, NEW S
    PROVE  LET r == adcBinary(m, o, S)
           IN  /\ r.result = m + o + Carry(S)
               /\ "C" \in r.status <=> r.result > 255
               /\ "V" \in r.status <=> /\ ~(BitSet(r.result, 128) <=> BitSet(m, 128))
                                       /\ ~(BitSet(r.result, 128) <=> BitSet(o, 128))
               /\ "Z" \in r.status <=> U8(r.result) = 0
               /\ "N" \in r.status <=> BitSet(r.result, 128)
BY DEF adcBinary, ZeroSign, signcalc, zerocalc, overflowcalc, carrycalc, SetFlag

(* adcBinary() on bytes: sum, carry, overflow, zero and sign.               *)
LEMMA AddsBinary ==
    ASSUME NEW m \in Byte, NEW o \in Byte, NEW S
    PROVE  LET r == adcBinary(m, o, S)
           IN  /\ U8(r.result) + 256 * Carry(r.status) = m + o + Carry(S)
               /\ "V" \in r.status <=> Signed(m) + Signed(o) + Carry(S) \notin -128..127
               /\ "Z" \in r.status <=> U8(r.result) = 0
               /\ "N" \in r.status <=> U8(r.result) > 127
<1> DEFINE r == adcBinary(m, o, S)
<1>0. PICK c \in 0..1 : c = Carry(S)
  BY CarryBit
<1>1. m \in 0..255 /\ o \in 0..255
  BY DEF Byte
<1>2. PICK n \in 0..511 : n = m + o + c
  BY <1>1
<1>3. r.result = n
  BY <1>0, <1>2, AddFlags
<1>4. U8(n) = IF n > 255 THEN n - 256 ELSE n
  BY DEF U8
<1>5. U8(r.result) + 256 * Carry(r.status) = n
  <2>1. Carry(r.status) = IF n > 255 THEN 1 ELSE 0
    BY <1>3, AddFlags DEF Carry
  <2>. QED  BY <1>3, <1>4, <2>1
<1>6. BitSet(n, 128) <=> (n \in 128..255 \/ n \in 384..511)
  BY SignBit
<1>7. (BitSet(m, 128) <=> m > 127) /\ (BitSet(o, 128) <=> o > 127)
  <2>1. \A b \in 0..255 : BitSet(b, 128) <=> b > 127
    BY SignBit
  <2>. QED  BY <1>1, <2>1
<1>8. "V" \in r.status <=> Signed(m) + Signed(o) + c \notin -128..127
  <2>1. "V" \in r.status <=> /\ ~(BitSet(n, 128) <=> m > 127)
                             /\ ~(BitSet(n, 128) <=> o > 127)
    BY AddFlags, <1>3, <1>7
  <2>2. CASE m > 127 /\ o > 127
    <3>1. n \in 256..511 /\ Signed(m) + Signed(o) + c = n - 512
      BY <1>1, <1>2, <2>2 DEF Signed
    <3>2. BitSet(n, 128) <=> n > 383
      BY <1>6, <3>1
    <3>3. "V" \in r.status <=> ~(n > 383)
      BY <2>1, <2>2, <3>2
    <3>4. Signed(m) + Signed(o) + c \notin -128..127 <=> ~(n > 383)
      BY <3>1
    <3>. QED  BY <3>3, <3>4
  <2>3. CASE m > 127 /\ ~(o > 127)
    <3>1. n \in 128..383 /\ Signed(m) + Signed(o) + c = n - 256
      BY <1>1, <1>2, <2>3 DEF Signed
    <3>2. BitSet(n, 128) <=> ~(n > 255)
      BY <1>6, <3>1
    <3>3. "V" \in r.status <=> FALSE
      BY <2>1, <2>3, <3>2
    <3>4. Signed(m) + Signed(o) + c \notin -128..127 <=> FALSE
      BY <3>1
    <3>. QED  BY <3>3, <3>4
  <2>4. CASE ~(m > 127) /\ o > 127
    <3>1. n \in 128..383 /\ Signed(m) + Signed(o) + c = n - 256
      BY <1>1, <1>2, <2>4 DEF Signed
    <3>2. BitSet(n, 128) <=> ~(n > 255)
      BY <1>6, <3>1
    <3>3. "V" \in r.status <=> FALSE
      BY <2>1, <2>4, <3>2
    <3>4. Signed(m) + Signed(o) + c \notin -128..127 <=> FALSE
      BY <3>1
    <3>. QED  BY <3>3, <3>4
  <2>5. CASE ~(m > 127) /\ ~(o > 127)
    <3>1. n \in 0..255 /\ Signed(m) + Signed(o) + c = n
      BY <1>1, <1>2, <2>5 DEF Signed
    <3>2. BitSet(n, 128) <=> n > 127
      BY <1>6, <3>1
    <3>3. "V" \in r.status <=> n > 127
      BY <2>1, <2>5, <3>2
    <3>4. Signed(m) + Signed(o) + c \notin -128..127 <=> n > 127
      BY <3>1
    <3>. QED  BY <3>3, <3>4
  <2>. QED  BY <2>2, <2>3, <2>4, <2>5
<1>9. BitSet(n, 128) <=> U8(n) > 127
  BY <1>4, <1>6
<1>. QED  BY <1>0, <1>2, <1>3, <1>5, <1>8, <1>9, AddFlags

(* sbcBinary() on bytes, from adding the complement.                        *)
LEMMA SubtractsBinary ==
    ASSUME NEW m \in Byte, NEW o \in Byte, NEW S
    PROVE  LET r == sbcBinary(m, o, S)
           IN  /\ U8(r.result) - 256 * Borrow(r.status) = m - o - Borrow(S)
               /\ "V" \in r.status <=> Signed(m) - Signed(o) - Borrow(S) \notin -128..127
               /\ "Z" \in r.status <=> U8(r.result) = 0
               /\ "N" \in r.status <=> U8(r.result) > 127
<1> DEFINE r == adcBinary(m, 255 - o, S)
<1>1. 255 - o \in Byte /\ m \in 0..255 /\ o \in 0..255
  BY DEF Byte
<1>2. /\ U8(r.result) + 256 * Carry(r.status) = m + (255 - o) + Carry(S)
      /\ "V" \in r.status <=> Signed(m) + Signed(255 - o) + Carry(S) \notin -128..127
      /\ "Z" \in r.status <=> U8(r.result) = 0
      /\ "N" \in r.status <=> U8(r.result) > 127
  BY <1>1, AddsBinary
<1>3. Signed(255 - o) = -1 - Signed(o) /\ Signed(o) \in Int /\ Signed(m) \in Int
  BY <1>1 DEF Signed
<1>4. /\ Carry(S) \in 0..1 /\ Carry(r.status) \in 0..1
      /\ Borrow(S) = 1 - Carry(S) /\ Borrow(r.status) = 1 - Carry(r.status)
  BY CarryBit DEF Borrow
<1>5. r.result = m + (255 - o) + Carry(S) /\ U8(r.result) \in Int
  BY <1>1, <1>4, AddFlags DEF U8
<1>6. U8(r.result) - 256 * Borrow(r.status) = m - o - Borrow(S)
  BY <1>1, <1>2, <1>4, <1>5
<1>7. Signed(m) + Signed(255 - o) + Carry(S) = Signed(m) - Signed(o) - Borrow(S)
  BY <1>3, <1>4
<1>8. sbcBinary(m, o, S) = r
  BY DEF sbcBinary
<1>. QED  BY <1>2, <1>6, <1>7, <1>8

-----------------------------------------------------------------------------
(* Decimal mode, digit by digit                                             *)

(* A byte and its two hexadecimal digits, as the nibble macros split it.    *)
LEMMA Digits ==
    ASSUME NEW b \in Byte
    PROVE  /\ b \div 16 \in 0..15
           /\ b % 16 \in 0..15
           /\ b = 16 * (b \div 16) + (b % 16)
           /\ LowNibble(b) = b % 16
           /\ HighNibble(b) = 16 * (b \div 16)
BY SMTT(30) DEF Byte, LowNibble, HighNibble

(* ... and as they are put together again.                                  *)
LEMMA TwoDigits ==
    ASSUME NEW h \in 0..15, NEW l \in 0..15
    PROVE  /\ (16 * h + l) \div 16 = h
           /\ (16 * h + l) % 16 = l
BY SMTT(30)

(* saveaccum() on the range the decimal results have.                       *)
LEMMA LowByte ==
    ASSUME NEW n \in 0..255
    PROVE  /\ U8(n) = n
           /\ U8(65280 + n) = n
           /\ U16(65280 + n) = 65280 + n
           /\ BitSet(n, 128) <=> n > 127
           /\ BitSet(65280 + n, 128) <=> n > 127
<1>1. U8(n) = n
  BY DEF U8
<1>2. U8(65280 + n) = n
  BY DEF U8
<1>3. U16(65280 + n) = 65280 + n
  BY DEF U16
<1>4. BitSet(n, 128) <=> n > 127
  BY SignBit
<1>5. BitSet(65280 + n, 128) <=> n > 127
  <2>1. CASE n > 127
    <3>1. (65280 + n) \div 128 = 511
      BY <2>1
    <3>. QED  BY <2>1, <3>1 DEF BitSet
  <2>2. CASE ~(n > 127)
    <3>1. (65280 + n) \div 128 = 510
      BY <2>2
    <3>. QED  BY <2>2, <3>1 DEF BitSet
  <2>. QED  BY <2>1, <2>2
<1>. QED  BY <1>1, <1>2, <1>3, <1>4, <1>5

(* The promises of DecimalAdd and DecimalSubtract about an outcome r.        *)
IsDecimalSum(r, m, o, S) ==
    /\ ValidBcd(U8(r.result))
    /\ Decimal(U8(r.result)) + 100 * Carry(r.status) = Decimal(m) + Decimal(o) + Carry(S)
    /\ "Z" \in r.status <=> U8(r.result) = 0
    /\ "N" \in r.status <=> U8(r.result) > 127

IsDecimalDifference(r, m, o, S) ==
    /\ ValidBcd(U8(r.result))
    /\ Decimal(U8(r.result)) - 100 * Borrow(r.status) = Decimal(m) - Decimal(o) - Borrow(S)
    /\ "Z" \in r.status <=> U8(r.result) = 0
    /\ "N" \in r.status <=> U8(r.result) > 127

(* adcDecimal() on valid BCD.                                               *)
LEMMA AddsDecimal ==
    ASSUME NEW m \in Byte, NEW o \in Byte, NEW S, ValidBcd(m), ValidBcd(o)
    PROVE  IsDecimalSum(adcDecimal(m, o, S), m, o, S)
<1> DEFINE r == adcDecimal(m, o, S)
           low == LowNibble(m) + LowNibble(o) + Carry(S)
           high == HighNibble(m) + HighNibble(o) + IF low > 9 THEN 16 ELSE 0
           adjusted == IF high > 144 THEN high + 96 ELSE high
           result == LowNibble(IF low > 9 THEN low + 6 ELSE low) + HighNibble(U8(adjusted))
           h == m \div 16 + o \div 16 + IF low > 9 THEN 1 ELSE 0
           l1 == IF low > 9 THEN low - 10 ELSE low
           h1 == IF h > 9 THEN h - 10 ELSE h
<1>1. /\ m \div 16 \in 0..9 /\ m % 16 \in 0..9
      /\ o \div 16 \in 0..9 /\ o % 16 \in 0..9
      /\ Carry(S) \in 0..1
  BY Digits, CarryBit DEF ValidBcd
<1>2. low = (m % 16) + (o % 16) + Carry(S)
  BY Digits
<1>3. low \in 0..19 /\ h \in 0..19 /\ l1 \in 0..9 /\ h1 \in 0..9
  BY <1>1, <1>2
<1>4. high = 16 * h
  BY <1>1, <1>3, Digits
<1>5. LowNibble(IF low > 9 THEN low + 6 ELSE low) = l1
  BY <1>3 DEF LowNibble
<1>6. U8(adjusted) = 16 * h1 /\ (adjusted > 255 <=> h > 9)
  BY <1>3, <1>4 DEF U8
<1>7. HighNibble(16 * h1) = 16 * h1
  BY <1>3 DEF HighNibble
<1>8. result = 16 * h1 + l1
  BY <1>3, <1>5, <1>6, <1>7
<1>9. r.result = result /\ r.status = ZeroSign(carrycalc(S, adjusted), result)
  BY DEF adcDecimal
<1> HIDE DEF r, result, adjusted, high, low, h, l1, h1
<1>10. U8(r.result) = 16 * h1 + l1 /\ r.result \in 0..255
  BY <1>3, <1>8, <1>9 DEF U8
<1>11. U8(r.result) \div 16 = h1 /\ U8(r.result) % 16 = l1
  BY <1>3, <1>10, TwoDigits
<1>12. Carry(r.status) = IF h > 9 THEN 1 ELSE 0
  BY <1>6, <1>9 DEF Carry, ZeroSign, signcalc, zerocalc, carrycalc, SetFlag
<1>13. "Z" \in r.status <=> U8(r.result) = 0
  BY <1>9 DEF ZeroSign, signcalc, zerocalc, carrycalc, SetFlag
<1>14. "N" \in r.status <=> U8(r.result) > 127
  <2>1. "N" \in r.status <=> BitSet(r.result, 128)
    BY <1>9 DEF ZeroSign, signcalc, zerocalc, carrycalc, SetFlag
  <2>. QED  BY <1>10, <2>1, LowByte
<1>15. 10 * h1 + l1 + 100 * Carry(r.status) = Decimal(m) + Decimal(o) + Carry(S)
  <2>1. PICK mh \in 0..9 : mh = m \div 16
    BY <1>1
  <2>2. PICK ml \in 0..9 : ml = m % 16
    BY <1>1
  <2>3. PICK oh \in 0..9 : oh = o \div 16
    BY <1>1
  <2>4. PICK ol \in 0..9 : ol = o % 16
    BY <1>1
  <2>5. PICK c \in 0..1 : c = Carry(S)
    BY <1>1
  <2>6. low = ml + ol + c /\ h = mh + oh + IF low > 9 THEN 1 ELSE 0
    BY <1>2, <2>1, <2>2, <2>3, <2>4, <2>5 DEF h
  <2>7. h1 = (IF h > 9 THEN h - 10 ELSE h) /\ l1 = IF low > 9 THEN low - 10 ELSE low
    BY DEF h1, l1
  <2>8. 10 * h1 + l1 + 100 * (IF h > 9 THEN 1 ELSE 0) = (10 * mh + ml) + (10 * oh + ol) + c
    <3>1. CASE low > 9
      BY <2>6, <2>7, <3>1
    <3>2. CASE ~(low > 9)
      BY <2>6, <2>7, <3>2
    <3>. QED  BY <3>1, <3>2
  <2>. QED  BY <1>12, <2>1, <2>2, <2>3, <2>4, <2>5, <2>8 DEF Decimal
<1>16. ValidBcd(U8(r.result)) /\ Decimal(U8(r.result)) = 10 * h1 + l1
  BY <1>3, <1>11 DEF ValidBcd, Decimal
<1>17. IsDecimalSum(r, m, o, S)
  BY <1>13, <1>14, <1>15, <1>16 DEF IsDecimalSum
<1>. QED  BY <1>17 DEF r

(* A borrow in the uint16_t arithmetic of sbc() keeps the low digit.        *)
LEMMA BorrowNibble ==
    ASSUME NEW k \in -10..9, NEW l \in 0..15
    PROVE  /\ U16(16 * k + l) % 16 = l
           /\ U16(16 * k + l) = IF k < 0 THEN 65536 + 16 * k + l ELSE 16 * k + l
BY SMTT(60) DEF U16

(* sbcDecimal() on valid BCD.                                               *)
LEMMA SubtractsDecimal ==
    ASSUME NEW m \in Byte, NEW o \in Byte, NEW S, ValidBcd(m), ValidBcd(o)
    PROVE  IsDecimalDifference(sbcDecimal(m, o, S), m, o, S)
<1> DEFINE r == sbcDecimal(m, o, S)
           difference == U16(m - LowNibble(o) + Carry(S) - 1)
           low == IF LowNibble(difference) > LowNibble(m) THEN U16(difference - 6) ELSE difference
           high == U16(low - HighNibble(o))
           result == IF HighNibble(high) > HighNibble(m) THEN U16(high - 96) ELSE high
<1>1. PICK mh \in 0..9 : mh = m \div 16
  BY Digits DEF ValidBcd
<1>2. PICK ml \in 0..9 : ml = m % 16
  BY Digits DEF ValidBcd
<1>3. PICK oh \in 0..9 : oh = o \div 16
  BY Digits DEF ValidBcd
<1>4. PICK ol \in 0..9 : ol = o % 16
  BY Digits DEF ValidBcd
<1>5. PICK c \in 0..1 : c = Carry(S)
  BY CarryBit
<1>6. /\ m = 16 * mh + ml
      /\ LowNibble(m) = ml /\ HighNibble(m) = 16 * mh
      /\ LowNibble(o) = ol /\ HighNibble(o) = 16 * oh
  BY <1>1, <1>2, <1>3, <1>4, Digits
<1>7. r.result = result /\ r.status = ZeroSign(SetFlag(S, "C", result <= m), result)
  BY DEF sbcDecimal
<1>8. difference = U16(16 * mh + ml - ol + c - 1)
  BY <1>5, <1>6
(* lb and hb are the borrows of the low and of the high digit, l1 and h1    *)
(* the digits of the difference.                                            *)
<1>9. PICK lb \in 0..1 : lb = IF ml + c > ol THEN 0 ELSE 1
  OBVIOUS
<1>10. PICK l1 \in 0..9 : l1 = ml - ol - 1 + c + 10 * lb
  BY <1>9
<1>11. PICK q \in -10..9 : q = mh - lb - oh
  OBVIOUS
<1>12. PICK hb \in 0..1 : hb = IF q < 0 THEN 1 ELSE 0
  OBVIOUS
<1>13. PICK h1 \in 0..9 : h1 = q + 10 * hb
  BY <1>12
<1> HIDE DEF difference
<1>14. low = U16(16 * (mh - lb) + l1)
  <2>1. CASE lb = 0
    <3>1. difference = U16(16 * mh + l1) /\ l1 <= ml
      BY <1>8, <1>9, <1>10, <2>1
    <3>2. LowNibble(difference) = l1
      BY <3>1, BorrowNibble DEF LowNibble
    <3>. QED  BY <1>6, <2>1, <3>1, <3>2
  <2>2. CASE lb = 1
    <3>1. difference = U16(16 * (mh - 1) + (l1 + 6)) /\ l1 + 6 > ml /\ l1 + 6 \in 0..15
      BY <1>8, <1>9, <1>10, <2>2
    <3>2. /\ LowNibble(difference) = l1 + 6
          /\ difference = IF mh - 1 < 0 THEN 65536 + 16 * (mh - 1) + (l1 + 6)
                                        ELSE 16 * (mh - 1) + (l1 + 6)
      BY <3>1, BorrowNibble DEF LowNibble
    <3>3. low = U16(difference - 6)
      BY <1>6, <3>1, <3>2
    <3>4. U16(difference - 6) = difference - 6
      BY <3>2 DEF U16
    <3>5. U16(16 * (mh - 1) + l1) = IF mh - 1 < 0 THEN 65536 + 16 * (mh - 1) + l1
                                                  ELSE 16 * (mh - 1) + l1
      BY BorrowNibble
    <3>. QED  BY <2>2, <3>2, <3>3, <3>4, <3>5
  <2>. QED  BY <2>1, <2>2
<1> HIDE DEF low
<1>15. high = U16(16 * q + l1)
  <2>1. low = IF mh - lb < 0 THEN 65536 + 16 * (mh - lb) + l1 ELSE 16 * (mh - lb) + l1
    BY <1>14, BorrowNibble
  <2>. QED  BY <1>6, <1>11, <2>1 DEF U16
<1>16. /\ high = IF q < 0 THEN 65536 + 16 * q + l1 ELSE 16 * q + l1
       /\ HighNibble(high) = IF q < 0 THEN 65536 + 16 * q ELSE 16 * q
  BY <1>15, BorrowNibble DEF HighNibble
<1> HIDE DEF high
<1>17. PICK low8 \in 0..255 : low8 = 16 * h1 + l1
  OBVIOUS
<1>18. PICK n \in Int : n = IF q < 0 THEN 65280 + low8 ELSE low8
  OBVIOUS
<1>19. result = n
  <2>1. CASE q < 0
    <3>1. HighNibble(high) > HighNibble(m) /\ high - 96 = 65280 + low8
      BY <1>6, <1>12, <1>13, <1>16, <1>17, <2>1
    <3>2. result = U16(high - 96)
      BY <3>1
    <3>3. result = 65280 + low8
      BY <3>1, <3>2, LowByte
    <3>. QED  BY <1>18, <2>1, <3>3
  <2>2. CASE ~(q < 0)
    <3>1. ~(HighNibble(high) > HighNibble(m)) /\ high = low8
      BY <1>6, <1>11, <1>12, <1>13, <1>16, <1>17, <2>2
    <3>. QED  BY <1>18, <2>2, <3>1
  <2>. QED  BY <2>1, <2>2
<1>20. U8(n) = low8 /\ (BitSet(n, 128) <=> low8 > 127)
  BY <1>18, LowByte
<1>21. n <= m <=> hb = 0
  <2>1. CASE q < 0
    BY <1>6, <1>12, <1>18, <2>1
  <2>2. CASE ~(q < 0)
    <3>1. n = 16 * q + l1 /\ hb = 0
      BY <1>12, <1>13, <1>17, <1>18, <2>2
    <3>2. 16 * q + l1 <= 16 * mh + ml
      <4>1. CASE lb = 0
        BY <1>9, <1>10, <1>11, <4>1
      <4>2. CASE lb = 1
        BY <1>11, <4>2
      <4>. QED  BY <4>1, <4>2
    <3>. QED  BY <1>6, <3>1, <3>2
  <2>. QED  BY <2>1, <2>2
<1> HIDE DEF r, result
<1>22. /\ r.result = n
       /\ r.status = ZeroSign(SetFlag(S, "C", n <= m), n)
  BY <1>7, <1>19
<1>23. "Z" \in r.status <=> U8(r.result) = 0
  BY <1>22 DEF ZeroSign, signcalc, zerocalc, SetFlag
<1>24. "N" \in r.status <=> U8(r.result) > 127
  BY <1>20, <1>22 DEF ZeroSign, signcalc, zerocalc, SetFlag
<1>25. "C" \in r.status <=> hb = 0
  BY <1>21, <1>22 DEF ZeroSign, signcalc, zerocalc, SetFlag
<1>26. Borrow(r.status) = hb /\ Borrow(S) = 1 - c
  BY <1>5, <1>25 DEF Borrow, Carry
<1>27. U8(r.result) \div 16 = h1 /\ U8(r.result) % 16 = l1
  BY <1>17, <1>20, <1>22, TwoDigits
<1>28. ValidBcd(U8(r.result)) /\ Decimal(U8(r.result)) = 10 * h1 + l1
  BY <1>27 DEF ValidBcd, Decimal
<1>29. Decimal(m) = 10 * mh + ml /\ Decimal(o) = 10 * oh + ol
  BY <1>1, <1>2, <1>3, <1>4 DEF Decimal
<1>30. 10 * h1 + l1 - 100 * hb = (10 * mh + ml) - (10 * oh + ol) - (1 - c)
  BY <1>10, <1>11, <1>13
<1>31. IsDecimalDifference(r, m, o, S)
  BY <1>5, <1>23, <1>24, <1>26, <1>28, <1>29, <1>30 DEF IsDecimalDifference
<1>. QED  BY <1>31 DEF r

-----------------------------------------------------------------------------
(* The machine: one instruction, whose outcome stays in sum                 *)

(* Compare() on bytes.                                                      *)
LEMMA ComparesOrder ==
    ASSUME NEW m \in Byte, NEW o \in Byte, NEW S
    PROVE  LET T == Compare(m, o, S)
           IN  /\ "C" \in T <=> m >= o
               /\ "Z" \in T <=> m = o
               /\ "N" \in T <=> U8(m - o) > 127
<1>1. m \in 0..255 /\ o \in 0..255
  BY DEF Byte
<1>2. BitSet(U16(m - o), 128) <=> U8(m - o) > 127
  <2>1. CASE m >= o
    <3>1. PICK e \in 0..255 : e = m - o
      BY <1>1, <2>1
    <3>2. U16(e) = e
      BY DEF U16
    <3>. QED  BY <3>1, <3>2, LowByte
  <2>2. CASE ~(m >= o)
    <3>1. PICK e \in 0..255 : e = m - o + 256
      BY <1>1, <2>2
    <3>2. m - o = e - 256
      BY <1>1, <3>1
    <3>3. U16(e - 256) = 65280 + e
      BY DEF U16
    <3>4. U8(e - 256) = e
      BY DEF U8
    <3>. QED  BY <3>2, <3>3, <3>4, LowByte
  <2>. QED  BY <2>1, <2>2
<1>. QED  BY <1>1, <1>2 DEF Compare, signcalc, SetFlag

(* sum is what the instruction computes from the operands, which no step    *)
(* changes: this makes the promises inductive.                              *)
OutcomeInv ==
    /\ a \in Byte
    /\ value \in Byte
    /\ insn = "adc" => sum = AdcResult(a, value, status)
    /\ insn = "sbc" => sum = SbcResult(a, value, status)
    /\ insn = "cmp" => sum = [result |-> a, status |-> Compare(a, value, status)]

(* Operands stay bytes, and sum stays what the instruction returned.        *)
LEMMA OutcomeInvariant == Spec => []OutcomeInv
<1>1. Init => OutcomeInv
  BY OperandsAssumption DEF Init, OutcomeInv
<1>2. OutcomeInv /\ [Next]_vars => OutcomeInv'
  <2> SUFFICES ASSUME OutcomeInv, [Next]_vars PROVE OutcomeInv'
    OBVIOUS
  <2>1. CASE RunAdc
    BY <2>1 DEF OutcomeInv, RunAdc, Run
  <2>2. CASE RunSbc
    BY <2>2 DEF OutcomeInv, RunSbc, Run
  <2>3. CASE RunCmp
    BY <2>3 DEF OutcomeInv, RunCmp, Run
  <2>4. CASE UNCHANGED vars
    BY <2>4 DEF OutcomeInv, vars
  <2>. QED  BY <2>1, <2>2, <2>3, <2>4 DEF Next
<1>. QED  BY <1>1, <1>2, PTL DEF Spec

(* Binary ADC is right for all bytes: sum, carry, overflow, zero and sign.  *)
THEOREM AdcBinaryCorrect == Spec => []BinaryAdd
<1>1. OutcomeInv => BinaryAdd
  <2> SUFFICES ASSUME OutcomeInv, insn = "adc", "D" \notin status
               PROVE  BinaryAdd
    BY Zenon DEF BinaryAdd
  <2> DEFINE r == adcBinary(a, value, status)
  <2>1. a \in Byte /\ value \in Byte /\ sum = r
    BY DEF OutcomeInv, AdcResult
  <2>2. /\ U8(r.result) + 256 * Carry(r.status) = a + value + Carry(status)
        /\ "V" \in r.status <=> Signed(a) + Signed(value) + Carry(status) \notin -128..127
        /\ "Z" \in r.status <=> U8(r.result) = 0
        /\ "N" \in r.status <=> U8(r.result) > 127
    BY <2>1, AddsBinary
  <2> HIDE DEF r
  <2>. QED  BY <2>1, <2>2 DEF BinaryAdd, Accumulator, FlagsFollow
<1>. QED  BY <1>1, OutcomeInvariant, PTL

(* Binary SBC is right for all bytes, with the borrow in the carry.         *)
THEOREM SbcBinaryCorrect == Spec => []BinarySubtract
<1>1. OutcomeInv => BinarySubtract
  <2> SUFFICES ASSUME OutcomeInv, insn = "sbc", "D" \notin status
               PROVE  BinarySubtract
    BY Zenon DEF BinarySubtract
  <2> DEFINE r == sbcBinary(a, value, status)
  <2>1. a \in Byte /\ value \in Byte /\ sum = r
    BY DEF OutcomeInv, SbcResult
  <2>2. /\ U8(r.result) - 256 * Borrow(r.status) = a - value - Borrow(status)
        /\ "V" \in r.status <=> Signed(a) - Signed(value) - Borrow(status) \notin -128..127
        /\ "Z" \in r.status <=> U8(r.result) = 0
        /\ "N" \in r.status <=> U8(r.result) > 127
    BY <2>1, SubtractsBinary
  <2> HIDE DEF r
  <2>. QED  BY <2>1, <2>2 DEF BinarySubtract, Accumulator, FlagsFollow
<1>. QED  BY <1>1, OutcomeInvariant, PTL

(* Decimal ADC of valid BCD is the decimal sum, again in valid BCD.         *)
THEOREM AdcDecimalCorrect == Spec => []DecimalAdd
<1>1. OutcomeInv => DecimalAdd
  <2> SUFFICES ASSUME OutcomeInv, insn = "adc", "D" \in status, ValidBcd(a), ValidBcd(value)
               PROVE  DecimalAdd
    BY Zenon DEF DecimalAdd
  <2>1. a \in Byte /\ value \in Byte /\ sum = adcDecimal(a, value, status)
    BY DEF OutcomeInv, AdcResult
  <2>2. IsDecimalSum(sum, a, value, status)
    BY <2>1, AddsDecimal
  <2>. QED  BY <2>2 DEF IsDecimalSum, DecimalAdd, Accumulator, FlagsFollow
<1>. QED  BY <1>1, OutcomeInvariant, PTL

(* Decimal SBC of valid BCD is the decimal difference, again in valid BCD.  *)
THEOREM SbcDecimalCorrect == Spec => []DecimalSubtract
<1>1. OutcomeInv => DecimalSubtract
  <2> SUFFICES ASSUME OutcomeInv, insn = "sbc", "D" \in status, ValidBcd(a), ValidBcd(value)
               PROVE  DecimalSubtract
    BY Zenon DEF DecimalSubtract
  <2>1. a \in Byte /\ value \in Byte /\ sum = sbcDecimal(a, value, status)
    BY DEF OutcomeInv, SbcResult
  <2>2. IsDecimalDifference(sum, a, value, status)
    BY <2>1, SubtractsDecimal
  <2>. QED  BY <2>2 DEF IsDecimalDifference, DecimalSubtract, Accumulator, FlagsFollow
<1>. QED  BY <1>1, OutcomeInvariant, PTL

(* CMP, CPX and CPY order all pairs of bytes as unsigned.                   *)
THEOREM CompareCorrect == Spec => []CompareOrders
<1>1. OutcomeInv => CompareOrders
  BY ComparesOrder DEF OutcomeInv, CompareOrders
<1>. QED  BY <1>1, OutcomeInvariant, PTL

-----------------------------------------------------------------------------
(* Widths                                                                   *)

(* What fits uint8_t and uint16_t, with the limits for the provers to read.  *)
Fits8(n) == n \in Nat /\ n < 256
Fits16(n) == n \in Nat /\ n < 65536

(* Arithmetic of uint8_t and uint16_t, and the digits of an operand.        *)
LEMMA Widths ==
    ASSUME NEW n \in Int
    PROVE  /\ Fits16(U16(n))
           /\ Fits8(U8(n))
           /\ LowNibble(n) \in Nat /\ LowNibble(n) < 16
           /\ HighNibble(n) \in Int
           /\ Fits8(n) => Fits8(HighNibble(n)) /\ Fits16(n)
<1>1. Fits16(U16(n))
  BY SMT DEF U16, Fits16
<1>2. Fits8(U8(n))
  BY SMT DEF U8, Fits8
<1>3. LowNibble(n) \in Nat /\ LowNibble(n) < 16
  BY SMT DEF LowNibble
<1>4. HighNibble(n) \in Int /\ (Fits8(n) => Fits8(HighNibble(n)) /\ Fits16(n))
  BY SMT DEF HighNibble, Fits8, Fits16
<1>. QED  BY <1>1, <1>2, <1>3, <1>4

(* The intermediate result of ADC fits uint16_t in both modes.              *)
LEMMA AdcFits ==
    ASSUME NEW m, NEW o, NEW S, Fits8(m), Fits8(o)
    PROVE  Fits16(AdcResult(m, o, S).result)
<1>1. m \in Int /\ o \in Int /\ Carry(S) \in {0, 1}
  BY CarryBit DEF Fits8
<1>2. Fits16(adcBinary(m, o, S).result)
  BY <1>1, SMT DEF adcBinary, Fits8, Fits16
<1>3. Fits16(adcDecimal(m, o, S).result)
  <2> DEFINE low == LowNibble(m) + LowNibble(o) + Carry(S)
             high == HighNibble(m) + HighNibble(o) + IF low > 9 THEN 16 ELSE 0
             adjusted == IF high > 144 THEN high + 96 ELSE high
             digit == IF low > 9 THEN low + 6 ELSE low
  <2>1. low \in Int /\ high \in Int
    BY <1>1, Widths
  <2> HIDE DEF low
  <2>2. LowNibble(digit) \in Nat /\ LowNibble(digit) < 16
    BY <2>1, Widths
  <2> HIDE DEF high
  <2>3. Fits8(HighNibble(U8(adjusted)))
    <3>1. adjusted \in Int
      BY <2>1
    <3> HIDE DEF adjusted
    <3>2. Fits8(U8(adjusted)) /\ U8(adjusted) \in Int
      BY <3>1, Widths DEF Fits8
    <3>. QED  BY <3>2, Widths
  <2>4. adcDecimal(m, o, S).result = LowNibble(digit) + HighNibble(U8(adjusted))
    BY DEF adcDecimal, low, high
  <2> HIDE DEF digit, adjusted
  <2>. QED  BY <2>2, <2>3, <2>4, SMT DEF Fits8, Fits16
<1>. QED  BY <1>2, <1>3, Zenon DEF AdcResult

(* And that of SBC, whose differences wrap as uint16_t does.                *)
LEMMA SbcFits ==
    ASSUME NEW m, NEW o, NEW S, Fits8(m), Fits8(o)
    PROVE  Fits16(SbcResult(m, o, S).result)
<1>1. m \in Int /\ o \in Int /\ Carry(S) \in {0, 1}
  BY CarryBit DEF Fits8
<1>2. Fits16(sbcBinary(m, o, S).result)
  BY <1>1, SMT DEF sbcBinary, adcBinary, Fits8, Fits16
<1>3. Fits16(sbcDecimal(m, o, S).result)
  <2> DEFINE difference == U16(m - LowNibble(o) + Carry(S) - 1)
             low == IF LowNibble(difference) > LowNibble(m) THEN U16(difference - 6)
                    ELSE difference
             high == U16(low - HighNibble(o))
             result == IF HighNibble(high) > HighNibble(m) THEN U16(high - 96) ELSE high
  <2>1. m - LowNibble(o) + Carry(S) - 1 \in Int /\ HighNibble(o) \in Int
    BY <1>1, Widths
  <2>2. Fits16(difference) /\ difference \in Int
    BY <2>1, Widths DEF Fits16
  <2> HIDE DEF difference
  <2>3. low \in Int
    BY <2>2, Widths DEF Fits16
  <2> HIDE DEF low
  <2>4. Fits16(high) /\ high \in Int
    BY <2>1, <2>3, Widths DEF Fits16
  <2> HIDE DEF high
  <2>5. Fits16(result)
    BY <2>4, Widths
  <2>. QED  BY <2>5 DEF sbcDecimal, difference, low, high
<1>. QED  BY <1>2, <1>3, Zenon DEF SbcResult

(* Flags that the helpers leave are flags.                                  *)
LEMMA FlagsOnly ==
    ASSUME NEW m, NEW o, NEW S \in SUBSET Flags
    PROVE  /\ AdcResult(m, o, S).status \in SUBSET Flags
           /\ SbcResult(m, o, S).status \in SUBSET Flags
           /\ Compare(m, o, S) \in SUBSET Flags
<1>1. ASSUME NEW p, NEW q PROVE adcBinary(p, q, S).status \in SUBSET Flags
  BY DEF adcBinary, ZeroSign, zerocalc, signcalc, overflowcalc, carrycalc, SetFlag, Flags
<1>2. adcDecimal(m, o, S).status \in SUBSET Flags
  BY DEF adcDecimal, ZeroSign, zerocalc, signcalc, carrycalc, SetFlag, Flags
<1>3. sbcDecimal(m, o, S).status \in SUBSET Flags
  BY DEF sbcDecimal, ZeroSign, zerocalc, signcalc, SetFlag, Flags
<1>4. Compare(m, o, S) \in SUBSET Flags
  BY DEF Compare, signcalc, SetFlag, Flags
<1>5. sbcBinary(m, o, S).status \in SUBSET Flags
  BY <1>1 DEF sbcBinary
<1>. QED  BY <1>1, <1>2, <1>3, <1>4, <1>5, Zenon DEF AdcResult, SbcResult

(* Operands stay bytes and intermediate results 16 bits wide.               *)
THEOREM ResultsFit == Spec => []TypeOK
<1>1. ASSUME NEW n PROVE n \in Byte <=> Fits8(n)
  BY SMT DEF Byte, Fits8
<1>2. ASSUME NEW n PROVE n \in Word <=> Fits16(n)
  <2> DEFINE top == 65535
  <2>1. top \in Nat /\ \A k \in Nat : k <= top <=> k < 65536
    BY SMT
  <2>2. Word = 0..top
    BY DEF Word
  <2> HIDE DEF top
  <2>. QED  BY <2>1, <2>2, SMT DEF Fits16
<1>3. Init => TypeOK
  <2>1. Fits16(0)
    BY SMT DEF Fits16
  <2> SUFFICES ASSUME Init PROVE TypeOK
    OBVIOUS
  <2>2. a \in Byte /\ value \in Byte /\ status \subseteq {"C", "D"} /\ insn = "none"
    BY OperandsAssumption DEF Init
  <2>3. sum.result = 0 /\ sum.status = {}
    BY DEF Init
  <2>. QED  BY <1>2, <2>1, <2>2, <2>3 DEF TypeOK
<1>4. TypeOK /\ [Next]_vars => TypeOK'
  <2> SUFFICES ASSUME TypeOK, [Next]_vars PROVE TypeOK'
    OBVIOUS
  <2>1. Fits8(a) /\ Fits8(value)
    BY <1>1, Zenon DEF TypeOK
  <2>2. status \in SUBSET Flags
    BY DEF TypeOK, Flags
  <2>3. ASSUME NEW name \in {"adc", "sbc", "cmp"}, NEW outcome, Run(name, outcome),
               Fits16(outcome.result), outcome.status \in SUBSET Flags
        PROVE  TypeOK'
    BY <1>2, <2>3 DEF TypeOK, Run
  <2>4. CASE RunAdc
    BY <2>1, <2>2, <2>3, <2>4, AdcFits, FlagsOnly DEF RunAdc
  <2>5. CASE RunSbc
    BY <2>1, <2>2, <2>3, <2>5, SbcFits, FlagsOnly DEF RunSbc
  <2>6. CASE RunCmp
    <3> DEFINE outcome == [result |-> a, status |-> Compare(a, value, status)]
    <3>1. outcome.result = a /\ outcome.status = Compare(a, value, status)
      OBVIOUS
    <3>2. Run("cmp", outcome)
      BY <2>6 DEF RunCmp
    <3> HIDE DEF outcome
    <3>3. Fits16(a)
      BY <2>1, SMT DEF Fits8, Fits16
    <3>. QED  BY <2>2, <2>3, <3>1, <3>2, <3>3, FlagsOnly
  <2>7. CASE UNCHANGED vars
    BY <2>7 DEF TypeOK, vars
  <2>. QED  BY <2>4, <2>5, <2>6, <2>7 DEF Next
<1>. QED  BY <1>3, <1>4, PTL DEF Spec
-----------------------------------------------------------------------------
(* The decimal test                                                         *)

(* Two valid BCD bytes of the same value are the same byte, and the hundred *)
(* beside them the same carry.                                              *)
LEMMA BcdIsUnique ==
    ASSUME NEW m \in Byte, NEW o \in Byte, ValidBcd(m), ValidBcd(o),
           NEW c \in 0..1, NEW d \in 0..1, Decimal(m) + 100 * c = Decimal(o) + 100 * d
    PROVE  m = o /\ c = d
<1>1. PICK mh \in 0..9 : mh = m \div 16
  BY Digits DEF ValidBcd
<1>2. PICK ml \in 0..9 : ml = m % 16
  BY Digits DEF ValidBcd
<1>3. PICK oh \in 0..9 : oh = o \div 16
  BY Digits DEF ValidBcd
<1>4. PICK ol \in 0..9 : ol = o % 16
  BY Digits DEF ValidBcd
<1>5. 10 * mh + ml + 100 * c = 10 * oh + ol + 100 * d
  BY <1>1, <1>2, <1>3, <1>4 DEF Decimal
<1>6. mh = oh /\ ml = ol /\ c = d
  BY <1>5
<1>. QED  BY <1>1, <1>2, <1>3, <1>4, <1>6, Digits

(* The complement that binary subtraction adds, and its carry.              *)
LEMMA SubtractFlags ==
    ASSUME NEW m \in Byte, NEW o \in Byte, NEW S
    PROVE  LET r == sbcBinary(m, o, S)
           IN  /\ r.result = m + 255 - o + Carry(S)
               /\ "C" \in r.status <=> r.result > 255
<1>1. 255 - o \in Byte /\ m \in 0..255 /\ o \in 0..255
  BY DEF Byte
<1>2. Carry(S) \in 0..1
  BY CarryBit
<1>3. /\ adcBinary(m, 255 - o, S).result = m + (255 - o) + Carry(S)
      /\ "C" \in adcBinary(m, 255 - o, S).status <=> adcBinary(m, 255 - o, S).result > 255
  BY <1>1, AddFlags
<1>. QED  BY <1>1, <1>2, <1>3 DEF sbcBinary

(* The carry that a binary instruction of a prediction is given.            *)
CarryIn(c) == IF c = 1 THEN {"C"} ELSE {}

(* It is the carry that the instruction reads, and its decimal flag is off.  *)
LEMMA CarryInBit == ASSUME NEW c \in 0..1 PROVE Carry(CarryIn(c)) = c /\ "D" \notin CarryIn(c)
BY DEF CarryIn, Carry

(* The instructions of a prediction with a constant operand.                *)
LEMMA Adjusts ==
    ASSUME NEW n \in Byte
    PROVE  /\ adcBinary(n, 95, CarryIn(1)).result = n + 96
           /\ sbcBinary(n, 95, CarryIn(0)).result = n + 160
           /\ sbcBinary(n, 6, CarryIn(1)).result = n + 250
<1>1. 95 \in Byte /\ 6 \in Byte /\ n \in Int
  BY DEF Byte
<1>2. Carry(CarryIn(1)) = 1 /\ Carry(CarryIn(0)) = 0
  BY CarryInBit
<1>3. adcBinary(n, 95, CarryIn(1)).result = n + 95 + 1
  BY <1>1, <1>2, AddFlags
<1>4. sbcBinary(n, 95, CarryIn(0)).result = n + 255 - 95 + 0
  BY <1>1, <1>2, SubtractFlags
<1>5. sbcBinary(n, 6, CarryIn(1)).result = n + 255 - 6 + 1
  BY <1>1, <1>2, SubtractFlags
<1>. QED  BY <1>1, <1>3, <1>4, <1>5

(* The accumulator of a prediction, with the flags that are compared.       *)
LEMMA PredictedFlags ==
    ASSUME NEW S, NEW n \in 0..255
    PROVE  /\ "Z" \in ZeroSign(S, n) <=> n = 0
           /\ "N" \in ZeroSign(S, n) <=> n > 127
           /\ "C" \in ZeroSign(S, n) <=> "C" \in S
           /\ Carry(ZeroSign(S, n)) = Carry(S)
BY LowByte DEF ZeroSign, zerocalc, signcalc, SetFlag, Carry

(* The digits of two operands in valid BCD.                                 *)
LEMMA BcdDigits ==
    ASSUME NEW m \in Byte, ValidBcd(m)
    PROVE  \E h \in 0..9, l \in 0..9 :
             /\ m = 16 * h + l
             /\ LowNibble(m) = l /\ HighNibble(m) = 16 * h
             /\ Decimal(m) = 10 * h + l
<1>1. m \div 16 \in 0..9 /\ m % 16 \in 0..9
  BY Digits DEF ValidBcd
<1>. QED  BY <1>1, Digits DEF Decimal

(* A byte put together from two decimal digits.                             *)
LEMMA BcdOfDigits ==
    ASSUME NEW h \in 0..9, NEW l \in 0..9
    PROVE  /\ 16 * h + l \in 0..255
           /\ ValidBcd(16 * h + l)
           /\ Decimal(16 * h + l) = 10 * h + l
<1>1. 16 * h + l \in 0..255
  OBVIOUS
<1>. QED  BY <1>1, TwoDigits DEF ValidBcd, Decimal

(* A prediction as an outcome of the instruction.                           *)
Predicted(p) == [result |-> p.a, status |-> p.status]

(* ADD predicts the decimal sum.                                            *)
LEMMA PredictsSum ==
    ASSUME NEW m \in Byte, NEW o \in Byte, NEW S, ValidBcd(m), ValidBcd(o)
    PROVE  LET p == PredictAdd(m, o, Carry(S))
           IN  p.a \in 0..255 /\ IsDecimalSum(Predicted(p), m, o, S)
<1>1. PICK mh \in 0..9, ml \in 0..9 : /\ m = 16 * mh + ml
                                      /\ LowNibble(m) = ml /\ HighNibble(m) = 16 * mh
                                      /\ Decimal(m) = 10 * mh + ml
  BY BcdDigits
<1>2. PICK oh \in 0..9, ol \in 0..9 : /\ o = 16 * oh + ol
                                      /\ LowNibble(o) = ol /\ HighNibble(o) = 16 * oh
                                      /\ Decimal(o) = 10 * oh + ol
  BY BcdDigits
<1>3. PICK c \in 0..1 : c = Carry(S)
  BY CarryBit
<1> DEFINE low == LowNibble(m) + LowNibble(o) + Carry(S)
           digits == HighNibble(m) + IF low > 9 THEN LowNibble(low + 6) ELSE low
           added == HighNibble(o) + IF low > 9 THEN 15 ELSE 0
           high == Sum(digits, added, low > 9)
           carries == "C" \in high.status \/ U8(high.result) >= 160
           filled == Sum(U8(high.result), 95, TRUE)
           last == IF carries THEN filled ELSE high
           accumulator == U8(last.result)
           C == SetFlag(high.status, "C", carries)
           p == PredictAdd(m, o, Carry(S))
           h == mh + oh + IF low > 9 THEN 1 ELSE 0
           l1 == IF low > 9 THEN low - 10 ELSE low
           h1 == IF h > 9 THEN h - 10 ELSE h
<1>4. p.a = accumulator /\ p.status = ZeroSign(C, accumulator)
  BY DEF PredictAdd, Prediction
<1>5. low = ml + ol + c
  BY <1>1, <1>2, <1>3
<1>6. low \in 0..19 /\ h \in 0..19 /\ l1 \in 0..9 /\ h1 \in 0..9
  BY <1>5
<1>7. digits = 16 * mh + l1 /\ added = 16 * oh + IF low > 9 THEN 15 ELSE 0
  <2>1. low > 9 => LowNibble(low + 6) = low - 10
    BY <1>6 DEF LowNibble
  <2>. QED  BY <1>1, <1>2, <2>1
<1> HIDE DEF p, low, digits, added
<1>8. digits \in Byte /\ added \in Byte
  BY <1>6, <1>7 DEF Byte
<1>9. high.result = 16 * h + l1 /\ ("C" \in high.status <=> high.result > 255)
  <2>1. PICK d \in 0..1 : d = IF low > 9 THEN 1 ELSE 0
    OBVIOUS
  <2>2. high = adcBinary(digits, added, CarryIn(d))
    BY <2>1, CarryInBit DEF Sum, AdcResult, CarryIn
  <2>3. high.result = digits + added + d /\ ("C" \in high.status <=> high.result > 255)
    BY <1>8, <2>2, AddFlags, CarryInBit
  <2>. QED  BY <1>6, <1>7, <2>1, <2>3
<1> HIDE DEF high, h
<1>10. carries <=> h > 9
  BY <1>6, <1>9 DEF U8
<1>11. U8(high.result) \in Byte /\ 95 \in Byte
  BY <1>6, <1>9 DEF U8, Byte
<1>12. filled = adcBinary(U8(high.result), 95, CarryIn(1))
  BY CarryInBit DEF Sum, AdcResult, CarryIn
<1> HIDE DEF filled, carries
<1>13. filled.result = U8(high.result) + 96
  BY <1>11, <1>12, Adjusts
<1>14. accumulator = 16 * h1 + l1
  BY <1>6, <1>9, <1>10, <1>13 DEF U8
<1> HIDE DEF accumulator, C
<1>15. accumulator \in 0..255 /\ ValidBcd(accumulator) /\ Decimal(accumulator) = 10 * h1 + l1
  BY <1>6, <1>14, BcdOfDigits
<1>16. Carry(C) = IF h > 9 THEN 1 ELSE 0
  BY <1>10 DEF C, Carry, SetFlag
<1>17. Carry(p.status) = Carry(C)
  BY <1>4, <1>15, PredictedFlags
<1>18. 10 * h1 + l1 + 100 * Carry(C) = Decimal(m) + Decimal(o) + c
  <2>1. CASE low > 9
    BY <1>1, <1>2, <1>5, <1>6, <1>16, <2>1 DEF h
  <2>2. CASE ~(low > 9)
    BY <1>1, <1>2, <1>5, <1>6, <1>16, <2>2 DEF h
  <2>. QED  BY <2>1, <2>2
<1>19. U8(accumulator) = accumulator
  BY <1>15, LowByte
<1>20. /\ "Z" \in p.status <=> accumulator = 0
       /\ "N" \in p.status <=> accumulator > 127
  BY <1>4, <1>15, PredictedFlags
<1>21. IsDecimalSum(Predicted(p), m, o, S)
  BY <1>3, <1>4, <1>15, <1>17, <1>18, <1>19, <1>20 DEF IsDecimalSum, Predicted
<1>. QED  BY <1>4, <1>15, <1>21 DEF p

(* SUB and SUB2 predict the decimal difference.                             *)
LEMMA PredictsDifference ==
    ASSUME NEW m \in Byte, NEW o \in Byte, NEW S, ValidBcd(m), ValidBcd(o)
    PROVE  LET p == PredictSub(m, o, Carry(S))
           IN  p.a \in 0..255 /\ IsDecimalDifference(Predicted(p), m, o, S)
<1>1. PICK mh \in 0..9, ml \in 0..9 : /\ m = 16 * mh + ml
                                      /\ LowNibble(m) = ml /\ HighNibble(m) = 16 * mh
                                      /\ Decimal(m) = 10 * mh + ml
  BY BcdDigits
<1>2. PICK oh \in 0..9, ol \in 0..9 : /\ o = 16 * oh + ol
                                      /\ LowNibble(o) = ol /\ HighNibble(o) = 16 * oh
                                      /\ Decimal(o) = 10 * oh + ol
  BY BcdDigits
<1>3. PICK c \in 0..1 : c = Carry(S)
  BY CarryBit
<1> DEFINE low == Difference(LowNibble(m), LowNibble(o), Carry(S) = 1)
           borrows == "C" \notin low.status
           digits == HighNibble(m) + LowNibble(low.result)
           taken == HighNibble(o) + IF borrows THEN 15 ELSE 0
           high == Difference(digits, taken, ~borrows)
           adjusted == IF "C" \in high.status THEN high
                                              ELSE Difference(U8(high.result), 95, FALSE)
           last == IF borrows THEN Difference(U8(adjusted.result), 6, TRUE) ELSE adjusted
           binary == Difference(m, o, Carry(S) = 1)
           p == PredictSub(m, o, Carry(S))
<1>4. p.a = U8(last.result) /\ p.status = ZeroSign(binary.status, U8(last.result))
  BY DEF PredictSub, Prediction
(* lb and hb are the borrows of the low and of the high digit, l1 and h1    *)
(* the digits of the difference.                                            *)
<1>5. PICK lb \in 0..1 : lb = IF ml + c > ol THEN 0 ELSE 1
  OBVIOUS
<1>6. PICK l1 \in 0..9 : l1 = ml - ol - 1 + c + 10 * lb
  BY <1>5
<1>7. PICK q \in -10..9 : q = mh - lb - oh
  OBVIOUS
<1>8. PICK hb \in 0..1 : hb = IF q < 0 THEN 1 ELSE 0
  OBVIOUS
<1>9. PICK h1 \in 0..9 : h1 = q + 10 * hb
  BY <1>8
<1>10. ml \in Byte /\ ol \in Byte
  BY DEF Byte
<1>11. low.result = ml + 255 - ol + c /\ ("C" \in low.status <=> low.result > 255)
  <2>1. low = sbcBinary(ml, ol, CarryIn(c))
    BY <1>1, <1>2, <1>3, CarryInBit DEF Difference, SbcResult, CarryIn
  <2>. QED  BY <1>10, <2>1, SubtractFlags, CarryInBit
<1> HIDE DEF p, low
<1>12. borrows <=> lb = 1
  BY <1>5, <1>11
<1>13. LowNibble(low.result) = l1 + 6 * lb
  BY <1>5, <1>6, <1>11 DEF LowNibble
<1>14. digits = 16 * mh + l1 + 6 * lb /\ taken = 16 * oh + 15 * lb
  BY <1>1, <1>2, <1>12, <1>13
<1>15. digits \in Byte /\ taken \in Byte
  BY <1>14 DEF Byte
<1> HIDE DEF digits, taken, borrows
<1>16. high.result = 256 + 16 * q + l1 + 6 * lb /\ ("C" \in high.status <=> hb = 0)
  <2>1. PICK d \in 0..1 : d = 1 - lb
    OBVIOUS
  <2>2. high = sbcBinary(digits, taken, CarryIn(d))
    BY <1>12, <2>1, CarryInBit DEF Difference, SbcResult, CarryIn
  <2>3. /\ high.result = digits + 255 - taken + d
        /\ "C" \in high.status <=> high.result > 255
    BY <1>15, <2>2, SubtractFlags, CarryInBit
  <2>. QED  BY <1>7, <1>8, <1>14, <2>1, <2>3
<1> HIDE DEF high
<1>17. U8(high.result) \in Byte /\ 95 \in Byte /\ 6 \in Byte
  BY <1>16 DEF U8, Byte
<1>18. hb = 0 => adjusted = high
  BY <1>16
<1>19. hb = 1 => adjusted = sbcBinary(U8(high.result), 95, CarryIn(0))
  BY <1>16, CarryInBit DEF Difference, SbcResult, CarryIn
<1>20. lb = 0 => last = adjusted
  BY <1>12
<1>21. lb = 1 => last = sbcBinary(U8(adjusted.result), 6, CarryIn(1))
  BY <1>12, CarryInBit DEF Difference, SbcResult, CarryIn
<1> HIDE DEF last, adjusted
<1>22. U8(adjusted.result) = 16 * h1 + l1 + 6 * lb
  <2>1. CASE hb = 0
    <3>1. PICK n \in 0..255 : n = 16 * h1 + l1 + 6 * lb
      OBVIOUS
    <3>2. adjusted = high /\ high.result = 256 + n
      BY <1>9, <1>16, <1>18, <2>1, <3>1
    <3>3. U8(256 + n) = n
      BY DEF U8
    <3>. QED  BY <3>1, <3>2, <3>3
  <2>2. CASE hb = 1
    <3>1. PICK n \in 0..159 : n = 16 * h1 + l1 + 6 * lb
      BY <1>6
    <3>2. high.result = 96 + n
      BY <1>9, <1>16, <2>2, <3>1
    <3>3. n + 96 \in Byte /\ U8(high.result) = n + 96
      BY <3>2 DEF U8, Byte
    <3>4. adjusted.result = (n + 96) + 160
      BY <1>19, <2>2, <3>3, Adjusts
    <3>5. adjusted.result = 256 + n
      BY <3>4
    <3>6. U8(256 + n) = n
      BY DEF U8
    <3>. QED  BY <3>1, <3>5, <3>6
  <2>. QED  BY <2>1, <2>2
<1>23. U8(last.result) = 16 * h1 + l1
  <2>1. CASE lb = 0
    <3>1. last = adjusted
      BY <1>20, <2>1
    <3>. QED  BY <1>22, <2>1, <3>1
  <2>2. CASE lb = 1
    <3>1. PICK n \in 0..159 : n = 16 * h1 + l1
      OBVIOUS
    <3>2. n + 6 \in Byte /\ U8(adjusted.result) = n + 6
      BY <1>22, <2>2, <3>1 DEF Byte
    <3>3. last.result = 256 + n
      <4>1. last.result = (n + 6) + 250
        BY <1>21, <2>2, <3>2, Adjusts
      <4>. QED  BY <4>1
    <3>4. U8(256 + n) = n
      BY DEF U8
    <3>. QED  BY <3>1, <3>3, <3>4
  <2>. QED  BY <2>1, <2>2
<1>24. "C" \in binary.status <=> hb = 0
  <2>1. binary = sbcBinary(m, o, CarryIn(c))
    BY <1>3, CarryInBit DEF Difference, SbcResult, CarryIn
  <2>2. binary.result = m + 255 - o + c /\ ("C" \in binary.status <=> binary.result > 255)
    BY <2>1, SubtractFlags, CarryInBit
  <2>3. m + 255 - o + c > 255 <=> q >= 0
    BY <1>1, <1>2, <1>5, <1>6, <1>7
  <2>. QED  BY <1>8, <2>2, <2>3
<1> HIDE DEF binary
<1>25. /\ p.a \in 0..255 /\ ValidBcd(p.a) /\ Decimal(p.a) = 10 * h1 + l1
       /\ U8(p.a) = p.a
  BY <1>4, <1>23, BcdOfDigits, LowByte
<1>26. /\ Carry(p.status) = Carry(binary.status)
       /\ "Z" \in p.status <=> p.a = 0
       /\ "N" \in p.status <=> p.a > 127
  BY <1>4, <1>25, PredictedFlags
<1>27. Borrow(p.status) = hb /\ Borrow(S) = 1 - c
  BY <1>3, <1>24, <1>26 DEF Borrow, Carry
<1>28. 10 * h1 + l1 - 100 * hb = (10 * mh + ml) - (10 * oh + ol) - (1 - c)
  BY <1>6, <1>7, <1>9
<1>29. IsDecimalDifference(Predicted(p), m, o, S)
  BY <1>1, <1>2, <1>25, <1>26, <1>27, <1>28 DEF IsDecimalDifference, Predicted
<1>. QED  BY <1>25, <1>29 DEF p

(* The flags that the test compares whatever its settings.                  *)
Checked == {"N", "Z", "C"}

(* An outcome and a prediction that are the same decimal number compare as  *)
(* equal, but for V.                                                        *)
LEMMA SameNumberAgrees ==
    ASSUME NEW p, p.a \in 0..255, NEW r, r.result \in Int, NEW accumulator,
           accumulator = U8(r.result), ValidBcd(p.a), ValidBcd(accumulator),
           Decimal(p.a) + 100 * Carry(p.status) = Decimal(accumulator) + 100 * Carry(r.status),
           "Z" \in p.status <=> p.a = 0, "N" \in p.status <=> p.a > 127,
           "Z" \in r.status <=> accumulator = 0, "N" \in r.status <=> accumulator > 127
    PROVE  Same(r, p, Checked)
<1>1. accumulator \in Byte /\ p.a \in Byte
  BY DEF U8, Byte
<1>2. p.a = accumulator /\ Carry(p.status) = Carry(r.status)
  BY <1>1, CarryBit, BcdIsUnique
<1>3. "C" \in p.status <=> "C" \in r.status
  BY <1>2, CarryBit
<1>. QED  BY <1>2, <1>3 DEF Same, Checked

(* Decimal ADC does what binary instructions compute digit by digit.        *)
LEMMA AddAgrees ==
    ASSUME NEW m \in Byte, NEW o \in Byte, NEW S, ValidBcd(m), ValidBcd(o), "D" \in S
    PROVE  Same(AdcResult(m, o, S), PredictAdd(m, o, Carry(S)), Checked)
<1> DEFINE p == PredictAdd(m, o, Carry(S))
           r == AdcResult(m, o, S)
           accumulator == U8(r.result)
<1>1. Fits8(m) /\ Fits8(o)
  BY DEF Byte, Fits8
<1>2. r = adcDecimal(m, o, S)
  BY DEF AdcResult
<1>3. r.result \in Int
  <2>1. Fits16(r.result)
    BY <1>1, <1>2, AdcFits, Zenon
  <2>. QED  BY <2>1 DEF Fits16
<1>4. IsDecimalSum(r, m, o, S)
  BY <1>2, AddsDecimal
<1>5. p.a \in 0..255 /\ IsDecimalSum(Predicted(p), m, o, S)
  BY PredictsSum
<1> HIDE DEF p, r
<1>6. Predicted(p).result = p.a /\ Predicted(p).status = p.status /\ U8(p.a) = p.a
  BY <1>5, LowByte DEF Predicted
<1>7. Same(r, p, Checked)
  BY <1>3, <1>4, <1>5, <1>6, SameNumberAgrees DEF IsDecimalSum
<1>. QED  BY <1>7 DEF p, r

(* And decimal SBC.                                                         *)
LEMMA SubtractAgrees ==
    ASSUME NEW m \in Byte, NEW o \in Byte, NEW S, ValidBcd(m), ValidBcd(o), "D" \in S
    PROVE  Same(SbcResult(m, o, S), PredictSub(m, o, Carry(S)), Checked)
<1> DEFINE p == PredictSub(m, o, Carry(S))
           r == SbcResult(m, o, S)
           accumulator == U8(r.result)
<1>1. Fits8(m) /\ Fits8(o)
  BY DEF Byte, Fits8
<1>2. r = sbcDecimal(m, o, S)
  BY DEF SbcResult
<1>3. r.result \in Int
  <2>1. Fits16(r.result)
    BY <1>1, <1>2, SbcFits, Zenon
  <2>. QED  BY <2>1 DEF Fits16
<1>4. IsDecimalDifference(r, m, o, S)
  BY <1>2, SubtractsDecimal
<1>5. p.a \in 0..255 /\ IsDecimalDifference(Predicted(p), m, o, S)
  BY PredictsDifference
<1> HIDE DEF p, r
<1>6. Predicted(p).result = p.a /\ Predicted(p).status = p.status /\ U8(p.a) = p.a
  BY <1>5, LowByte DEF Predicted
<1>7. /\ Decimal(p.a) \in Int /\ Decimal(accumulator) \in Int
      /\ Carry(p.status) \in 0..1 /\ Carry(r.status) \in 0..1
  BY <1>3, <1>5, CarryBit DEF Decimal, U8
<1>8. Decimal(p.a) + 100 * Carry(p.status) = Decimal(accumulator) + 100 * Carry(r.status)
  BY <1>4, <1>5, <1>6, <1>7 DEF IsDecimalDifference, Borrow
<1>9. Same(r, p, Checked)
  BY <1>3, <1>4, <1>5, <1>6, <1>8, SameNumberAgrees DEF IsDecimalDifference
<1>. QED  BY <1>9 DEF p, r

(* For operands that the test tries when it leaves out invalid BCD, both    *)
(* comparisons hold but for V, whatever V the CPU has.                      *)
LEMMA TriedAgree ==
    ASSUME N1 \in Byte, N2 \in Byte, Y \in 0..1, vld_bcd = TRUE, ~Skipped(N1), ~Skipped(N2),
           NEW overflow
    PROVE  /\ Same(AdcResult(N1, N2, DecimalStatus(overflow)), PredictAdd(N1, N2, Y), Checked)
           /\ Same(SbcResult(N1, N2, DecimalStatus(overflow)), PredictSub(N1, N2, Y), Checked)
<1> DEFINE S == DecimalStatus(overflow)
<1>1. ValidBcd(N1) /\ ValidBcd(N2)
  <2>1. ASSUME NEW n \in Byte, ~Skipped(n)
        PROVE  ValidBcd(n)
    BY <2>1 DEF Skipped, LowNibble, HighNibble, ValidBcd, Byte
  <2>. QED  BY <2>1
<1>2. Carry(S) = Y /\ "D" \in S
  BY DEF DecimalStatus, Carry
<1> HIDE DEF S
<1>3. /\ Same(AdcResult(N1, N2, S), PredictAdd(N1, N2, Carry(S)), Checked)
      /\ Same(SbcResult(N1, N2, S), PredictSub(N1, N2, Carry(S)), Checked)
  BY <1>1, <1>2, AddAgrees, SubtractAgrees
<1>. QED  BY <1>2, <1>3 DEF S

(* The settings are Booleans, the operands bytes and the carry a bit.       *)
OperandsInv ==
    /\ chk_v \in BOOLEAN
    /\ N1 \in Byte /\ N2 \in Byte
    /\ at = "LOOP" => Y \in 0..1
    /\ vld_bcd \in BOOLEAN

DecimalInv == OperandsInv /\ FailsForOverflowOnly

(* NEXT1 and NEXT2 keep them so, and do not go to DONE.                     *)
LEMMA LoopsKeep ==
    ASSUME OperandsInv, at = "LOOP", UNCHANGED settings, NEXT1 \/ (NEXT2 /\ UNCHANGED N1)
    PROVE  OperandsInv' /\ at' # "DONE"
<1>. /\ chk_v' \in BOOLEAN /\ vld_bcd' \in BOOLEAN
  BY DEF OperandsInv, settings
<1>1. N1' \in Byte
  <2>1. N1 \in Int /\ N1 \in Byte
    BY DEF OperandsInv, Byte
  <2>. QED  BY <2>1 DEF NEXT1, U8, Byte
<1>2. CASE NEXT2
  <2>1. N2' \in Byte
    BY <1>2 DEF OperandsInv, NEXT2, U8, Byte
  <2>2. Y' = U8(Y - 1) \/ Y' = Y
    BY <1>2 DEF NEXT2
  <2>3. Y \in 0..1
    BY DEF OperandsInv
  <2>4. Y' \in 0..1 \/ BitSet(Y', 128)
    BY <2>2, <2>3 DEF U8, BitSet
  <2>5. at' = "SUCCESS" \/ (at' = "LOOP" /\ Y' \in 0..1)
    BY <1>2, <2>4 DEF NEXT2
  <2>. QED  BY <1>1, <2>1, <2>5 DEF OperandsInv
<1>3. CASE UNCHANGED <<N2, Y, at>>
  BY <1>1, <1>3 DEF OperandsInv
<1>. QED  BY <1>2, <1>3 DEF NEXT1

(* However decimal_test.s is assembled, on valid BCD it fails for V only:   *)
(* decimal ADC and SBC give the accumulator, N, Z and C that it predicts    *)
(* digit by digit, on all its operands and whatever V its own instructions  *)
(* leave. Without chk_v, it does not fail.                                  *)
THEOREM DecimalTestPasses == DecimalSpec => []FailsForOverflowOnly
<1>1. DecimalInit => DecimalInv
  BY DEF DecimalInit, DecimalInv, OperandsInv, FailsForOverflowOnly, Byte
<1>2. DecimalInv /\ [DecimalNext]_decimalVars => DecimalInv'
  <2> SUFFICES ASSUME DecimalInv, [DecimalNext]_decimalVars PROVE DecimalInv'
    OBVIOUS
  <2>. OperandsInv
    BY DEF DecimalInv
  <2>1. ASSUME OperandsInv', at' # "DONE" PROVE DecimalInv'
    BY <2>1 DEF DecimalInv, FailsForOverflowOnly
  <2>2. CASE SkipN2 /\ UNCHANGED settings
    BY <2>1, <2>2, LoopsKeep DEF SkipN2
  <2>3. CASE SkipN1 /\ UNCHANGED settings
    BY <2>1, <2>3, LoopsKeep DEF SkipN1
  <2>4. CASE Try /\ UNCHANGED settings
    <3>1. CASE NEXT1
      BY <2>1, <2>4, <3>1, LoopsKeep DEF Try
    <3>2. CASE ~NEXT1
      <4>1. UNCHANGED <<N1, N2, Y, settings>> /\ at' = "DONE" /\ at = "LOOP"
        BY <2>4, <3>2, Zenon DEF Try
      <4>2. OperandsInv'
        BY <4>1 DEF OperandsInv, settings
      <4>3. ASSUME vld_bcd = TRUE, NEW overflow
            PROVE  /\ Same(AdcResult(N1, N2, DecimalStatus(overflow)),
                           PredictAdd(N1, N2, Y), Checked)
                   /\ Same(SbcResult(N1, N2, DecimalStatus(overflow)),
                           PredictSub(N1, N2, Y), Checked)
        BY <2>4, <4>1, <4>3, TriedAgree DEF OperandsInv, Try
      <4>4. ASSUME vld_bcd = TRUE, chk_v = FALSE PROVE FALSE
        <5>1. Compared = Checked
          BY <4>4 DEF Compared, Checked
        <5>2. /\ COMPARE(AdcResult(N1, N2, DecimalStatus(V)), PredictAdd(N1, N2, Y))
              /\ \A overflow : COMPARE(SbcResult(N1, N2, DecimalStatus(overflow)),
                                       PredictSub(N1, N2, Y))
          BY <4>3, <4>4, <5>1 DEF COMPARE
        <5>. QED  BY <2>4, <3>2, <5>2, Zenon DEF Try
      <4>5. FailsForOverflowOnly'
        <5> SUFFICES ASSUME vld_bcd = TRUE
                     PROVE  /\ chk_v = TRUE
                            /\ Same(AdcResult(N1, N2, DecimalStatus(V')),
                                    PredictAdd(N1, N2, Y), Checked)
                            /\ Same(SbcResult(N1, N2, DecimalStatus(V')),
                                    PredictSub(N1, N2, Y), Checked)
          BY <4>1, Zenon DEF FailsForOverflowOnly, settings, OperandsInv, Checked, DecimalStatus
        <5>. QED  BY <4>3, <4>4 DEF OperandsInv
      <4>. QED  BY <4>2, <4>5 DEF DecimalInv
    <3>. QED  BY <3>1, <3>2
  <2>5. CASE UNCHANGED decimalVars
    BY <2>5 DEF DecimalInv, OperandsInv, FailsForOverflowOnly, decimalVars, settings, DecimalStatus
  <2>. QED  BY <2>2, <2>3, <2>4, <2>5 DEF DecimalNext
<1>3. DecimalInv => FailsForOverflowOnly
  BY DEF DecimalInv
<1>. QED  BY <1>1, <1>2, <1>3, PTL DEF DecimalSpec
=============================================================================
