-------------------------------- MODULE Alu ---------------------------------
(* The status register as the set of its flags that are set, the flag       *)
(* macros of src/src/support.h, and the results and flags of the arithmetic *)
(* instructions (src/src/insns_6502.cpp).                                   *)
EXTENDS Bits

Flags == {"C", "Z", "I", "D", "B", "One", "V", "N"}

FlagWeight == [C |-> 1, Z |-> 2, I |-> 4, D |-> 8, B |-> 16,
               One |-> 32, V |-> 64, N |-> 128]

(* The register as the byte that is pushed, and a pulled byte as a register. *)
StatusByte(status) ==
    LET weight(flag) == IF flag \in status THEN FlagWeight[flag] ELSE 0
    IN  weight("C") + weight("Z") + weight("I") + weight("D")
          + weight("B") + weight("One") + weight("V") + weight("N")

StatusOf(byte) == {flag \in Flags : BitSet(byte, FlagWeight[flag])}

SetFlag(status, flag, on) == IF on THEN status \union {flag} ELSE status \ {flag}

Carry(status) == IF "C" \in status THEN 1 ELSE 0

zerocalc(status, n) == SetFlag(status, "Z", U8(n) = 0)
signcalc(status, n) == SetFlag(status, "N", BitSet(n, 128))
carrycalc(status, n) == SetFlag(status, "C", n > 255)
\* Slip: V set whenever the sign of the accumulator changes.
overflowcalc_SignChange(status, n, m, o) ==
    SetFlag(status, "V", ~(BitSet(n, 128) <=> BitSet(m, 128)))

overflowcalc(status, n, m, o) ==
    SetFlag(status, "V", /\ ~(BitSet(n, 128) <=> BitSet(m, 128))
                         /\ ~(BitSet(n, 128) <=> BitSet(o, 128)))

ZeroSign(status, n) == signcalc(zerocalc(status, n), n)

-----------------------------------------------------------------------------
(* Each returns the 16-bit result, before saveaccum() keeps its low byte,   *)
(* and the new status.                                                      *)

LowNibble(n) == n % 16
HighNibble(n) == n - (n % 16)

adcBinary(a, value, status) ==
    LET result == a + value + Carry(status)
    IN  [result |-> result,
         status |-> ZeroSign(overflowcalc(carrycalc(status, result), result, a, value), result)]

\* Slip: the low digit is adjusted only past 10.
adcDecimal_LateAdjust(a, value, status) ==
    LET low == LowNibble(a) + LowNibble(value) + Carry(status)
        high == HighNibble(a) + HighNibble(value) + IF low > 10 THEN 16 ELSE 0
        adjusted == IF high > 144 THEN high + 96 ELSE high
        result == LowNibble(IF low > 10 THEN low + 6 ELSE low) + HighNibble(U8(adjusted))
    IN  [result |-> result, status |-> ZeroSign(carrycalc(status, adjusted), result)]

\* Slip: the carry is that of the result, put together from two digits.
adcDecimal_CarryOfResult(a, value, status) ==
    LET low == LowNibble(a) + LowNibble(value) + Carry(status)
        high == HighNibble(a) + HighNibble(value) + IF low > 9 THEN 16 ELSE 0
        adjusted == IF high > 144 THEN high + 96 ELSE high
        result == LowNibble(IF low > 9 THEN low + 6 ELSE low) + HighNibble(U8(adjusted))
    IN  [result |-> result, status |-> ZeroSign(carrycalc(status, result), result)]

adcDecimal(a, value, status) ==
    LET low == LowNibble(a) + LowNibble(value) + Carry(status)
        high == HighNibble(a) + HighNibble(value) + IF low > 9 THEN 16 ELSE 0
        adjusted == IF high > 144 THEN high + 96 ELSE high
        result == LowNibble(IF low > 9 THEN low + 6 ELSE low) + HighNibble(U8(adjusted))
    IN  [result |-> result, status |-> ZeroSign(carrycalc(status, adjusted), result)]

\* Slip: the borrow is taken from the complement that binary SBC adds.
sbcBinary_NoComplement(a, value, status) ==
    LET result == U16(a - value - Carry(status))
    IN  [result |-> result,
         status |-> ZeroSign(overflowcalc(carrycalc(status, result), result, a, value), result)]

sbcBinary(a, value, status) == adcBinary(a, 255 - value, status)

\* Slip: the high digit is not adjusted.
sbcDecimal_NoHighAdjust(a, value, status) ==
    LET difference == U16(a - LowNibble(value) + Carry(status) - 1)
        low == IF LowNibble(difference) > LowNibble(a) THEN U16(difference - 6) ELSE difference
        result == U16(low - HighNibble(value))
    IN  [result |-> result, status |-> ZeroSign(SetFlag(status, "C", result <= a), result)]

\* Slip: the difference is an int, not a uint16_t.
sbcDecimal_Int(a, value, status) ==
    LET difference == a - LowNibble(value) + Carry(status) - 1
        low == IF LowNibble(difference) > LowNibble(a) THEN difference - 6 ELSE difference
        result == low - HighNibble(value)
    IN  [result |-> result, status |-> ZeroSign(SetFlag(status, "C", result <= a), result)]

sbcDecimal(a, value, status) ==
    LET difference == U16(a - LowNibble(value) + Carry(status) - 1)
        low == IF LowNibble(difference) > LowNibble(a) THEN U16(difference - 6) ELSE difference
        high == U16(low - HighNibble(value))
        result == IF HighNibble(high) > HighNibble(a) THEN U16(high - 96) ELSE high
    IN  [result |-> result, status |-> ZeroSign(SetFlag(status, "C", result <= a), result)]

AdcResult(a, value, status) ==
    IF "D" \in status THEN adcDecimal(a, value, status) ELSE adcBinary(a, value, status)

SbcResult(a, value, status) ==
    IF "D" \in status THEN sbcDecimal(a, value, status) ELSE sbcBinary(a, value, status)

\* Slip: equal operands do not set the carry.
Compare_Strict(register, value, status) ==
    signcalc(SetFlag(SetFlag(status, "C", register > value), "Z", register = value),
             U16(register - value))

(* cmp(), cpx() and cpy(): the status alone.                                *)
Compare(register, value, status) ==
    signcalc(SetFlag(SetFlag(status, "C", register >= value), "Z", register = value),
             U16(register - value))
=============================================================================
