----------------------------- MODULE Arithmetic -----------------------------
(* One ADC, SBC or CMP on any accumulator, operand and status, against what *)
(* the 65C02 promises of them in binary and in decimal mode. The promise is *)
(* stated on integers, without the carries and adjustments of Alu.tla.      *)
EXTENDS Alu

CONSTANT Operands   \* the operand bytes to try

ASSUME OperandsAssumption == Operands \subseteq Byte

VARIABLES
    a, value, status,   \* before the instruction
    insn,               \* the instruction that was run, or "none"
    sum                 \* its result and status

vars == <<a, value, status, insn, sum>>

Init ==
    /\ a \in Operands
    /\ value \in Operands
    /\ status \in SUBSET {"C", "D"}
    /\ insn = "none"
    /\ sum = [result |-> 0, status |-> {}]

Run(name, outcome) ==
    /\ insn = "none"
    /\ insn' = name
    /\ sum' = outcome
    /\ UNCHANGED <<a, value, status>>

RunAdc == Run("adc", AdcResult(a, value, status))
RunSbc == Run("sbc", SbcResult(a, value, status))
RunCmp == Run("cmp", [result |-> a, status |-> Compare(a, value, status)])

Next == RunAdc \/ RunSbc \/ RunCmp

Spec == Init /\ [][Next]_vars

-----------------------------------------------------------------------------
(* The reference                                                            *)

Signed(byte) == IF byte > 127 THEN byte - 256 ELSE byte

ValidBcd(byte) == byte \div 16 < 10 /\ byte % 16 < 10
Decimal(byte) == 10 * (byte \div 16) + (byte % 16)

Borrow(flags) == 1 - Carry(flags)

Accumulator == U8(sum.result)

FlagsFollow == /\ "Z" \in sum.status <=> Accumulator = 0
               /\ "N" \in sum.status <=> Accumulator > 127

(* The 16-bit intermediate results of adc() and sbc() stay in uint16_t.      *)
TypeOK ==
    /\ a \in Byte
    /\ value \in Byte
    /\ status \subseteq {"C", "D"}
    /\ insn \in {"none", "adc", "sbc", "cmp"}
    /\ sum.result \in Word
    /\ sum.status \subseteq Flags

(* Binary ADC: the accumulator and the carry are the sum with carry-in; V   *)
(* is set exactly when the signed sum does not fit a byte.                  *)
BinaryAdd ==
    insn = "adc" /\ "D" \notin status =>
        /\ Accumulator + 256 * Carry(sum.status) = a + value + Carry(status)
        /\ "V" \in sum.status <=> Signed(a) + Signed(value) + Carry(status) \notin -128..127
        /\ FlagsFollow

(* Binary SBC: the difference with borrow-in, borrow-out in the inverted    *)
(* carry, V for a signed difference that does not fit a byte.               *)
BinarySubtract ==
    insn = "sbc" /\ "D" \notin status =>
        /\ Accumulator - 256 * Borrow(sum.status) = a - value - Borrow(status)
        /\ "V" \in sum.status <=> Signed(a) - Signed(value) - Borrow(status) \notin -128..127
        /\ FlagsFollow

(* Decimal ADC of two valid BCD bytes: the two digits of the decimal sum,   *)
(* valid BCD again, and its hundred in the carry.                           *)
DecimalAdd ==
    insn = "adc" /\ "D" \in status /\ ValidBcd(a) /\ ValidBcd(value) =>
        /\ ValidBcd(Accumulator)
        /\ Decimal(Accumulator) + 100 * Carry(sum.status)
             = Decimal(a) + Decimal(value) + Carry(status)
        /\ FlagsFollow

(* Decimal SBC of two valid BCD bytes: the decimal difference modulo 100,   *)
(* with the borrow in the inverted carry.                                   *)
DecimalSubtract ==
    insn = "sbc" /\ "D" \in status /\ ValidBcd(a) /\ ValidBcd(value) =>
        /\ ValidBcd(Accumulator)
        /\ Decimal(Accumulator) - 100 * Borrow(sum.status)
             = Decimal(a) - Decimal(value) - Borrow(status)
        /\ FlagsFollow

(* CMP orders unsigned bytes by C and Z whatever the decimal flag is.       *)
CompareOrders ==
    insn = "cmp" =>
        /\ "C" \in sum.status <=> a >= value
        /\ "Z" \in sum.status <=> a = value
        /\ "N" \in sum.status <=> U8(a - value) > 127
=============================================================================
