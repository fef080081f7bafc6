---------------------------- MODULE Instructions ----------------------------
(* Two instructions in a row from any of the given CPU states, for what has *)
(* to hold of every opcode, in every addressing mode, at every boundary.    *)
EXTENDS Cpu

CONSTANTS
    Starts,     \* CPU states to start from
    PairStarts, \* more of them, at two instructions of which the second undoes
                \* the first
    Watched     \* the addresses whose contents are compared

ASSUME WatchedAssumption == Watched \subseteq Word \ (256..511)    \* off the stack

(* The pairs: what is pushed is pulled, a register or an operand is counted *)
(* or rotated there and back, a call returns.                               *)
StackPairs == {<<"pha", "pla">>, <<"phx", "plx">>, <<"phy", "ply">>, <<"php", "plp">>}
RegisterPairs == {<<"inx", "dex">>, <<"dex", "inx">>, <<"iny", "dey">>, <<"dey", "iny">>}
OperandPairs == {<<"inc", "dec">>, <<"dec", "inc">>, <<"rol", "ror">>, <<"ror", "rol">>}

(* Both are in the accumulator, or at the same address of the first two pages. *)
SameOperand(s, d) ==
    LET first == Address(Fetch(s))
        second == Address(Fetch(d))
    IN  /\ UsesAccumulator(first) <=> UsesAccumulator(second)
        /\ UsesAccumulator(first) \/ (first.ea = second.ea /\ first.ea < 512)

AtPair(s) ==
    LET d == stepInstruction(s)
        insns == <<FetchedInsn(s), FetchedInsn(d)>>
    IN  /\ s.hasMem /\ ~s.stopped
        /\ \/ insns \in StackPairs \union RegisterPairs \union {<<"jsr", "rts">>}
           \/ insns \in OperandPairs /\ SameOperand(s, d)

ASSUME PairAssumption == \A s \in PairStarts : AtPair(s)

VARIABLES
    c,          \* the CPU
    start,      \* where it started
    pair,       \* from which of the two sets
    done        \* how many instructions it has been stepped

vars == <<c, start, pair, done>>

Init ==
    /\ \/ start \in Starts /\ pair = FALSE
       \/ start \in PairStarts /\ pair = TRUE
    /\ c = start
    /\ done = 0

Step ==
    /\ done < 2
    /\ c' = stepInstruction(c)
    /\ done' = done + 1
    /\ UNCHANGED <<start, pair>>

Next == Step

Spec == Init /\ [][Next]_vars

-----------------------------------------------------------------------------

(* Every register, and the operand members ea and reladdr, keep their C++   *)
(* width through every opcode, and memory holds bytes.                      *)
TypeOK ==
    /\ c.pc \in Word /\ c.ea \in Word /\ c.reladdr \in Word
    /\ c.sp \in Byte /\ c.a \in Byte /\ c.x \in Byte /\ c.y \in Byte
    /\ c.opcode \in Byte
    /\ c.status \subseteq Flags
    /\ c.waiting \in BOOLEAN /\ c.stopped \in BOOLEAN
    /\ \A address \in Watched : ReadMem(c.mem, address) \in Byte

(* What the addressing modes leave in ea, reladdr and the penalties for one *)
(* instruction never reaches the next: each instruction computes the same   *)
(* whatever was left there. A table entry that pairs a memory instruction   *)
(* with an implied mode, or a penalty that is not cleared, would break it.  *)
ScratchIsDead ==
    \A penalty \in BOOLEAN, left \in {0, 511} :
        Settled(stepInstruction(Scratch(c, left, left, 165, penalty)))
          = Settled(stepInstruction(c))

(* The cost on which exec()'s budget rests: whatever the mode, the page     *)
(* crossings, a taken branch and decimal mode add up to, an instruction     *)
(* takes 2 to 7 ticks; STP takes 1, an illegal opcode and a stopped CPU 0.  *)
CostBounded ==
    LET ticks == stepInstruction([c EXCEPT !.ticks = 0]).ticks
    IN  IF ~RunsValid(c) THEN ticks = 0
        ELSE IF FetchedInsn(c) = "stp" THEN ticks = 1
        ELSE IF FetchedInsn(c) = "wai" THEN ticks = 3
        ELSE ticks \in 2..7

(* The second instruction of a pair undoes the first: PHA PLA, PHP PLP,     *)
(* JSR RTS, ROL ROR, INC DEC and the like give back the registers, the      *)
(* stack pointer, the flags that are not results, and memory off the stack, *)
(* also when a value or the stack pointer wraps.                            *)
PairUndoes ==
    done = 2 /\ pair =>
        /\ <<c.a, c.x, c.y, c.sp>> = <<start.a, start.x, start.y, start.sp>>
        /\ c.status \ {"N", "Z", "B", "One"} = start.status \ {"N", "Z", "B", "One"}
        /\ \A address \in Watched : ReadMem(c.mem, address) = ReadMem(start.mem, address)

(* (zp) and (zp),Y take both bytes of their pointer from page zero, also    *)
(* when the pointer is at $FF. (zp,X) does not: see the README.             *)
PointersInPageZero ==
    LET mode == m_insn[read6502(c, c.pc)].mode
        low == read6502(c, c.pc + 1)
        high == IF low = 255 THEN 0 ELSE low + 1
        index == IF mode = "indy" THEN c.y ELSE 0
    IN  mode \in {"ind0", "indy"} /\ ~c.stopped
          => Address(Fetch(c)).ea
               = (read6502(c, low) + 256 * read6502(c, high) + index) % 65536
=============================================================================
