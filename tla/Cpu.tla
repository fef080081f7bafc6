-------------------------------- MODULE Cpu ---------------------------------
(* The 65C02 of six5c02::CPU as operators on one record c, the members of   *)
(* the class that outlive an instruction: the registers, the scratch        *)
(* members of the addressing modes, waiting and stopped, and what the       *)
(* memory controller holds (mem). One operator per method, under its name.  *)
(* c.ticks is what the instruction has added to clockticks so far.          *)
EXTENDS Alu, Opcodes, Sequences

CONSTANTS
    ReadMem(_, _),       \* IMemoryController::readMem(address)
    WriteMem(_, _, _)    \* IMemoryController::writeMem(address, value)

(* The CPU after construction, with a memory controller that holds mem.     *)
init(mem) ==
    [hasMem |-> TRUE, mem |-> mem, pc |-> 0, sp |-> 0, a |-> 0, x |-> 0, y |-> 0,
     status |-> {}, ea |-> 0, reladdr |-> 0, opcode |-> 0, penaltyop |-> FALSE,
     penaltyaddr |-> FALSE, waiting |-> FALSE, stopped |-> FALSE, ticks |-> 0]

-----------------------------------------------------------------------------
(* Memory                                                                   *)

read6502(c, address) == IF c.hasMem THEN ReadMem(c.mem, U16(address)) ELSE 255

write6502(c, address, value) ==
    IF c.hasMem THEN [c EXCEPT !.mem = WriteMem(@, U16(address), value)] ELSE c

Read16(c, address) == Word16(read6502(c, address), read6502(c, address + 1))

\* Slip: the second byte may be beyond page zero.
Read16Page0_Unwrapped(c, address) == Read16(c, address)

(* Pointers that wrap within page zero.                                     *)
Read16Page0(c, address) == Word16(read6502(c, address), read6502(c, U8(address + 1)))

Stack(sp) == 256 + sp

\* Slip: the stack pointer is not kept to 8 bits.
push8_Unwrapped(c, value) == [write6502(c, Stack(c.sp), value) EXCEPT !.sp = @ - 1]

push8(c, value) == [write6502(c, Stack(c.sp), value) EXCEPT !.sp = U8(@ - 1)]

\* Slip: the low byte may land below the stack page.
push16_Unwrapped(c, value) ==
    LET high == write6502(c, Stack(c.sp), Hi(value))
    IN  [write6502(high, Stack(c.sp - 1), Lo(value)) EXCEPT !.sp = U8(@ - 2)]

push16(c, value) ==
    LET high == write6502(c, Stack(c.sp), Hi(value))
    IN  [write6502(high, Stack(U8(c.sp - 1)), Lo(value)) EXCEPT !.sp = U8(@ - 2)]

(* What pull8() and pull16() return, and the stack pointer they leave.      *)
Pulled8(c) == read6502(c, Stack(U8(c.sp + 1)))
Pulled16(c) == Word16(read6502(c, Stack(U8(c.sp + 1))), read6502(c, Stack(U8(c.sp + 2))))

\* Slip: the stack pointer is not kept to 8 bits.
Pull_Unwrapped(c, bytes) == [c EXCEPT !.sp = @ + bytes]

Pull(c, bytes) == [c EXCEPT !.sp = U8(@ + bytes)]

-----------------------------------------------------------------------------
(* Addressing modes (modes.cpp)                                             *)

Skip(c, bytes) == [c EXCEPT !.pc = U16(@ + bytes)]

(* An operand at base + index, two operand bytes or one having been read.   *)
Indexed(c, base, index, bytes) ==
    [Skip(c, bytes) EXCEPT !.ea = U16(base + index),
                           !.penaltyaddr = @ \/ Hi(base) # Hi(U16(base + index))]

acc(c) == c
imp(c) == c
imm(c) == [Skip(c, 1) EXCEPT !.ea = c.pc]
abso(c) == [Skip(c, 2) EXCEPT !.ea = Read16(c, c.pc)]
absx(c) == Indexed(c, Read16(c, c.pc), c.x, 2)
absy(c) == Indexed(c, Read16(c, c.pc), c.y, 2)
ind(c) == [Skip(c, 2) EXCEPT !.ea = Read16(c, Read16(c, c.pc))]
ainx(c) == [Skip(c, 2) EXCEPT !.ea = Read16(c, U16(Read16(c, c.pc) + c.x))]
rel(c) == [Skip(c, 1) EXCEPT !.reladdr = SignExtend(read6502(c, c.pc))]
zp(c) == [Skip(c, 1) EXCEPT !.ea = read6502(c, c.pc)]
zpx(c) == [Skip(c, 1) EXCEPT !.ea = U8(read6502(c, c.pc) + c.x)]
zpy(c) == [Skip(c, 1) EXCEPT !.ea = U8(read6502(c, c.pc) + c.y)]
(* (zp,X) reads the high byte of its pointer at the next address, also when *)
(* that is no longer in page zero.                                          *)
indx(c) == [Skip(c, 1) EXCEPT !.ea = Read16(c, U8(read6502(c, c.pc) + c.x))]
ind0(c) == [Skip(c, 1) EXCEPT !.ea = Read16Page0(c, read6502(c, c.pc))]
indy(c) == Indexed(c, Read16Page0(c, read6502(c, c.pc)), c.y, 1)
zprel(c) == [Skip(c, 2) EXCEPT !.ea = read6502(c, c.pc),
                               !.reladdr = SignExtend(read6502(c, c.pc + 1))]

Address(c) ==
    LET mode == m_insn[c.opcode].mode
    IN  CASE mode = "acc" -> acc(c)
          [] mode = "imp" -> imp(c)
          [] mode = "imm" -> imm(c)
          [] mode = "abso" -> abso(c)
          [] mode = "absx" -> absx(c)
          [] mode = "absy" -> absy(c)
          [] mode = "ind" -> ind(c)
          [] mode = "ainx" -> ainx(c)
          [] mode = "rel" -> rel(c)
          [] mode = "zp" -> zp(c)
          [] mode = "zpx" -> zpx(c)
          [] mode = "zpy" -> zpy(c)
          [] mode = "indx" -> indx(c)
          [] mode = "ind0" -> ind0(c)
          [] mode = "indy" -> indy(c)
          [] mode = "zprel" -> zprel(c)

-----------------------------------------------------------------------------
(* Instructions (insns_6502.cpp, insns_65c02.cpp)                           *)

UsesAccumulator(c) == m_insn[c.opcode].mode = "acc"

getvalue(c) == IF UsesAccumulator(c) THEN c.a ELSE read6502(c, c.ea)

putvalue(c, value) ==
    IF UsesAccumulator(c) THEN [c EXCEPT !.a = U8(value)] ELSE write6502(c, c.ea, U8(value))

PenaltyOp(c) == [c EXCEPT !.penaltyop = TRUE]

(* A register takes a byte, and Z and N follow it.                          *)
LoadA(c, value) == [c EXCEPT !.a = value, !.status = ZeroSign(@, value)]
LoadX(c, value) == [c EXCEPT !.x = value, !.status = ZeroSign(@, value)]
LoadY(c, value) == [c EXCEPT !.y = value, !.status = ZeroSign(@, value)]

lda(c) == LoadA(PenaltyOp(c), getvalue(c))
ldx(c) == LoadX(PenaltyOp(c), getvalue(c))
ldy(c) == LoadY(PenaltyOp(c), getvalue(c))
sta(c) == putvalue(c, c.a)
stx(c) == putvalue(c, c.x)
sty(c) == putvalue(c, c.y)
stz(c) == putvalue(c, 0)
tax(c) == LoadX(c, c.a)
tay(c) == LoadY(c, c.a)
txa(c) == LoadA(c, c.x)
tya(c) == LoadA(c, c.y)
tsx(c) == LoadX(c, c.sp)
txs(c) == [c EXCEPT !.sp = c.x]
inx(c) == LoadX(c, U8(c.x + 1))
iny(c) == LoadY(c, U8(c.y + 1))
dex(c) == LoadX(c, U8(c.x - 1))
dey(c) == LoadY(c, U8(c.y - 1))

And(c) == LoadA(PenaltyOp(c), And8(c.a, getvalue(c)))
ora(c) == LoadA(PenaltyOp(c), Or8(c.a, getvalue(c)))
eor(c) == LoadA(PenaltyOp(c), Xor8(c.a, getvalue(c)))

\* Slip: decimal mode costs two ticks more.
Accumulate_TwoTicks(c, sum) ==
    [PenaltyOp(c) EXCEPT !.a = U8(sum.result), !.status = sum.status,
                         !.ticks = @ + IF "D" \in c.status THEN 2 ELSE 0]

(* adc() and sbc(): decimal mode costs one tick more.                       *)
Accumulate(c, sum) ==
    [PenaltyOp(c) EXCEPT !.a = U8(sum.result), !.status = sum.status,
                         !.ticks = @ + IF "D" \in c.status THEN 1 ELSE 0]

adc(c) == Accumulate(c, AdcResult(c.a, getvalue(c), c.status))
sbc(c) == Accumulate(c, SbcResult(c.a, getvalue(c), c.status))

cmp(c) == [PenaltyOp(c) EXCEPT !.status = Compare(c.a, getvalue(c), @)]
cpx(c) == [c EXCEPT !.status = Compare(c.x, getvalue(c), @)]
cpy(c) == [c EXCEPT !.status = Compare(c.y, getvalue(c), @)]

(* BIT, in every mode including immediate, copies the top bits into N and V. *)
bit(c) ==
    LET value == getvalue(c)
    IN  [c EXCEPT !.status =
           SetFlag(SetFlag(zerocalc(@, And8(c.a, value)), "N", BitSet(value, 128)),
                   "V", BitSet(value, 64))]

(* A read-modify-write: the result goes back, Z and N follow its low byte.  *)
Modify(c, status, result) ==
    putvalue([c EXCEPT !.status = ZeroSign(status, result)], result)

inc(c) == Modify(c, c.status, getvalue(c) + 1)
dec(c) == Modify(c, c.status, U16(getvalue(c) - 1))
asl(c) == LET result == 2 * getvalue(c)
          IN  Modify(c, carrycalc(c.status, result), result)
rol(c) == LET result == 2 * getvalue(c) + Carry(c.status)
          IN  Modify(c, carrycalc(c.status, result), result)
lsr(c) == LET value == getvalue(c)
          IN  Modify(c, SetFlag(c.status, "C", BitSet(value, 1)), value \div 2)
\* Slip: the carry is not rotated in.
ror_NoCarryIn(c) == LET value == getvalue(c)
                    IN  Modify(c, SetFlag(c.status, "C", BitSet(value, 1)), value \div 2)

ror(c) == LET value == getvalue(c)
          IN  Modify(c, SetFlag(c.status, "C", BitSet(value, 1)),
                     value \div 2 + 128 * Carry(c.status))

tsb(c) == LET value == getvalue(c)
          IN  putvalue([c EXCEPT !.status = zerocalc(@, And8(c.a, value))], Or8(value, c.a))
trb(c) == LET value == getvalue(c)
          IN  putvalue([c EXCEPT !.status = zerocalc(@, And8(c.a, value))],
                       And8(value, 255 - c.a))

BitMask ==
    [rmb0 |-> 1, rmb1 |-> 2, rmb2 |-> 4, rmb3 |-> 8, rmb4 |-> 16, rmb5 |-> 32, rmb6 |-> 64,
     rmb7 |-> 128, smb0 |-> 1, smb1 |-> 2, smb2 |-> 4, smb3 |-> 8, smb4 |-> 16, smb5 |-> 32,
     smb6 |-> 64, smb7 |-> 128, bbr0 |-> 1, bbr1 |-> 2, bbr2 |-> 4, bbr3 |-> 8, bbr4 |-> 16,
     bbr5 |-> 32, bbr6 |-> 64, bbr7 |-> 128, bbs0 |-> 1, bbs1 |-> 2, bbs2 |-> 4, bbs3 |-> 8,
     bbs4 |-> 16, bbs5 |-> 32, bbs6 |-> 64, bbs7 |-> 128]

rmb(c, bitmask) == putvalue(c, And8(getvalue(c), 255 - bitmask))
smb(c, bitmask) == putvalue(c, Or8(getvalue(c), bitmask))

(* A taken branch costs one tick, two when it leaves the page.              *)
Branch(c, taken) ==
    LET target == U16(c.pc + c.reladdr)
    IN  IF taken
          THEN [c EXCEPT !.pc = target, !.ticks = @ + IF Hi(c.pc) # Hi(target) THEN 2 ELSE 1]
          ELSE c

bra(c) == Branch(c, TRUE)
bcc(c) == Branch(c, "C" \notin c.status)
bcs(c) == Branch(c, "C" \in c.status)
bne(c) == Branch(c, "Z" \notin c.status)
beq(c) == Branch(c, "Z" \in c.status)
bpl(c) == Branch(c, "N" \notin c.status)
bmi(c) == Branch(c, "N" \in c.status)
bvc(c) == Branch(c, "V" \notin c.status)
bvs(c) == Branch(c, "V" \in c.status)
bbr(c, bitmask) == Branch(c, ~BitSet(getvalue(c), bitmask))
bbs(c, bitmask) == Branch(c, BitSet(getvalue(c), bitmask))

clc(c) == [c EXCEPT !.status = @ \ {"C"}]
cld(c) == [c EXCEPT !.status = @ \ {"D"}]
cli(c) == [c EXCEPT !.status = @ \ {"I"}]
clv(c) == [c EXCEPT !.status = @ \ {"V"}]
sec(c) == [c EXCEPT !.status = @ \union {"C"}]
sed(c) == [c EXCEPT !.status = @ \union {"D"}]
sei(c) == [c EXCEPT !.status = @ \union {"I"}]
nop(c) == c

pha(c) == push8(c, c.a)
phx(c) == push8(c, c.x)
phy(c) == push8(c, c.y)
php(c) == push8(c, StatusByte(c.status \union {"B"}))
pla(c) == LoadA(Pull(c, 1), Pulled8(c))
plx(c) == LoadX(Pull(c, 1), Pulled8(c))
ply(c) == LoadY(Pull(c, 1), Pulled8(c))
plp(c) == [Pull(c, 1) EXCEPT !.status = StatusOf(Pulled8(c)) \union {"One"}]

jmp(c) == [c EXCEPT !.pc = c.ea]
\* Slip: pushes the address behind the call, not that of its last byte.
jsr_Behind(c) == [push16(c, c.pc) EXCEPT !.pc = c.ea]

jsr(c) == [push16(c, U16(c.pc - 1)) EXCEPT !.pc = c.ea]
rts(c) == [Pull(c, 2) EXCEPT !.pc = U16(Pulled16(c) + 1)]

\* Slip: the return address is pulled before the status.
rti_SwappedPulls(c) ==
    [Pull(c, 3) EXCEPT !.pc = Pulled16(c), !.status = StatusOf(Pulled8(Pull(c, 2)))]

rti(c) == [Pull(c, 3) EXCEPT !.status = StatusOf(Pulled8(c)), !.pc = Pulled16(Pull(c, 1))]

brk(c) ==
    LET return == push16(c, U16(c.pc + 1))
        pushed == push8(return, StatusByte(c.status \union {"B"}))
    IN  [pushed EXCEPT !.status = (@ \union {"I"}) \ {"D"},
                       !.pc = Read16(pushed, 65534)]

stp(c) == [c EXCEPT !.stopped = TRUE]
\* Slip: waits although interrupts are masked.
wai_Masked(c) == [c EXCEPT !.waiting = TRUE]

wai(c) == [c EXCEPT !.waiting = @ \/ "I" \notin c.status]

Execute(c) ==
    LET insn == m_insn[c.opcode].insn
    IN  CASE insn = "adc" -> adc(c)
          [] insn = "And" -> And(c)
          [] insn = "asl" -> asl(c)
          [] insn = "bcc" -> bcc(c)
          [] insn = "bcs" -> bcs(c)
          [] insn = "beq" -> beq(c)
          [] insn = "bit" -> bit(c)
          [] insn = "bmi" -> bmi(c)
          [] insn = "bne" -> bne(c)
          [] insn = "bpl" -> bpl(c)
          [] insn = "bra" -> bra(c)
          [] insn = "brk" -> brk(c)
          [] insn = "bvc" -> bvc(c)
          [] insn = "bvs" -> bvs(c)
          [] insn = "clc" -> clc(c)
          [] insn = "cld" -> cld(c)
          [] insn = "cli" -> cli(c)
          [] insn = "clv" -> clv(c)
          [] insn = "cmp" -> cmp(c)
          [] insn = "cpx" -> cpx(c)
          [] insn = "cpy" -> cpy(c)
          [] insn = "dec" -> dec(c)
          [] insn = "dex" -> dex(c)
          [] insn = "dey" -> dey(c)
          [] insn = "eor" -> eor(c)
          [] insn = "inc" -> inc(c)
          [] insn = "inx" -> inx(c)
          [] insn = "iny" -> iny(c)
          [] insn = "jmp" -> jmp(c)
          [] insn = "jsr" -> jsr(c)
          [] insn = "lda" -> lda(c)
          [] insn = "ldx" -> ldx(c)
          [] insn = "ldy" -> ldy(c)
          [] insn = "lsr" -> lsr(c)
          [] insn = "nop" -> nop(c)
          [] insn = "ora" -> ora(c)
          [] insn = "pha" -> pha(c)
          [] insn = "php" -> php(c)
          [] insn = "phx" -> phx(c)
          [] insn = "phy" -> phy(c)
          [] insn = "pla" -> pla(c)
          [] insn = "plp" -> plp(c)
          [] insn = "plx" -> plx(c)
          [] insn = "ply" -> ply(c)
          [] insn = "rol" -> rol(c)
          [] insn = "ror" -> ror(c)
          [] insn = "rti" -> rti(c)
          [] insn = "rts" -> rts(c)
          [] insn = "sbc" -> sbc(c)
          [] insn = "sec" -> sec(c)
          [] insn = "sed" -> sed(c)
          [] insn = "sei" -> sei(c)
          [] insn = "sta" -> sta(c)
          [] insn = "stp" -> stp(c)
          [] insn = "stx" -> stx(c)
          [] insn = "sty" -> sty(c)
          [] insn = "stz" -> stz(c)
          [] insn = "tax" -> tax(c)
          [] insn = "tay" -> tay(c)
          [] insn = "trb" -> trb(c)
          [] insn = "tsb" -> tsb(c)
          [] insn = "tsx" -> tsx(c)
          [] insn = "txa" -> txa(c)
          [] insn = "txs" -> txs(c)
          [] insn = "tya" -> tya(c)
          [] insn = "wai" -> wai(c)
          [] insn \in {"rmb0", "rmb1", "rmb2", "rmb3", "rmb4", "rmb5", "rmb6", "rmb7"}
               -> rmb(c, BitMask[insn])
          [] insn \in {"smb0", "smb1", "smb2", "smb3", "smb4", "smb5", "smb6", "smb7"}
               -> smb(c, BitMask[insn])
          [] insn \in {"bbr0", "bbr1", "bbr2", "bbr3", "bbr4", "bbr5", "bbr6", "bbr7"}
               -> bbr(c, BitMask[insn])
          [] insn \in {"bbs0", "bbs1", "bbs2", "bbs3", "bbs4", "bbs5", "bbs6", "bbs7"}
               -> bbs(c, BitMask[insn])

-----------------------------------------------------------------------------
(* stepInstruction(), irq(), nmi() and reset()                              *)

FetchedInsn(c) == m_insn[read6502(c, c.pc)].insn

(* What stepInstruction() returns.                                          *)
RunsValid(c) == ~c.stopped /\ FetchedInsn(c) # "ill"

\* Slip: the page-crossing penalty of an earlier instruction is kept.
Fetch_PenaltyKept(c) ==
    [Skip(c, 1) EXCEPT !.opcode = read6502(c, c.pc), !.status = @ \union {"One"},
                       !.penaltyop = FALSE, !.ticks = 0]

Fetch(c) ==
    [Skip(c, 1) EXCEPT !.opcode = read6502(c, c.pc), !.status = @ \union {"One"},
                       !.penaltyop = FALSE, !.penaltyaddr = FALSE, !.ticks = 0]

\* Slip: the table's ticks are not added.
Charged_NoTicks(c) ==
    [c EXCEPT !.ticks = @ + IF c.penaltyop /\ c.penaltyaddr THEN 1 ELSE 0]

(* The ticks of the table, and one more for an operand across a page.      *)
Charged(c) ==
    [c EXCEPT !.ticks = @ + m_insn[c.opcode].ticks
                          + IF c.penaltyop /\ c.penaltyaddr THEN 1 ELSE 0]

stepInstruction(c) ==
    IF c.stopped
      THEN c
    ELSE IF FetchedInsn(c) = "ill"
      THEN [Fetch(c) EXCEPT !.pc = c.pc, !.stopped = TRUE]
    ELSE Charged(Execute(Address(Fetch(c))))

(* The members that hold operands while an instruction runs. No instruction *)
(* reads one that it has not written (Instructions.tla, ScratchIsDead).     *)
Scratch(c, ea, reladdr, opcode, penalty) ==
    [c EXCEPT !.ea = ea, !.reladdr = reladdr, !.opcode = opcode,
              !.penaltyop = penalty, !.penaltyaddr = penalty]

Settled(c) == Scratch(c, 0, 0, 0, FALSE)

(* The three bytes from sp down: the return address and the status that an  *)
(* interrupt pushes.                                                        *)
Frame(mem, sp) ==
    <<ReadMem(mem, Stack(sp)), ReadMem(mem, Stack(U8(sp - 1))), ReadMem(mem, Stack(U8(sp - 2)))>>

(* The return address that JSR pushes there.                                *)
ReturnAddress(mem, sp) == Word16(ReadMem(mem, Stack(U8(sp - 1))), ReadMem(mem, Stack(sp)))

(* Push the pc and the given status, mask interrupts and take the vector.   *)
Vector(c, status, address) ==
    LET pushed == push8(push16(c, c.pc), StatusByte(status))
    IN  [pushed EXCEPT !.status = @ \union {"I"},
                       !.pc = Read16(pushed, address),
                       !.waiting = FALSE]

nmi(c) == Vector(c, c.status, 65530)
irq(c) == Vector(c, c.status \ {"B"}, 65534)

(* Called with a memory controller; without one reset() changes nothing.    *)
reset(c) ==
    [c EXCEPT !.pc = Read16(c, 65532), !.a = 0, !.x = 0, !.y = 0, !.sp = 253,
              !.status = @ \union {"One"}, !.stopped = FALSE]
=============================================================================
