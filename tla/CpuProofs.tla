----------------------------- MODULE CpuProofs ------------------------------
(* Proofs about the instructions, for any memory controller and any state of *)
(* the registers: what each of them may change, what it costs, and that it   *)
(* depends on nothing that an earlier one left behind.                       *)
EXTENDS Cpu, TLAPS

-----------------------------------------------------------------------------
(* Bytes and words                                                           *)

(* The bounds of a byte and of a word.                                       *)
LEMMA ByteRange == ASSUME NEW n PROVE n \in Byte <=> n \in Nat /\ n < 256
BY SMT DEF Byte

(* The same for a word.                                                      *)
LEMMA WordRange == ASSUME NEW n PROVE n \in Word <=> n \in Nat /\ n < 65536
<1> DEFINE top == 65535
<1>1. top \in Nat
  BY SMT
<1>2. Word = 0..top
  BY DEF Word
<1>3. top < 65536 /\ \A k \in Nat : k <= top <=> k < 65536
  BY SMT
<1> HIDE DEF top
<1>4. n \in Word <=> n \in Nat /\ n <= top
  BY <1>1, <1>2, SMT
<1>. QED  BY <1>3, <1>4, SMT

(* Arithmetic of uint8_t and uint16_t stays in its width, and is exact there. *)
LEMMA U8Type == ASSUME NEW n \in Int PROVE U8(n) \in Byte /\ (n \in Byte => U8(n) = n)
BY ByteRange, SMT DEF U8

(* And uint16_t arithmetic gives a word.                                     *)
LEMMA U16Type == ASSUME NEW n \in Int PROVE U16(n) \in Word /\ (n \in Word => U16(n) = n)
BY WordRange, SMT DEF U16

(* A word and its bytes.                                                     *)
LEMMA WordOfBytes ==
    ASSUME NEW lo \in Byte, NEW hi \in Byte
    PROVE  Word16(lo, hi) \in Word
BY WordRange, ByteRange, SMT DEF Word16

(* The two bytes of a word.                                                  *)
LEMMA BytesOfWord ==
    ASSUME NEW n \in Word
    PROVE  /\ Lo(n) \in Byte /\ Hi(n) \in Byte
           /\ Word16(Lo(n), Hi(n)) = n
BY WordRange, ByteRange, SMT DEF Lo, Hi, Word16

(* rel() turns its byte into a 16-bit displacement.                          *)
LEMMA SignExtendType == ASSUME NEW n \in Byte PROVE SignExtend(n) \in Word
<1>1. n \in Nat /\ n < 256
  BY ByteRange
<1>2. n + 65280 \in Nat /\ n + 65280 < 65536
  BY <1>1, SMT
<1>3. n + 65280 \in Word
  BY <1>2, WordRange, SMT
<1>. QED  BY WordRange, <1>1, <1>3, SMT DEF SignExtend

(* A byte fits where a word does.                                            *)
LEMMA ByteInWord == ASSUME NEW n \in Byte PROVE n \in Word
BY ByteRange, WordRange, SMT

(* A byte is the sum of its bits.                                            *)
LEMMA BitsOfByte ==
    ASSUME NEW m \in Byte
    PROVE  m = Masked(m, 1, TRUE) + Masked(m, 2, TRUE) + Masked(m, 4, TRUE)
                 + Masked(m, 8, TRUE) + Masked(m, 16, TRUE) + Masked(m, 32, TRUE)
                 + Masked(m, 64, TRUE) + Masked(m, 128, TRUE)
BY SMTT(60) DEF Byte, Masked, BitSet

(* One bit of a conjunction is zero or its weight, and no more than the byte.*)
LEMMA MaskedBit ==
    ASSUME NEW m \in Byte, NEW n \in Byte, NEW w \in Nat
    PROVE  LET both == Masked(m, w, BitSet(n, w))
           IN  /\ both \in Nat
               /\ Masked(m, w, TRUE) \in Nat /\ Masked(n, w, TRUE) \in Nat
               /\ both <= Masked(m, w, TRUE)
               /\ both <= Masked(n, w, TRUE)
               /\ Masked(m, w, TRUE) + Masked(n, w, TRUE) <= both + w
BY SMT DEF Masked

(* The conjunction of two bytes is a byte.                                   *)
LEMMA AndType ==
    ASSUME NEW m \in Byte, NEW n \in Byte
    PROVE  /\ And8(m, n) \in Nat
           /\ And8(m, n) <= m /\ And8(m, n) <= n
           /\ m + n <= And8(m, n) + 255
<1> DEFINE M(w) == Masked(m, w, TRUE)
           N(w) == Masked(n, w, TRUE)
           B(w) == Masked(m, w, BitSet(n, w))
           Weights == {1, 2, 4, 8, 16, 32, 64, 128}
<1>1. \A w \in Weights : /\ B(w) \in Nat /\ M(w) \in Nat /\ N(w) \in Nat
                         /\ B(w) <= M(w) /\ B(w) <= N(w) /\ M(w) + N(w) <= B(w) + w
  <2> SUFFICES ASSUME NEW w \in Weights
               PROVE  /\ B(w) \in Nat /\ M(w) \in Nat /\ N(w) \in Nat
                      /\ B(w) <= M(w) /\ B(w) <= N(w) /\ M(w) + N(w) <= B(w) + w
    OBVIOUS
  <2>1. w \in Nat
    BY SMT
  <2>. QED  BY <2>1, MaskedBit
<1>2. m = M(1) + M(2) + M(4) + M(8) + M(16) + M(32) + M(64) + M(128)
  BY BitsOfByte
<1>3. n = N(1) + N(2) + N(4) + N(8) + N(16) + N(32) + N(64) + N(128)
  BY BitsOfByte
<1>4. And8(m, n) = B(1) + B(2) + B(4) + B(8) + B(16) + B(32) + B(64) + B(128)
  BY DEF And8
<1> HIDE DEF M, N, B
<1>. QED  BY <1>1, <1>2, <1>3, <1>4, SMT

(* The bitwise operators of C on bytes give bytes.                           *)
LEMMA BitwiseType ==
    ASSUME NEW m \in Byte, NEW n \in Byte
    PROVE  And8(m, n) \in Byte /\ Or8(m, n) \in Byte /\ Xor8(m, n) \in Byte
<1>1. /\ m \in Nat /\ n \in Nat
      /\ m < 256 /\ n < 256
  BY ByteRange
<1>2. /\ And8(m, n) \in Nat
      /\ And8(m, n) <= m /\ And8(m, n) <= n
      /\ m + n <= And8(m, n) + 255
  BY AndType
<1> DEFINE both == And8(m, n)
<1> HIDE DEF both
<1>3. /\ both \in Nat /\ both < 256
      /\ m + n - both \in Nat /\ m + n - both < 256
      /\ m + n - 2 * both \in Nat /\ m + n - 2 * both < 256
  BY <1>1, <1>2, SMT DEF both
<1>4. both \in Byte /\ m + n - both \in Byte /\ m + n - 2 * both \in Byte
  BY <1>3, ByteRange
<1>. QED  BY <1>4 DEF both, Or8, Xor8

-----------------------------------------------------------------------------
(* The instruction table                                                     *)

Modes == {"acc", "imp", "imm", "abso", "absx", "absy", "ind", "ainx", "rel", "zp", "zpx",
          "zpy", "indx", "ind0", "indy", "zprel"}
EaModes == Modes \ {"acc", "imp", "rel"}       \* leave the operand's address in ea
Crossing == {"absx", "absy", "indy"}           \* may raise the page-crossing penalty

LoadOps == {"lda", "ldx", "ldy", "And", "ora", "eor", "cmp"}
Adds == {"adc", "sbc"}
Compares == {"cpx", "cpy", "bit"}
Stores == {"sta", "stx", "sty", "stz"}
Modifies == {"inc", "dec", "asl", "rol", "lsr", "ror", "tsb", "trb"}
Rmbs == {"rmb0", "rmb1", "rmb2", "rmb3", "rmb4", "rmb5", "rmb6", "rmb7"}
Smbs == {"smb0", "smb1", "smb2", "smb3", "smb4", "smb5", "smb6", "smb7"}
Bbrs == {"bbr0", "bbr1", "bbr2", "bbr3", "bbr4", "bbr5", "bbr6", "bbr7"}
Bbss == {"bbs0", "bbs1", "bbs2", "bbs3", "bbs4", "bbs5", "bbs6", "bbs7"}
Branches == {"bra", "bcc", "bcs", "bne", "beq", "bpl", "bmi", "bvc", "bvs"}
Transfers == {"tax", "tay", "txa", "tya", "tsx", "txs", "inx", "iny", "dex", "dey"}
Marks == {"clc", "cld", "cli", "clv", "sec", "sed", "sei", "nop"}
Pushes == {"pha", "phx", "phy", "php"}
Pulls == {"pla", "plx", "ply", "plp"}
Jumps == {"jmp", "jsr", "rts", "rti", "brk"}
Halts == {"stp", "wai"}

Operate == LoadOps \union Adds \union Compares \union Stores \union Modifies
             \union Rmbs \union Smbs           \* through getvalue() and putvalue()
Relative == Branches \union Bbrs \union Bbss
Implied == Transfers \union Marks \union Pushes \union Pulls \union Halts
Insns == Operate \union Relative \union Implied \union Jumps

Alone == Transfers \union Pushes \union Pulls \union {"rts", "rti", "brk"}

(* What the proofs need to know of an entry: an instruction that reads ea or *)
(* reladdr has a mode that sets it, and what all it may cost stays within 7. *)
EntryOK(insn, mode, ticks) ==
    /\ insn \in Insns \union {"ill"}
    /\ mode \in Modes
    /\ ticks \in 1..7
    /\ insn \in Operate => mode \in EaModes \union {"acc"}
    /\ insn \in {"jmp", "jsr"} => mode \in EaModes
    /\ insn = "jsr" => mode = "abso"
    /\ insn \in Alone => mode = "imp"
    /\ insn \in Branches => mode = "rel"
    /\ insn \in Bbrs \union Bbss => mode = "zprel"
    /\ insn \in LoadOps \union Adds /\ mode \in Crossing => ticks <= 5
    /\ insn \in Adds => ticks <= 6
    /\ insn \in Relative => ticks <= 5
    /\ insn = "wai" => ticks = 3
    /\ IF insn = "stp" THEN ticks = 1 ELSE ticks >= 2

(* Every entry of each quarter of the table, by cases.                       *)
LEMMA Entries_00 ==
    ASSUME NEW r \in 1..16, NEW k \in 1..4, NEW e \in {m_insn_00[r][k]}
    PROVE  EntryOK(e[1], e[2], e[3])
BY SMTT(120)
   DEF EntryOK, Alone, m_insn_00, ill, Modes, EaModes, Crossing, Insns, Operate, Relative, Implied,
       LoadOps, Adds, Compares, Stores, Modifies, Rmbs, Smbs, Bbrs, Bbss, Branches, Transfers,
       Marks, Pushes, Pulls, Jumps, Halts

(* The second quarter.                                                       *)
LEMMA Entries_40 ==
    ASSUME NEW r \in 1..16, NEW k \in 1..4, NEW e \in {m_insn_40[r][k]}
    PROVE  EntryOK(e[1], e[2], e[3])
BY SMTT(120)
   DEF EntryOK, Alone, m_insn_40, ill, Modes, EaModes, Crossing, Insns, Operate, Relative, Implied,
       LoadOps, Adds, Compares, Stores, Modifies, Rmbs, Smbs, Bbrs, Bbss, Branches, Transfers,
       Marks, Pushes, Pulls, Jumps, Halts

(* The third quarter.                                                        *)
LEMMA Entries_80 ==
    ASSUME NEW r \in 1..16, NEW k \in 1..4, NEW e \in {m_insn_80[r][k]}
    PROVE  EntryOK(e[1], e[2], e[3])
BY SMTT(120)
   DEF EntryOK, Alone, m_insn_80, ill, Modes, EaModes, Crossing, Insns, Operate, Relative, Implied,
       LoadOps, Adds, Compares, Stores, Modifies, Rmbs, Smbs, Bbrs, Bbss, Branches, Transfers,
       Marks, Pushes, Pulls, Jumps, Halts

(* The last quarter.                                                         *)
LEMMA Entries_c0 ==
    ASSUME NEW r \in 1..16, NEW k \in 1..4, NEW e \in {m_insn_c0[r][k]}
    PROVE  EntryOK(e[1], e[2], e[3])
BY SMTT(120)
   DEF EntryOK, Alone, m_insn_c0, ill, Modes, EaModes, Crossing, Insns, Operate, Relative, Implied,
       LoadOps, Adds, Compares, Stores, Modifies, Rmbs, Smbs, Bbrs, Bbss, Branches, Transfers,
       Marks, Pushes, Pulls, Jumps, Halts

(* All 256 opcodes: m_insn pairs each instruction with a mode that serves it.*)
LEMMA Table ==
    ASSUME NEW opcode \in Byte
    PROVE  EntryOK(m_insn[opcode].insn, m_insn[opcode].mode, m_insn[opcode].ticks)
<1> DEFINE q == (opcode \div 64) + 1
           r == ((opcode % 64) \div 4) + 1
           k == (opcode % 4) + 1
           e == <<m_insn_00, m_insn_40, m_insn_80, m_insn_c0>>[q][r][k]
<1>1. q \in 1..4 /\ r \in 1..16 /\ k \in 1..4
  BY SMT DEF Byte
<1>2. m_insn[opcode] = [insn |-> e[1], mode |-> e[2], ticks |-> e[3]]
  BY Zenon DEF m_insn, Byte
<1> HIDE DEF q, r, k
<1>3. \/ e = m_insn_00[r][k] \/ e = m_insn_40[r][k]
      \/ e = m_insn_80[r][k] \/ e = m_insn_c0[r][k]
  BY <1>1, SMT
<1> HIDE DEF e
<1>4. EntryOK(e[1], e[2], e[3])
  BY <1>1, <1>3, Entries_00, Entries_40, Entries_80, Entries_c0, Zenon
<1>. QED  BY <1>2, <1>4

(* Opcode $FF is BBS7, which tests bit 7 of a byte of page zero and branches. *)
LEMMA LastEntry == m_insn[255] = [insn |-> "bbs7", mode |-> "zprel", ticks |-> 2]
BY SMT DEF m_insn, m_insn_c0

-----------------------------------------------------------------------------
(* The CPU and its memory                                                    *)

(* The members of the class, in their C++ widths, and ticks, which only      *)
(* counts up while an instruction runs.                                      *)
Cpus(Contents) ==
    [hasMem : BOOLEAN, mem : Contents, pc : Word, sp : Byte, a : Byte, x : Byte, y : Byte,
     status : SUBSET Flags, ea : Word, reladdr : Word, opcode : Byte, penaltyop : BOOLEAN,
     penaltyaddr : BOOLEAN, waiting : BOOLEAN, stopped : BOOLEAN, ticks : Nat]

(* What the declarations of IMemoryController promise: readMem() returns a   *)
(* uint8_t, whatever uint8_t values writeMem() was given before.             *)
HoldsBytes(Contents) ==
    \A mem \in Contents, address \in Word :
        /\ ReadMem(mem, address) \in Byte
        /\ \A value \in Byte : WriteMem(mem, address, value) \in Contents

(* Execution leaves these alone: the controller, and what fetching and       *)
(* addressing have set up.                                                   *)
Kept(c, d) ==
    /\ d.hasMem = c.hasMem
    /\ d.opcode = c.opcode
    /\ d.penaltyaddr = c.penaltyaddr

(* And all but WAI, STP, the branches and penalised instructions these.      *)
Quiet(c, d) ==
    /\ Kept(c, d)
    /\ d.penaltyop = c.penaltyop
    /\ d.waiting = c.waiting
    /\ d.stopped = c.stopped
    /\ d.ticks = c.ticks

(* The CPU as constructed, with its memory.                                  *)
LEMMA InitCpu ==
    ASSUME NEW Contents, NEW mem \in Contents
    PROVE  init(mem) \in Cpus(Contents)
<1>1. 0 \in Byte /\ 0 \in Word
  BY ByteRange, WordRange, SMT
<1>. QED  BY <1>1 DEF init, Cpus

(* read6502() gives a byte, whatever address it is passed, and without memory 0.*)
LEMMA ReadType ==
    ASSUME NEW Contents, HoldsBytes(Contents), NEW c \in Cpus(Contents), NEW address \in Int
    PROVE  read6502(c, address) \in Byte
<1>1. 255 \in Byte
  BY SMT DEF Byte
<1>. QED  BY <1>1, U16Type DEF read6502, Cpus, HoldsBytes

(* write6502() changes nothing but the contents.                             *)
LEMMA WriteType ==
    ASSUME NEW Contents, HoldsBytes(Contents), NEW c \in Cpus(Contents), NEW address \in Int,
           NEW value \in Byte
    PROVE  LET d == write6502(c, address, value)
           IN  /\ d \in Cpus(Contents)
               /\ Quiet(c, d)
               /\ d.sp = c.sp /\ d.pc = c.pc /\ d.status = c.status
BY U16Type DEF write6502, Cpus, HoldsBytes, Quiet, Kept

(* Two bytes read are a word, also where the pointer wraps in page zero.     *)
LEMMA Read16Type ==
    ASSUME NEW Contents, HoldsBytes(Contents), NEW c \in Cpus(Contents), NEW address \in Int
    PROVE  Read16(c, address) \in Word /\ Read16Page0(c, address) \in Word
<1>1. address + 1 \in Int /\ U8(address + 1) \in Int
  BY U8Type, ByteRange
<1>2. /\ read6502(c, address) \in Byte
      /\ read6502(c, address + 1) \in Byte
      /\ read6502(c, U8(address + 1)) \in Byte
  BY <1>1, ReadType
<1>. QED  BY <1>2, WordOfBytes DEF Read16, Read16Page0

(* The stack pointer wraps within its byte, pushing and pulling.             *)
LEMMA PushType ==
    ASSUME NEW Contents, HoldsBytes(Contents), NEW c \in Cpus(Contents)
    PROVE  /\ \A value \in Byte : LET d == push8(c, value)
                                  IN  /\ d \in Cpus(Contents)
                                      /\ Quiet(c, d) /\ d.pc = c.pc /\ d.status = c.status
           /\ \A value \in Word : LET d == push16(c, value)
                                  IN  /\ d \in Cpus(Contents)
                                      /\ Quiet(c, d) /\ d.pc = c.pc /\ d.status = c.status
<1>0. /\ c.sp \in Int /\ Stack(c.sp) \in Int
      /\ U8(c.sp - 1) \in Byte /\ Stack(U8(c.sp - 1)) \in Int
      /\ U8(c.sp - 2) \in Byte
  <2>1. c.sp \in Int
    BY ByteRange DEF Cpus
  <2>2. U8(c.sp - 1) \in Byte /\ U8(c.sp - 2) \in Byte
    BY <2>1, U8Type
  <2>. QED  BY <2>1, <2>2, ByteRange DEF Stack
<1>1. ASSUME NEW value \in Byte
      PROVE  LET d == push8(c, value)
             IN  d \in Cpus(Contents) /\ Quiet(c, d) /\ d.pc = c.pc /\ d.status = c.status
  <2> DEFINE w == write6502(c, Stack(c.sp), value)
  <2>1. w \in Cpus(Contents) /\ Quiet(c, w) /\ w.sp = c.sp /\ w.pc = c.pc /\ w.status = c.status
    BY <1>0, <1>1, WriteType
  <2>2. push8(c, value) = [w EXCEPT !.sp = U8(w.sp - 1)]
    BY DEF push8
  <2> HIDE DEF w
  <2>. QED  BY <1>0, <2>1, <2>2 DEF Cpus, Quiet, Kept
<1>2. ASSUME NEW value \in Word
      PROVE  LET d == push16(c, value)
             IN  d \in Cpus(Contents) /\ Quiet(c, d) /\ d.pc = c.pc /\ d.status = c.status
  <2> DEFINE high == write6502(c, Stack(c.sp), Hi(value))
             low == write6502(high, Stack(U8(c.sp - 1)), Lo(value))
  <2>0. Hi(value) \in Byte /\ Lo(value) \in Byte
    BY <1>2, BytesOfWord
  <2>1. /\ high \in Cpus(Contents) /\ Quiet(c, high)
        /\ high.sp = c.sp /\ high.pc = c.pc /\ high.status = c.status
    BY <1>0, <2>0, WriteType
  <2> HIDE DEF high
  <2>2. /\ low \in Cpus(Contents) /\ Quiet(high, low)
        /\ low.sp = high.sp /\ low.pc = high.pc /\ low.status = high.status
    BY <1>0, <2>0, <2>1, WriteType
  <2>3. push16(c, value) = [low EXCEPT !.sp = U8(low.sp - 2)]
    BY DEF push16, high
  <2> HIDE DEF low
  <2>. QED  BY <1>0, <2>1, <2>2, <2>3 DEF Cpus, Quiet, Kept
<1>. QED  BY <1>1, <1>2

(* pull8() and pull16() keep the stack pointer a byte.                       *)
LEMMA PullType ==
    ASSUME NEW Contents, HoldsBytes(Contents), NEW c \in Cpus(Contents), NEW bytes \in Nat
    PROVE  /\ Pulled8(c) \in Byte
           /\ Pulled16(c) \in Word
           /\ Pull(c, bytes) \in Cpus(Contents)
           /\ Quiet(c, Pull(c, bytes))
           /\ Pull(c, bytes).status = c.status
<1>1. c.sp \in Int
  BY ByteRange DEF Cpus
<1>2. U8(c.sp + 1) \in Byte /\ U8(c.sp + 2) \in Byte /\ U8(c.sp + bytes) \in Byte
  BY <1>1, U8Type
<1>3. Stack(U8(c.sp + 1)) \in Int /\ Stack(U8(c.sp + 2)) \in Int
  BY <1>2, ByteRange DEF Stack
<1>4. Pulled8(c) \in Byte /\ Pulled16(c) \in Word
  BY <1>3, ReadType, WordOfBytes DEF Pulled8, Pulled16
<1>. QED  BY <1>2, <1>4 DEF Pull, Cpus, Quiet, Kept

(* The status register and the byte it is pushed as.                         *)
LEMMA StatusType ==
    ASSUME NEW status, NEW byte
    PROVE  StatusByte(status) \in Byte /\ StatusOf(byte) \in SUBSET Flags
BY ByteRange, SMT DEF StatusByte, StatusOf, FlagWeight

-----------------------------------------------------------------------------
(* Addressing modes                                                          *)

(* They set ea and reladdr, skip their operand bytes and may raise the       *)
(* page-crossing penalty, all else staying as it is.                         *)
Addressed(c, d) ==
    /\ Quiet([c EXCEPT !.penaltyaddr = d.penaltyaddr], d)
    /\ d.mem = c.mem
    /\ d.sp = c.sp /\ d.a = c.a /\ d.x = c.x /\ d.y = c.y
    /\ d.status = c.status

(* The modes that only set the one, the other, or both.                      *)
SetsEa(c, bytes, ea) == [Skip(c, bytes) EXCEPT !.ea = ea]
SetsRel(c, bytes, reladdr) == [Skip(c, bytes) EXCEPT !.reladdr = reladdr]
SetsBoth(c, bytes, ea, reladdr) == [Skip(c, bytes) EXCEPT !.ea = ea, !.reladdr = reladdr]

(* A mode that does so leaves the CPU legal and the penalty as it is.        *)
LEMMA PlainMode ==
    ASSUME NEW Contents, NEW c \in Cpus(Contents), NEW bytes \in Nat, NEW ea \in Word,
           NEW reladdr \in Word,
           NEW d \in {SetsEa(c, bytes, ea), SetsRel(c, bytes, reladdr),
                      SetsBoth(c, bytes, ea, reladdr)}
    PROVE  /\ d \in Cpus(Contents)
           /\ Addressed(c, d)
           /\ d.penaltyaddr = c.penaltyaddr
<1>1. U16(c.pc + bytes) \in Word
  BY U16Type, WordRange DEF Cpus
<1>. QED  BY <1>1, Zenon DEF SetsEa, SetsRel, SetsBoth, Skip, Cpus, Addressed, Quiet, Kept

(* So does an indexed one, which may raise the penalty.                      *)
LEMMA IndexedMode ==
    ASSUME NEW Contents, NEW c \in Cpus(Contents), NEW base \in Word, NEW index \in Byte,
           NEW bytes \in Nat
    PROVE  Indexed(c, base, index, bytes) \in Cpus(Contents)
           /\ Addressed(c, Indexed(c, base, index, bytes))
<1>1. U16(c.pc + bytes) \in Word /\ U16(base + index) \in Word
  BY U16Type, WordRange, ByteRange DEF Cpus
<1>. QED  BY <1>1 DEF Indexed, Skip, Cpus, Addressed, Quiet, Kept

(* Every mode of the table.                                                  *)
LEMMA AddressType ==
    ASSUME NEW Contents, HoldsBytes(Contents), NEW c \in Cpus(Contents)
    PROVE  /\ Address(c) \in Cpus(Contents)
           /\ Addressed(c, Address(c))
           /\ m_insn[c.opcode].mode \notin Crossing
                 => Address(c).penaltyaddr = c.penaltyaddr
<1> DEFINE Plain(d) == /\ d \in Cpus(Contents)
                       /\ Addressed(c, d)
                       /\ d.penaltyaddr = c.penaltyaddr
           Cross(d) == d \in Cpus(Contents) /\ Addressed(c, d)
           operand == read6502(c, c.pc)
<1>1. /\ c.opcode \in Byte /\ c.pc \in Word /\ c.pc \in Int
      /\ c.x \in Byte /\ c.x \in Int /\ c.y \in Byte /\ c.y \in Int
  BY ByteRange, WordRange DEF Cpus
<1>2. operand \in Byte /\ operand \in Int /\ operand \in Word
  BY <1>1, ReadType, ByteRange, ByteInWord
<1>3. Read16(c, c.pc) \in Word /\ Read16(c, c.pc) \in Int
  BY <1>1, Read16Type, WordRange
<1>4. /\ Read16Page0(c, operand) \in Word
      /\ U8(operand + c.x) \in Byte /\ U8(operand + c.x) \in Int
      /\ U8(operand + c.y) \in Byte
      /\ U16(Read16(c, c.pc) + c.x) \in Int
  BY <1>1, <1>2, <1>3, Read16Type, U8Type, U16Type, ByteRange, WordRange
<1>5. /\ Read16(c, Read16(c, c.pc)) \in Word
      /\ Read16(c, U16(Read16(c, c.pc) + c.x)) \in Word
      /\ Read16(c, U8(operand + c.x)) \in Word
      /\ SignExtend(operand) \in Word
      /\ SignExtend(read6502(c, c.pc + 1)) \in Word
      /\ U8(operand + c.x) \in Word /\ U8(operand + c.y) \in Word
  <2>1. c.pc + 1 \in Int
    BY <1>1
  <2>. QED  BY <1>2, <1>3, <1>4, <2>1, Read16Type, ReadType, SignExtendType, ByteInWord
<1>6. Plain(acc(c)) /\ Plain(imp(c))
  BY DEF acc, imp, Cpus, Addressed, Quiet, Kept
<1> HIDE DEF Plain
<1>7. ASSUME NEW bytes \in Nat, NEW ea \in Word, NEW reladdr \in Word
      PROVE  /\ Plain(SetsEa(c, bytes, ea))
             /\ Plain(SetsRel(c, bytes, reladdr))
             /\ Plain(SetsBoth(c, bytes, ea, reladdr))
  BY PlainMode DEF Plain
<1>8. /\ Plain(imm(c)) /\ Plain(abso(c)) /\ Plain(ind(c)) /\ Plain(ainx(c))
      /\ Plain(zp(c)) /\ Plain(zpx(c)) /\ Plain(zpy(c)) /\ Plain(indx(c)) /\ Plain(ind0(c))
      /\ Plain(rel(c)) /\ Plain(zprel(c))
  <2>1. /\ imm(c) = SetsEa(c, 1, c.pc)
        /\ abso(c) = SetsEa(c, 2, Read16(c, c.pc))
        /\ ind(c) = SetsEa(c, 2, Read16(c, Read16(c, c.pc)))
        /\ ainx(c) = SetsEa(c, 2, Read16(c, U16(Read16(c, c.pc) + c.x)))
        /\ zp(c) = SetsEa(c, 1, operand)
        /\ zpx(c) = SetsEa(c, 1, U8(operand + c.x))
        /\ zpy(c) = SetsEa(c, 1, U8(operand + c.y))
        /\ indx(c) = SetsEa(c, 1, Read16(c, U8(operand + c.x)))
        /\ ind0(c) = SetsEa(c, 1, Read16Page0(c, operand))
        /\ rel(c) = SetsRel(c, 1, SignExtend(operand))
        /\ zprel(c) = SetsBoth(c, 2, operand, SignExtend(read6502(c, c.pc + 1)))
    BY DEF SetsEa, SetsRel, SetsBoth, imm, abso, ind, ainx, zp, zpx, zpy, indx, ind0, rel, zprel
  <2>2. c.pc \in Word
    BY <1>1
  <2> HIDE DEF operand
  <2>. QED  BY <1>2, <1>3, <1>4, <1>5, <1>7, <2>1, <2>2
<1>9. Cross(absx(c)) /\ Cross(absy(c)) /\ Cross(indy(c))
  BY <1>1, <1>3, <1>4, IndexedMode DEF absx, absy, indy
<1>10. m_insn[c.opcode].mode \in Modes
  BY <1>1, Table DEF EntryOK
<1> HIDE DEF Cross
<1>11. /\ m_insn[c.opcode].mode \notin Crossing => Plain(Address(c))
       /\ m_insn[c.opcode].mode \in Crossing => Cross(Address(c))
  BY <1>6, <1>7, <1>8, <1>9, <1>10 DEF Address, Modes, Crossing
<1>. QED  BY <1>11 DEF Plain, Cross

-----------------------------------------------------------------------------
(* Flags and results                                                         *)

(* The helpers of the flags only set and clear flags.                        *)
LEMMA FlagsType ==
    ASSUME NEW status \in SUBSET Flags, NEW n, NEW flag \in Flags, NEW on \in BOOLEAN
    PROVE  /\ SetFlag(status, flag, on) \in SUBSET Flags
           /\ zerocalc(status, n) \in SUBSET Flags
           /\ signcalc(status, n) \in SUBSET Flags
           /\ carrycalc(status, n) \in SUBSET Flags
           /\ ZeroSign(status, n) \in SUBSET Flags
BY DEF SetFlag, zerocalc, signcalc, carrycalc, ZeroSign, Flags

(* The carry counts as 0 or 1.                                               *)
LEMMA CarryType == ASSUME NEW status PROVE Carry(status) \in 0..1
BY DEF Carry

(* CMP, CPX and CPY leave flags.                                             *)
LEMMA CompareType ==
    ASSUME NEW status \in SUBSET Flags, NEW register, NEW value
    PROVE  Compare(register, value, status) \in SUBSET Flags
BY DEF Compare, signcalc, SetFlag, Flags

(* adc() and sbc(), binary and decimal: a 16-bit result and its flags.       *)
LEMMA AdcType ==
    ASSUME NEW a \in Byte, NEW value \in Byte, NEW status \in SUBSET Flags
    PROVE  /\ adcBinary(a, value, status).result \in Word
           /\ adcDecimal(a, value, status).result \in Word
           /\ adcBinary(a, value, status).status \in SUBSET Flags
           /\ adcDecimal(a, value, status).status \in SUBSET Flags
<1>1. /\ a \in Nat /\ a < 256 /\ value \in Nat /\ value < 256
      /\ Carry(status) \in 0..1
  BY ByteRange, CarryType
<1>2. adcBinary(a, value, status).result \in Word
  BY <1>1, WordRange, SMT DEF adcBinary
<1>3. adcDecimal(a, value, status).result \in Word
  <2> DEFINE low == LowNibble(a) + LowNibble(value) + Carry(status)
             high == HighNibble(a) + HighNibble(value) + IF low > 9 THEN 16 ELSE 0
             adjusted == IF high > 144 THEN high + 96 ELSE high
             first == LowNibble(IF low > 9 THEN low + 6 ELSE low)
             second == HighNibble(U8(adjusted))
  <2>1. low \in Nat /\ high \in Int
    BY <1>1, SMT DEF LowNibble, HighNibble
  <2> HIDE DEF low
  <2>2. first \in 0..15
    BY <2>1, SMT DEF LowNibble
  <2> HIDE DEF high
  <2>3. adjusted \in Int
    BY <2>1, SMT
  <2> HIDE DEF adjusted
  <2>4. U8(adjusted) \in Nat /\ U8(adjusted) < 256
    BY <2>3, U8Type, ByteRange
  <2>5. second \in Nat /\ second < 256
    BY <2>4, SMT DEF HighNibble
  <2>6. adcDecimal(a, value, status).result = first + second
    BY DEF adcDecimal, low, high, adjusted
  <2> HIDE DEF first, second
  <2>7. first + second \in Nat /\ first + second < 65536
    BY <2>2, <2>5, SMT
  <2>. QED  BY <2>6, <2>7, WordRange
<1>4. adcBinary(a, value, status).status \in SUBSET Flags
  BY DEF adcBinary, ZeroSign, zerocalc, signcalc, overflowcalc, carrycalc, SetFlag, Flags
<1>5. adcDecimal(a, value, status).status \in SUBSET Flags
  BY DEF adcDecimal, ZeroSign, zerocalc, signcalc, carrycalc, SetFlag, Flags
<1>. QED  BY <1>2, <1>3, <1>4, <1>5

(* SBC gives a result of 16 bits and flags, in binary and in decimal mode.   *)
LEMMA SbcType ==
    ASSUME NEW a \in Byte, NEW value \in Byte, NEW status \in SUBSET Flags
    PROVE  /\ sbcBinary(a, value, status).result \in Word
           /\ sbcDecimal(a, value, status).result \in Word
           /\ sbcBinary(a, value, status).status \in SUBSET Flags
           /\ sbcDecimal(a, value, status).status \in SUBSET Flags
<1>1. /\ a \in Nat /\ value \in Nat /\ Carry(status) \in 0..1
      /\ 255 - value \in Byte
  BY ByteRange, CarryType, SMT
<1>2. /\ sbcBinary(a, value, status).result \in Word
      /\ sbcBinary(a, value, status).status \in SUBSET Flags
  BY <1>1, AdcType DEF sbcBinary
<1>3. sbcDecimal(a, value, status).result \in Word
  <2> DEFINE difference == U16(a - LowNibble(value) + Carry(status) - 1)
             low == IF LowNibble(difference) > LowNibble(a) THEN U16(difference - 6)
                    ELSE difference
             high == U16(low - HighNibble(value))
  <2>1. a - LowNibble(value) + Carry(status) - 1 \in Int /\ HighNibble(value) \in Int
    BY <1>1, SMT DEF LowNibble, HighNibble
  <2>2. difference \in Word /\ difference \in Int
    BY <2>1, U16Type, WordRange
  <2> HIDE DEF difference
  <2>3. low \in Word /\ low \in Int
    BY <2>2, U16Type, WordRange
  <2> HIDE DEF low
  <2>4. high \in Word /\ high \in Int
    BY <2>1, <2>3, U16Type, WordRange
  <2> HIDE DEF high
  <2>5. (IF HighNibble(high) > HighNibble(a) THEN U16(high - 96) ELSE high) \in Word
    BY <2>4, U16Type, WordRange
  <2>. QED  BY <2>5 DEF sbcDecimal, high, low, difference
<1>4. sbcDecimal(a, value, status).status \in SUBSET Flags
  BY DEF sbcDecimal, ZeroSign, zerocalc, signcalc, SetFlag, Flags
<1>. QED  BY <1>2, <1>3, <1>4

(* ADC and SBC in the mode that D selects.                                   *)
LEMMA SumType ==
    ASSUME NEW a \in Byte, NEW value \in Byte, NEW status \in SUBSET Flags
    PROVE  /\ AdcResult(a, value, status).result \in Word
           /\ AdcResult(a, value, status).status \in SUBSET Flags
           /\ SbcResult(a, value, status).result \in Word
           /\ SbcResult(a, value, status).status \in SUBSET Flags
BY AdcType, SbcType DEF AdcResult, SbcResult

-----------------------------------------------------------------------------
(* Instructions                                                              *)

(* Execution from c to d, in a legal state, with the waiting and stopped     *)
(* members as they were.                                                     *)
Executes(Contents, c, d) ==
    /\ d \in Cpus(Contents)
    /\ Kept(c, d)
    /\ d.waiting = c.waiting
    /\ d.stopped = c.stopped

(* getvalue() gives a byte.                                                  *)
LEMMA OperandType ==
    ASSUME NEW Contents, HoldsBytes(Contents), NEW c \in Cpus(Contents)
    PROVE  getvalue(c) \in Byte /\ getvalue(c) \in Nat
<1>1. c.ea \in Int
  BY WordRange DEF Cpus
<1>2. getvalue(c) \in Byte
  BY <1>1, ReadType DEF getvalue, Cpus
<1>. QED  BY <1>2, ByteRange

(* putvalue() keeps the CPU legal, in the accumulator and in memory.         *)
LEMMA ResultType ==
    ASSUME NEW Contents, HoldsBytes(Contents), NEW c \in Cpus(Contents), NEW value \in Int
    PROVE  LET d == putvalue(c, value)
           IN  /\ d \in Cpus(Contents)
               /\ Quiet(c, d)
               /\ d.status = c.status
<1>1. c.ea \in Int /\ U8(value) \in Byte
  BY WordRange, U8Type DEF Cpus
<1>2. /\ write6502(c, c.ea, U8(value)) \in Cpus(Contents)
      /\ Quiet(c, write6502(c, c.ea, U8(value)))
      /\ write6502(c, c.ea, U8(value)).status = c.status
  BY <1>1, WriteType
<1>3. [c EXCEPT !.a = U8(value)] \in Cpus(Contents) /\ Quiet(c, [c EXCEPT !.a = U8(value)])
      /\ [c EXCEPT !.a = U8(value)].status = c.status
  BY <1>1 DEF Cpus, Quiet, Kept
<1>. QED  BY <1>2, <1>3 DEF putvalue

(* penaltyop is all that penaltyop = 1 changes.                              *)
LEMMA PenaltyType ==
    ASSUME NEW Contents, NEW c \in Cpus(Contents)
    PROVE  /\ Executes(Contents, c, PenaltyOp(c))
           /\ PenaltyOp(c).ticks = c.ticks
           /\ PenaltyOp(c).status = c.status
           /\ PenaltyOp(c).a = c.a
BY DEF PenaltyOp, Executes, Cpus, Kept

(* Loading a register with a byte.                                           *)
LEMMA LoadType ==
    ASSUME NEW Contents, NEW c \in Cpus(Contents), NEW value \in Byte,
           NEW d \in {LoadA(c, value), LoadX(c, value), LoadY(c, value)}
    PROVE  d \in Cpus(Contents) /\ Quiet(c, d)
<1>1. ZeroSign(c.status, value) \in SUBSET Flags
  BY FlagsType DEF Cpus, Flags
<1>. QED  BY <1>1 DEF LoadA, LoadX, LoadY, Cpus, Quiet, Kept

(* LDA, LDX, LDY, AND, ORA, EOR and CMP.                                     *)
LEMMA LoadsRun ==
    ASSUME NEW Contents, HoldsBytes(Contents), NEW c \in Cpus(Contents),
           NEW d \in {lda(c), ldx(c), ldy(c), And(c), ora(c), eor(c), cmp(c)}
    PROVE  Executes(Contents, c, d) /\ d.ticks = c.ticks
<1> DEFINE p == PenaltyOp(c)
           value == getvalue(c)
<1>1. p \in Cpus(Contents) /\ Executes(Contents, c, p) /\ p.ticks = c.ticks /\ p.status = c.status
  BY PenaltyType DEF Executes
<1>2. value \in Byte /\ c.a \in Byte
  BY OperandType DEF Cpus
<1>3. /\ And8(c.a, value) \in Byte /\ Or8(c.a, value) \in Byte /\ Xor8(c.a, value) \in Byte
  BY <1>2, BitwiseType
<1>4. ASSUME NEW result \in Byte,
             NEW l \in {LoadA(p, result), LoadX(p, result), LoadY(p, result)}
      PROVE  Executes(Contents, c, l) /\ l.ticks = c.ticks
  <2>1. l \in Cpus(Contents) /\ Quiet(p, l)
    BY <1>1, LoadType
  <2> HIDE DEF p
  <2>. QED  BY <1>1, <2>1 DEF Executes, Quiet, Kept
<1>5. Executes(Contents, c, cmp(c)) /\ cmp(c).ticks = c.ticks
  <2>1. Compare(c.a, value, p.status) \in SUBSET Flags
    BY <1>1, CompareType DEF Cpus
  <2>2. cmp(c) = [p EXCEPT !.status = Compare(c.a, value, p.status)]
    BY DEF cmp
  <2> HIDE DEF p, value
  <2>. QED  BY <1>1, <2>1, <2>2 DEF Executes, Cpus, Kept
<1>6. /\ lda(c) = LoadA(p, value) /\ ldx(c) = LoadX(p, value) /\ ldy(c) = LoadY(p, value)
      /\ And(c) = LoadA(p, And8(c.a, value))
      /\ ora(c) = LoadA(p, Or8(c.a, value))
      /\ eor(c) = LoadA(p, Xor8(c.a, value))
  BY DEF lda, ldx, ldy, And, ora, eor
<1> HIDE DEF p, value
<1>. QED  BY <1>2, <1>3, <1>4, <1>5, <1>6

(* ADC and SBC, which decimal mode makes one tick longer.                    *)
LEMMA AddsRun ==
    ASSUME NEW Contents, HoldsBytes(Contents), NEW c \in Cpus(Contents),
           NEW d \in {adc(c), sbc(c)}
    PROVE  Executes(Contents, c, d) /\ d.ticks \in c.ticks..(c.ticks + 1)
<1>1. getvalue(c) \in Byte /\ c.a \in Byte /\ c.status \in SUBSET Flags /\ c.ticks \in Nat
  BY OperandType DEF Cpus
<1>2. ASSUME NEW sum, sum.result \in Word, sum.status \in SUBSET Flags
      PROVE  /\ Executes(Contents, c, Accumulate(c, sum))
             /\ Accumulate(c, sum).ticks \in c.ticks..(c.ticks + 1)
  <2> DEFINE p == PenaltyOp(c)
             r == U8(sum.result)
             flags == sum.status
             end == p.ticks + IF "D" \in c.status THEN 1 ELSE 0
  <2>1. /\ p \in Cpus(Contents) /\ Kept(c, p)
        /\ p.waiting = c.waiting /\ p.stopped = c.stopped /\ p.ticks = c.ticks
    BY PenaltyType DEF Executes
  <2>2. r \in Byte /\ flags \in SUBSET Flags
    BY <1>2, U8Type, WordRange
  <2>3. Accumulate(c, sum) = [p EXCEPT !.a = r, !.status = flags, !.ticks = end]
    BY DEF Accumulate
  <2>4. end \in Nat /\ end \in c.ticks..(c.ticks + 1)
    BY <1>1, <2>1, SMT
  <2> HIDE DEF p, r, flags, end
  <2> DEFINE d1 == [p EXCEPT !.a = r, !.status = flags, !.ticks = end]
  <2>5. d1 \in Cpus(Contents) /\ Kept(p, d1) /\ d1.waiting = p.waiting
        /\ d1.stopped = p.stopped /\ d1.ticks = end
    BY <2>1, <2>2, <2>4 DEF Cpus, Kept
  <2> HIDE DEF d1
  <2>6. Accumulate(c, sum) = d1
    BY <2>3 DEF d1
  <2>. QED  BY <2>1, <2>4, <2>5, <2>6 DEF Executes, Kept
<1>3. /\ AdcResult(c.a, getvalue(c), c.status).result \in Word
      /\ AdcResult(c.a, getvalue(c), c.status).status \in SUBSET Flags
      /\ SbcResult(c.a, getvalue(c), c.status).result \in Word
      /\ SbcResult(c.a, getvalue(c), c.status).status \in SUBSET Flags
  BY <1>1, SumType
<1>. QED  BY <1>2, <1>3 DEF adc, sbc

(* Setting the flags alone.                                                  *)
LEMMA StatusRun ==
    ASSUME NEW Contents, NEW c \in Cpus(Contents), NEW status \in SUBSET Flags
    PROVE  LET d == [c EXCEPT !.status = status]
           IN  d \in Cpus(Contents) /\ Quiet(c, d) /\ d.status = status
BY DEF Cpus, Quiet, Kept

(* CPX, CPY and BIT.                                                         *)
LEMMA ComparesRun ==
    ASSUME NEW Contents, HoldsBytes(Contents), NEW c \in Cpus(Contents),
           NEW d \in {cpx(c), cpy(c), bit(c)}
    PROVE  d \in Cpus(Contents) /\ Quiet(c, d)
<1> DEFINE value == getvalue(c)
           tested == SetFlag(SetFlag(zerocalc(c.status, And8(c.a, value)), "N",
                                     BitSet(value, 128)),
                             "V", BitSet(value, 64))
<1>1. c.status \in SUBSET Flags
  BY DEF Cpus
<1>2. /\ Compare(c.x, value, c.status) \in SUBSET Flags
      /\ Compare(c.y, value, c.status) \in SUBSET Flags
  BY <1>1, CompareType
<1>3. tested \in SUBSET Flags
  BY <1>1 DEF SetFlag, zerocalc, Flags
<1>4. /\ cpx(c) = [c EXCEPT !.status = Compare(c.x, value, c.status)]
      /\ cpy(c) = [c EXCEPT !.status = Compare(c.y, value, c.status)]
      /\ bit(c) = [c EXCEPT !.status = tested]
  BY DEF cpx, cpy, bit
<1> HIDE DEF value, tested
<1>. QED  BY <1>2, <1>3, <1>4, StatusRun

(* STA, STX, STY and STZ, RMB and SMB.                                       *)
LEMMA StoresRun ==
    ASSUME NEW Contents, HoldsBytes(Contents), NEW c \in Cpus(Contents)
    PROVE  /\ \A d \in {sta(c), stx(c), sty(c), stz(c)} :
                 d \in Cpus(Contents) /\ Quiet(c, d)
           /\ \A bitmask \in Byte : \A d \in {rmb(c, bitmask), smb(c, bitmask)} :
                 d \in Cpus(Contents) /\ Quiet(c, d)
<1>1. ASSUME NEW value \in Int
      PROVE  putvalue(c, value) \in Cpus(Contents) /\ Quiet(c, putvalue(c, value))
  BY ResultType
<1>2. c.a \in Int /\ c.x \in Int /\ c.y \in Int /\ 0 \in Int
  BY ByteRange DEF Cpus
<1>3. ASSUME NEW bitmask \in Byte
      PROVE  And8(getvalue(c), 255 - bitmask) \in Int /\ Or8(getvalue(c), bitmask) \in Int
  <2>1. 255 - bitmask \in Byte
    BY ByteRange, SMT
  <2>2. And8(getvalue(c), 255 - bitmask) \in Byte /\ Or8(getvalue(c), bitmask) \in Byte
    BY <2>1, OperandType, BitwiseType
  <2>. QED  BY <2>2, ByteRange
<1>4. \A d \in {sta(c), stx(c), sty(c), stz(c)} : d \in Cpus(Contents) /\ Quiet(c, d)
  BY <1>1, <1>2 DEF sta, stx, sty, stz
<1>5. \A bitmask \in Byte : \A d \in {rmb(c, bitmask), smb(c, bitmask)} :
        d \in Cpus(Contents) /\ Quiet(c, d)
  BY <1>1, <1>3 DEF rmb, smb
<1>. QED  BY <1>4, <1>5

(* INC, DEC, ASL, ROL, LSR, ROR, TSB and TRB.                                *)
LEMMA ModifiesRun ==
    ASSUME NEW Contents, HoldsBytes(Contents), NEW c \in Cpus(Contents),
           NEW d \in {inc(c), dec(c), asl(c), rol(c), lsr(c), ror(c), tsb(c), trb(c)}
    PROVE  d \in Cpus(Contents) /\ Quiet(c, d)
<1> DEFINE value == getvalue(c)
           carry == Carry(c.status)
<1>1. /\ value \in Byte /\ value \in Nat /\ carry \in 0..1
      /\ c.status \in SUBSET Flags
      /\ c.a \in Byte /\ 255 - c.a \in Byte
  BY OperandType, CarryType, ByteRange DEF Cpus
<1>2. ASSUME NEW status \in SUBSET Flags, NEW result \in Int
      PROVE  LET s == [c EXCEPT !.status = status]
             IN  putvalue(s, result) \in Cpus(Contents) /\ Quiet(c, putvalue(s, result))
  <2> DEFINE s == [c EXCEPT !.status = status]
  <2>1. s \in Cpus(Contents) /\ Quiet(c, s)
    BY StatusRun
  <2> HIDE DEF s
  <2>2. putvalue(s, result) \in Cpus(Contents) /\ Quiet(s, putvalue(s, result))
    BY <2>1, ResultType
  <2>3. Quiet(c, putvalue(s, result))
    BY <2>1, <2>2 DEF Quiet, Kept
  <2>. QED  BY <2>2, <2>3 DEF s
<1>3. ASSUME NEW status \in SUBSET Flags, NEW result \in Int
      PROVE  Modify(c, status, result) \in Cpus(Contents) /\ Quiet(c, Modify(c, status, result))
  <2>1. ZeroSign(status, result) \in SUBSET Flags
    BY <1>3, FlagsType DEF Flags
  <2>. QED  BY <1>2, <1>3, <2>1 DEF Modify
<1>4. \A n : /\ carrycalc(c.status, n) \in SUBSET Flags
             /\ zerocalc(c.status, n) \in SUBSET Flags
             /\ SetFlag(c.status, "C", BitSet(n, 1)) \in SUBSET Flags
  BY <1>1 DEF carrycalc, zerocalc, SetFlag, Flags
<1> HIDE DEF value, carry
<1>5. /\ value + 1 \in Int /\ U16(value - 1) \in Int /\ 2 * value \in Int
      /\ 2 * value + carry \in Int /\ value \div 2 \in Int
      /\ value \div 2 + 128 * carry \in Int
  <2>1. U16(value - 1) \in Int
    BY <1>1, U16Type, WordRange
  <2>. QED  BY <1>1, <2>1, SMT
<1>6. And8(c.a, value) \in Byte /\ Or8(value, c.a) \in Int /\ And8(value, 255 - c.a) \in Int
  <2>1. And8(c.a, value) \in Byte /\ Or8(value, c.a) \in Byte /\ And8(value, 255 - c.a) \in Byte
    BY <1>1, BitwiseType
  <2>. QED  BY <2>1, ByteRange
<1>7. /\ inc(c) = Modify(c, c.status, value + 1)
      /\ dec(c) = Modify(c, c.status, U16(value - 1))
      /\ asl(c) = Modify(c, carrycalc(c.status, 2 * value), 2 * value)
      /\ rol(c) = Modify(c, carrycalc(c.status, 2 * value + carry), 2 * value + carry)
      /\ lsr(c) = Modify(c, SetFlag(c.status, "C", BitSet(value, 1)), value \div 2)
      /\ ror(c) = Modify(c, SetFlag(c.status, "C", BitSet(value, 1)), value \div 2 + 128 * carry)
      /\ tsb(c) = putvalue([c EXCEPT !.status = zerocalc(c.status, And8(c.a, value))],
                           Or8(value, c.a))
      /\ trb(c) = putvalue([c EXCEPT !.status = zerocalc(c.status, And8(c.a, value))],
                           And8(value, 255 - c.a))
  BY Zenon DEF inc, dec, asl, rol, lsr, ror, tsb, trb, value, carry
<1>8. \A e \in {inc(c), dec(c), asl(c), rol(c), lsr(c), ror(c)} :
        e \in Cpus(Contents) /\ Quiet(c, e)
  BY <1>1, <1>3, <1>4, <1>5, <1>7
<1>9. /\ tsb(c) \in Cpus(Contents) /\ Quiet(c, tsb(c))
      /\ trb(c) \in Cpus(Contents) /\ Quiet(c, trb(c))
  BY <1>2, <1>4, <1>6, <1>7
<1>. QED  BY <1>8, <1>9

(* A branch that is taken costs a tick, and another one across a page.       *)
LEMMA BranchRun ==
    ASSUME NEW Contents, NEW c \in Cpus(Contents), NEW d \in {c, Branch(c, TRUE)}
    PROVE  /\ Executes(Contents, c, d)
           /\ d.penaltyop = c.penaltyop
           /\ d.status = c.status
           /\ d.ticks \in c.ticks..(c.ticks + 2)
<1> DEFINE target == U16(c.pc + c.reladdr)
           end == c.ticks + IF Hi(c.pc) # Hi(target) THEN 2 ELSE 1
           d1 == [c EXCEPT !.pc = target, !.ticks = end]
<1>1. target \in Word /\ c.ticks \in Nat
  BY U16Type, WordRange DEF Cpus
<1>2. end \in Nat /\ end \in c.ticks..(c.ticks + 2) /\ c.ticks \in c.ticks..(c.ticks + 2)
  BY <1>1, SMT
<1>3. Branch(c, TRUE) = d1
  BY DEF Branch
<1> HIDE DEF target, end
<1>4. /\ d1 \in Cpus(Contents) /\ Kept(c, d1) /\ d1.waiting = c.waiting
      /\ d1.stopped = c.stopped /\ d1.ticks = end /\ d1.penaltyop = c.penaltyop
      /\ d1.status = c.status
  BY <1>1, <1>2 DEF Cpus, Kept
<1> HIDE DEF d1
<1>. QED  BY <1>2, <1>3, <1>4 DEF Executes, Kept

(* Each branch, taken or not, by its condition.                              *)
LEMMA BranchesRun ==
    ASSUME NEW Contents, NEW c \in Cpus(Contents)
    PROVE  /\ \A d \in {bra(c), bcc(c), bcs(c), bne(c), beq(c), bpl(c), bmi(c), bvc(c), bvs(c)} :
                 /\ Executes(Contents, c, d) /\ d.penaltyop = c.penaltyop /\ d.status = c.status
                 /\ d.ticks \in c.ticks..(c.ticks + 2)
           /\ \A bitmask \in Byte : \A d \in {bbr(c, bitmask), bbs(c, bitmask)} :
                 /\ Executes(Contents, c, d) /\ d.penaltyop = c.penaltyop /\ d.status = c.status
                 /\ d.ticks \in c.ticks..(c.ticks + 2)
<1> DEFINE Ways == {c, Branch(c, TRUE)}
<1>1. /\ bra(c) \in Ways /\ bcc(c) \in Ways /\ bcs(c) \in Ways /\ bne(c) \in Ways
      /\ beq(c) \in Ways /\ bpl(c) \in Ways /\ bmi(c) \in Ways /\ bvc(c) \in Ways
      /\ bvs(c) \in Ways
  BY DEF bra, bcc, bcs, bne, beq, bpl, bmi, bvc, bvs, Branch
<1>2. ASSUME NEW bitmask
      PROVE  bbr(c, bitmask) \in Ways /\ bbs(c, bitmask) \in Ways
  BY DEF bbr, bbs, Branch
<1>3. \A d \in Ways : /\ Executes(Contents, c, d) /\ d.penaltyop = c.penaltyop
                      /\ d.status = c.status /\ d.ticks \in c.ticks..(c.ticks + 2)
  BY BranchRun
<1> HIDE DEF Ways
<1>. QED  BY <1>1, <1>2, <1>3

(* Transfers, increments and decrements of registers.                        *)
LEMMA TransfersRun ==
    ASSUME NEW Contents, NEW c \in Cpus(Contents),
           NEW d \in {tax(c), tay(c), txa(c), tya(c), tsx(c), txs(c), inx(c), iny(c), dex(c),
                      dey(c)}
    PROVE  d \in Cpus(Contents) /\ Quiet(c, d)
<1>1. ASSUME NEW value \in Byte
      PROVE  \A e \in {LoadA(c, value), LoadX(c, value), LoadY(c, value)} :
                e \in Cpus(Contents) /\ Quiet(c, e)
  BY LoadType
<1>2. c.a \in Byte /\ c.x \in Byte /\ c.y \in Byte /\ c.sp \in Byte
  BY DEF Cpus
<1>3. /\ U8(c.x + 1) \in Byte /\ U8(c.x - 1) \in Byte
      /\ U8(c.y + 1) \in Byte /\ U8(c.y - 1) \in Byte
  BY <1>2, U8Type, ByteRange
<1>4. txs(c) \in Cpus(Contents) /\ Quiet(c, txs(c))
  BY <1>2 DEF txs, Cpus, Quiet, Kept
<1>. QED  BY <1>1, <1>2, <1>3, <1>4 DEF tax, tay, txa, tya, tsx, inx, iny, dex, dey

(* The instructions that set and clear a flag, and NOP.                      *)
LEMMA MarksRun ==
    ASSUME NEW Contents, NEW c \in Cpus(Contents),
           NEW d \in {clc(c), cld(c), cli(c), clv(c), sec(c), sed(c), sei(c), nop(c)}
    PROVE  d \in Cpus(Contents) /\ Quiet(c, d)
<1>1. c.status \in SUBSET Flags
  BY DEF Cpus
<1>2. /\ \A flag : c.status \ {flag} \in SUBSET Flags
      /\ \A flag \in Flags : c.status \union {flag} \in SUBSET Flags
  BY <1>1
<1>3. \A status \in SUBSET Flags : LET e == [c EXCEPT !.status = status]
                                 IN  e \in Cpus(Contents) /\ Quiet(c, e)
  BY StatusRun
<1>4. nop(c) \in Cpus(Contents) /\ Quiet(c, nop(c))
  BY DEF nop, Quiet, Kept
<1>. QED  BY <1>2, <1>3, <1>4 DEF clc, cld, cli, clv, sec, sed, sei, Flags

(* Pushes and pulls.                                                         *)
LEMMA PushesRun ==
    ASSUME NEW Contents, HoldsBytes(Contents), NEW c \in Cpus(Contents),
           NEW d \in {pha(c), phx(c), phy(c), php(c)}
    PROVE  d \in Cpus(Contents) /\ Quiet(c, d)
<1>1. \A value \in Byte : push8(c, value) \in Cpus(Contents) /\ Quiet(c, push8(c, value))
  BY PushType
<1>2. c.a \in Byte /\ c.x \in Byte /\ c.y \in Byte /\ StatusByte(c.status \union {"B"}) \in Byte
  BY StatusType DEF Cpus
<1>. QED  BY <1>1, <1>2 DEF pha, phx, phy, php

(* The instructions that pull.                                               *)
LEMMA PullsRun ==
    ASSUME NEW Contents, HoldsBytes(Contents), NEW c \in Cpus(Contents),
           NEW d \in {pla(c), plx(c), ply(c), plp(c)}
    PROVE  d \in Cpus(Contents) /\ Quiet(c, d)
<1> DEFINE p == Pull(c, 1)
           status == StatusOf(Pulled8(c)) \union {"One"}
<1>1. p \in Cpus(Contents) /\ Quiet(c, p) /\ Pulled8(c) \in Byte
  BY PullType
<1>2. status \in SUBSET Flags
  BY StatusType DEF Flags
<1>3. /\ pla(c) = LoadA(p, Pulled8(c)) /\ plx(c) = LoadX(p, Pulled8(c))
      /\ ply(c) = LoadY(p, Pulled8(c)) /\ plp(c) = [p EXCEPT !.status = status]
  BY DEF pla, plx, ply, plp
<1> HIDE DEF p, status
<1>4. d \in Cpus(Contents) /\ Quiet(p, d)
  <2>1. \A e \in {LoadA(p, Pulled8(c)), LoadX(p, Pulled8(c)), LoadY(p, Pulled8(c))} :
          e \in Cpus(Contents) /\ Quiet(p, e)
    BY <1>1, LoadType
  <2>2. [p EXCEPT !.status = status] \in Cpus(Contents) /\ Quiet(p, [p EXCEPT !.status = status])
    BY <1>1, <1>2, StatusRun
  <2>. QED  BY <1>3, <2>1, <2>2
<1>. QED  BY <1>1, <1>4 DEF Quiet, Kept

(* JMP, JSR, RTS, RTI and BRK.                                               *)
GoesTo(c, pc) == [c EXCEPT !.pc = pc]
GoesWith(c, status, pc) == [c EXCEPT !.status = status, !.pc = pc]

(* Jumps, calls, returns and BRK.                                            *)
LEMMA JumpsRun ==
    ASSUME NEW Contents, HoldsBytes(Contents), NEW c \in Cpus(Contents),
           NEW d \in {jmp(c), jsr(c), rts(c), rti(c), brk(c)}
    PROVE  d \in Cpus(Contents) /\ Quiet(c, d)
<1>0. /\ c.pc \in Word /\ c.pc \in Int /\ c.ea \in Word /\ c.status \in SUBSET Flags
      /\ U16(c.pc - 1) \in Word /\ U16(c.pc + 1) \in Word
  BY WordRange, U16Type DEF Cpus
<1>1. ASSUME NEW e \in Cpus(Contents), Quiet(c, e), NEW pc \in Word
      PROVE  GoesTo(e, pc) \in Cpus(Contents) /\ Quiet(c, GoesTo(e, pc))
  BY <1>1 DEF Cpus, Quiet, Kept, GoesTo
<1>2. ASSUME NEW e \in Cpus(Contents), Quiet(c, e), NEW pc \in Word,
             NEW status \in SUBSET Flags
      PROVE  GoesWith(e, status, pc) \in Cpus(Contents) /\ Quiet(c, GoesWith(e, status, pc))
  BY <1>2 DEF Cpus, Quiet, Kept, GoesWith
<1>3. jmp(c) \in Cpus(Contents) /\ Quiet(c, jmp(c))
  BY <1>0 DEF jmp, Cpus, Quiet, Kept
<1>4. jsr(c) \in Cpus(Contents) /\ Quiet(c, jsr(c))
  <2>1. /\ push16(c, U16(c.pc - 1)) \in Cpus(Contents)
        /\ Quiet(c, push16(c, U16(c.pc - 1)))
    BY <1>0, PushType
  <2>2. jsr(c) = GoesTo(push16(c, U16(c.pc - 1)), c.ea)
    BY DEF jsr, GoesTo
  <2>. QED  BY <1>0, <1>1, <2>1, <2>2
<1>5. rts(c) \in Cpus(Contents) /\ Quiet(c, rts(c))
  <2>1. Pull(c, 2) \in Cpus(Contents) /\ Quiet(c, Pull(c, 2)) /\ Pulled16(c) \in Word
    BY PullType
  <2>2. U16(Pulled16(c) + 1) \in Word
    BY <2>1, U16Type, WordRange
  <2>3. rts(c) = GoesTo(Pull(c, 2), U16(Pulled16(c) + 1))
    BY DEF rts, GoesTo
  <2>. QED  BY <1>1, <2>1, <2>2, <2>3
<1>6. rti(c) \in Cpus(Contents) /\ Quiet(c, rti(c))
  <2>1. /\ Pull(c, 3) \in Cpus(Contents) /\ Quiet(c, Pull(c, 3))
        /\ Pull(c, 1) \in Cpus(Contents)
    BY PullType
  <2>2. Pulled16(Pull(c, 1)) \in Word
    BY <2>1, PullType
  <2>3. StatusOf(Pulled8(c)) \in SUBSET Flags
    BY StatusType
  <2>4. rti(c) = GoesWith(Pull(c, 3), StatusOf(Pulled8(c)), Pulled16(Pull(c, 1)))
    BY DEF rti, GoesWith
  <2>. QED  BY <1>2, <2>1, <2>2, <2>3, <2>4
<1>7. brk(c) \in Cpus(Contents) /\ Quiet(c, brk(c))
  <2> DEFINE return == push16(c, U16(c.pc + 1))
             pushed == push8(return, StatusByte(c.status \union {"B"}))
             status == (pushed.status \union {"I"}) \ {"D"}
             pc == Read16(pushed, 65534)
  <2>1. return \in Cpus(Contents) /\ Quiet(c, return)
    BY <1>0, PushType
  <2>2. StatusByte(c.status \union {"B"}) \in Byte
    BY StatusType
  <2> HIDE DEF return
  <2>3. pushed \in Cpus(Contents) /\ Quiet(return, pushed)
    BY <2>1, <2>2, PushType
  <2>4. Quiet(c, pushed)
    BY <2>1, <2>3 DEF Quiet, Kept
  <2> HIDE DEF pushed
  <2>5. status \in SUBSET Flags
    BY <2>3 DEF Cpus, Flags
  <2>6. 65534 \in Int
    BY SMT
  <2>7. pc \in Word
    BY <2>3, <2>6, Read16Type
  <2>8. brk(c) = GoesWith(pushed, status, pc)
    BY DEF brk, pushed, return, GoesWith
  <2> HIDE DEF status, pc
  <2>. QED  BY <1>2, <2>3, <2>4, <2>5, <2>7, <2>8
<1>. QED  BY <1>3, <1>4, <1>5, <1>6, <1>7

(* STP stops; WAI waits unless interrupts are masked.                        *)
LEMMA HaltsRun ==
    ASSUME NEW Contents, NEW c \in Cpus(Contents)
    PROVE  /\ stp(c) \in Cpus(Contents)
           /\ Quiet([c EXCEPT !.stopped = TRUE], stp(c))
           /\ stp(c).status = c.status
           /\ wai(c) \in Cpus(Contents)
           /\ wai(c).status = c.status
           /\ wai(c).waiting = (c.waiting \/ "I" \notin c.status)
           /\ wai(c).ticks = c.ticks /\ wai(c).stopped = c.stopped
           /\ wai(c).penaltyop = c.penaltyop
           /\ Kept(c, wai(c))
<1>1. (c.waiting \/ "I" \notin c.status) \in BOOLEAN
  BY DEF Cpus
<1>2. stp(c) \in Cpus(Contents) /\ Quiet([c EXCEPT !.stopped = TRUE], stp(c))
      /\ stp(c).status = c.status
  BY DEF stp, Cpus, Quiet, Kept
<1> DEFINE w == c.waiting \/ "I" \notin c.status
<1>3. wai(c) = [c EXCEPT !.waiting = w]
  BY DEF wai
<1> HIDE DEF w
<1>4. w \in BOOLEAN
  BY <1>1 DEF w
<1>5. /\ wai(c) \in Cpus(Contents) /\ wai(c).status = c.status
      /\ wai(c).waiting = w
      /\ wai(c).ticks = c.ticks /\ wai(c).stopped = c.stopped
      /\ wai(c).penaltyop = c.penaltyop
      /\ Kept(c, wai(c))
  BY <1>3, <1>4 DEF Cpus, Kept
<1>. QED  BY <1>2, <1>5 DEF w

(* What executing insn may do: keep the state legal, stop or wait only as    *)
(* STP and WAI do, and cost at most two ticks for a branch and one for ADC   *)
(* and SBC beyond those of the table.                                        *)
MoreTicks(insn) == IF insn \in Relative THEN 2 ELSE IF insn \in Adds THEN 1 ELSE 0

Effect(Contents, insn, c, d) ==
    /\ d \in Cpus(Contents)
    /\ Kept(c, d)
    /\ IF insn = "stp" THEN d.stopped ELSE d.stopped = c.stopped
    /\ IF insn = "wai" THEN d.waiting = (c.waiting \/ "I" \notin c.status)
                       ELSE d.waiting = c.waiting
    /\ insn \in Halts \union Relative => d.status = c.status
    /\ insn \notin LoadOps \union Adds => d.penaltyop = c.penaltyop
    /\ d.ticks \in c.ticks..(c.ticks + MoreTicks(insn))

(* The masks of the bit instructions.                                        *)
LEMMA BitMaskType ==
    ASSUME NEW insn \in Rmbs \union Smbs \union Bbrs \union Bbss
    PROVE  BitMask[insn] \in Byte
BY ByteRange, SMT DEF BitMask, Rmbs, Smbs, Bbrs, Bbss

(* The effect of those that neither halt, nor branch, nor may cost more.      *)
LEMMA QuietEffect ==
    ASSUME NEW Contents, NEW c \in Cpus(Contents), NEW d \in Cpus(Contents), Quiet(c, d),
           NEW insn, insn \notin Halts \union Relative
    PROVE  Effect(Contents, insn, c, d)
<1>1. c.ticks \in Nat /\ insn # "stp" /\ insn # "wai" /\ insn \notin Relative
  BY DEF Cpus, Halts
<1>2. MoreTicks(insn) \in {0, 1}
  BY <1>1 DEF MoreTicks
<1>3. d.ticks \in c.ticks..(c.ticks + MoreTicks(insn))
  BY <1>1, <1>2 DEF Quiet
<1>. QED  BY <1>1, <1>3 DEF Effect, Quiet

(* What every instruction of the table does to the CPU, case by case.        *)
LEMMA ExecuteEffect ==
    ASSUME NEW Contents, HoldsBytes(Contents), NEW c \in Cpus(Contents),
           NEW insn \in Insns, insn = m_insn[c.opcode].insn
    PROVE  Effect(Contents, insn, c, Execute(c))
<1> DEFINE d == Execute(c)
<1>0. c.ticks \in Nat
  BY DEF Cpus
<1>1. ASSUME insn \in LoadOps PROVE Effect(Contents, insn, c, d)
  <2>1. d \in {lda(c), ldx(c), ldy(c), And(c), ora(c), eor(c), cmp(c)}
    BY <1>1, ZenonT(60) DEF Execute, LoadOps
  <2>2. Executes(Contents, c, d) /\ d.ticks = c.ticks
    BY <2>1, LoadsRun
  <2>3. insn # "stp" /\ insn # "wai" /\ insn \notin Relative /\ insn \notin Halts
        /\ insn \notin Adds
    BY <1>1 DEF LoadOps, Adds, Relative, Branches, Bbrs, Bbss, Halts
  <2>4. d.ticks \in c.ticks..(c.ticks + MoreTicks(insn))
    BY <1>0, <2>2, <2>3 DEF MoreTicks
  <2> HIDE DEF d
  <2>. QED  BY <1>1, <2>2, <2>3, <2>4 DEF Effect, Executes
<1>2. ASSUME insn \in Adds PROVE Effect(Contents, insn, c, d)
  <2>1. d \in {adc(c), sbc(c)}
    BY <1>2, ZenonT(60) DEF Execute, Adds
  <2>2. Executes(Contents, c, d) /\ d.ticks \in c.ticks..(c.ticks + 1)
    BY <2>1, AddsRun
  <2>3. insn # "stp" /\ insn # "wai" /\ insn \notin Relative /\ insn \notin Halts
    BY <1>2 DEF Adds, Relative, Branches, Bbrs, Bbss, Halts
  <2>4. MoreTicks(insn) = 1
    BY <1>2, <2>3 DEF MoreTicks
  <2> HIDE DEF d
  <2>. QED  BY <1>2, <2>2, <2>3, <2>4 DEF Effect, Executes
<1>3. ASSUME insn \in Branches PROVE Effect(Contents, insn, c, d)
  <2>1. d \in {bra(c), bcc(c), bcs(c), bne(c), beq(c), bpl(c), bmi(c), bvc(c), bvs(c)}
    BY <1>3, ZenonT(60) DEF Execute, Branches
  <2>2. Executes(Contents, c, d) /\ d.penaltyop = c.penaltyop /\ d.status = c.status
        /\ d.ticks \in c.ticks..(c.ticks + 2)
    BY <2>1, BranchesRun
  <2>3. insn # "stp" /\ insn # "wai" /\ insn \in Relative
    BY <1>3 DEF Relative, Branches
  <2>4. MoreTicks(insn) = 2
    BY <2>3 DEF MoreTicks
  <2> HIDE DEF d
  <2>. QED  BY <2>2, <2>3, <2>4 DEF Effect, Executes
<1>4. ASSUME insn \in Bbrs \union Bbss PROVE Effect(Contents, insn, c, d)
  <2> DEFINE bitmask == BitMask[insn]
  <2>1. d = bbr(c, bitmask) \/ d = bbs(c, bitmask)
    BY <1>4, ZenonT(60) DEF Execute, Bbrs, Bbss
  <2>2. bitmask \in Byte
    BY <1>4, BitMaskType
  <2> HIDE DEF bitmask, d
  <2>3. Executes(Contents, c, d) /\ d.penaltyop = c.penaltyop /\ d.status = c.status
        /\ d.ticks \in c.ticks..(c.ticks + 2)
    BY <2>1, <2>2, BranchesRun
  <2>4. insn # "stp" /\ insn # "wai" /\ insn \in Relative
    BY <1>4 DEF Relative, Bbrs, Bbss
  <2>5. MoreTicks(insn) = 2
    BY <2>4 DEF MoreTicks
  <2>. QED  BY <2>3, <2>4, <2>5 DEF Effect, Executes
<1>5. ASSUME insn = "stp" PROVE Effect(Contents, insn, c, d)
  <2>1. d = stp(c)
    BY <1>5, ZenonT(60) DEF Execute
  <2>2. insn \notin LoadOps /\ insn \notin Adds /\ insn \notin Relative
    BY <1>5 DEF LoadOps, Adds, Relative, Branches, Bbrs, Bbss
  <2>3. MoreTicks(insn) = 0
    BY <2>2 DEF MoreTicks
  <2>4. /\ d \in Cpus(Contents) /\ d.stopped /\ d.waiting = c.waiting
        /\ d.ticks = c.ticks /\ d.penaltyop = c.penaltyop /\ d.status = c.status
        /\ Kept(c, d)
    BY <2>1 DEF stp, Cpus, Kept
  <2> HIDE DEF d
  <2>. QED  BY <1>0, <1>5, <2>2, <2>3, <2>4 DEF Effect
<1>6. ASSUME insn = "wai" PROVE Effect(Contents, insn, c, d)
  <2>1. d = wai(c)
    BY <1>6, ZenonT(60) DEF Execute
  <2>2. insn \notin LoadOps /\ insn \notin Adds /\ insn \notin Relative
    BY <1>6 DEF LoadOps, Adds, Relative, Branches, Bbrs, Bbss
  <2>3. MoreTicks(insn) = 0
    BY <2>2 DEF MoreTicks
  <2> HIDE DEF d
  <2>4. /\ d \in Cpus(Contents) /\ d.status = c.status
        /\ d.waiting = (c.waiting \/ "I" \notin c.status)
        /\ d.ticks = c.ticks /\ d.stopped = c.stopped
        /\ d.penaltyop = c.penaltyop /\ Kept(c, d)
    BY <2>1, HaltsRun, Zenon
  <2>. QED  BY <1>0, <1>6, <2>2, <2>3, <2>4 DEF Effect
<1>7. ASSUME insn \in Compares \union Stores \union Modifies \union Rmbs \union Smbs
      PROVE  d \in Cpus(Contents) /\ Quiet(c, d) /\ insn \notin Halts \union Relative
  <2>1. CASE insn \in Compares \union Stores \union Modifies
    <3>1. \/ d \in {cpx(c), cpy(c), bit(c)}
          \/ d \in {sta(c), stx(c), sty(c), stz(c)}
          \/ d \in {inc(c), dec(c), asl(c), rol(c), lsr(c), ror(c), tsb(c), trb(c)}
      BY <2>1, ZenonT(60) DEF Execute, Compares, Stores, Modifies
    <3>2. insn \notin Halts \union Relative
      BY <2>1 DEF Compares, Stores, Modifies, Halts, Relative, Branches, Bbrs, Bbss
    <3> HIDE DEF d
    <3>. QED  BY <3>1, <3>2, ComparesRun, StoresRun, ModifiesRun
  <2>2. CASE insn \in Rmbs \union Smbs
    <3> DEFINE bitmask == BitMask[insn]
    <3>1. d = rmb(c, bitmask) \/ d = smb(c, bitmask)
      BY <2>2, ZenonT(60) DEF Execute, Rmbs, Smbs
    <3>2. bitmask \in Byte
      BY <2>2, BitMaskType
    <3>3. insn \notin Halts \union Relative
      BY <2>2 DEF Rmbs, Smbs, Halts, Relative, Branches, Bbrs, Bbss
    <3> HIDE DEF d, bitmask
    <3>. QED  BY <3>1, <3>2, <3>3, StoresRun
  <2>. QED  BY <1>7, <2>1, <2>2
<1>8. ASSUME insn \in Transfers \union Marks \union Pushes \union Pulls \union Jumps
      PROVE  d \in Cpus(Contents) /\ Quiet(c, d) /\ insn \notin Halts \union Relative
  <2>1. \/ d \in {tax(c), tay(c), txa(c), tya(c), tsx(c), txs(c), inx(c), iny(c), dex(c),
                   dey(c)}
        \/ d \in {clc(c), cld(c), cli(c), clv(c), sec(c), sed(c), sei(c), nop(c)}
        \/ d \in {pha(c), phx(c), phy(c), php(c)}
        \/ d \in {pla(c), plx(c), ply(c), plp(c)}
        \/ d \in {jmp(c), jsr(c), rts(c), rti(c), brk(c)}
    BY <1>8, ZenonT(60) DEF Execute, Transfers, Marks, Pushes, Pulls, Jumps
  <2>2. insn \notin Halts \union Relative
    BY <1>8 DEF Transfers, Marks, Pushes, Pulls, Jumps, Halts, Relative, Branches, Bbrs, Bbss
  <2> HIDE DEF d
  <2>. QED  BY <2>1, <2>2, TransfersRun, MarksRun, PushesRun, PullsRun, JumpsRun
<1> HIDE DEF d
<1>9. ASSUME d \in Cpus(Contents) /\ Quiet(c, d) /\ insn \notin Halts \union Relative
      PROVE  Effect(Contents, insn, c, d)
  BY <1>9, QuietEffect
<1>10. \/ insn \in LoadOps \/ insn \in Adds \/ insn \in Branches \/ insn \in Bbrs \union Bbss
       \/ insn = "stp" \/ insn = "wai"
       \/ insn \in Compares \union Stores \union Modifies \union Rmbs \union Smbs
       \/ insn \in Transfers \union Marks \union Pushes \union Pulls \union Jumps
  BY DEF Insns, Operate, Relative, Implied, Halts
<1>. QED  BY <1>1, <1>2, <1>3, <1>4, <1>5, <1>6, <1>7, <1>8, <1>9, <1>10 DEF d

-----------------------------------------------------------------------------
(* stepInstruction(), the interrupts and reset()                             *)

(* The fetch of an opcode.                                                   *)
LEMMA FetchType ==
    ASSUME NEW Contents, HoldsBytes(Contents), NEW c \in Cpus(Contents)
    PROVE  LET d == Fetch(c)
           IN  /\ d \in Cpus(Contents)
               /\ d.opcode = read6502(c, c.pc)
               /\ m_insn[d.opcode].insn = FetchedInsn(c)
               /\ d.hasMem = c.hasMem
               /\ d.waiting = c.waiting /\ d.stopped = c.stopped
               /\ d.status = c.status \union {"One"}
               /\ d.penaltyop = FALSE /\ d.penaltyaddr = FALSE
               /\ d.ticks = 0
<1> DEFINE opcode == read6502(c, c.pc)
           status == c.status \union {"One"}
           pc == U16(c.pc + 1)
<1>1. opcode \in Byte /\ status \in SUBSET Flags /\ pc \in Word
  <2>1. c.pc \in Int
    BY WordRange DEF Cpus
  <2>2. opcode \in Byte
    BY <2>1, ReadType
  <2>3. pc \in Word
    BY <2>1, U16Type
  <2>4. status \in SUBSET Flags
    BY DEF Cpus, Flags
  <2>. QED  BY <2>2, <2>3, <2>4
<1>2. Fetch(c) = [c EXCEPT !.pc = pc, !.opcode = opcode, !.status = status,
                           !.penaltyop = FALSE, !.penaltyaddr = FALSE, !.ticks = 0]
  BY DEF Fetch, Skip, Cpus
<1>3. FetchedInsn(c) = m_insn[opcode].insn
  BY DEF FetchedInsn
<1> HIDE DEF opcode, status, pc
<1>4. Fetch(c) \in Cpus(Contents)
  <2> DEFINE g == [c EXCEPT !.pc = pc, !.opcode = opcode, !.status = status, !.ticks = 0]
  <2>1. g \in Cpus(Contents)
    BY <1>1 DEF Cpus
  <2>2. Fetch(c) = [g EXCEPT !.penaltyop = FALSE, !.penaltyaddr = FALSE]
    BY <1>2 DEF Cpus
  <2> HIDE DEF g
  <2>. QED  BY <2>1, <2>2 DEF Cpus
<1>5. /\ Fetch(c).opcode = opcode
      /\ Fetch(c).hasMem = c.hasMem
      /\ Fetch(c).status = status
      /\ Fetch(c).ticks = 0
  BY <1>2 DEF Cpus
<1>6. /\ Fetch(c).waiting = c.waiting /\ Fetch(c).stopped = c.stopped
      /\ Fetch(c).penaltyop = FALSE /\ Fetch(c).penaltyaddr = FALSE
  BY <1>2 DEF Cpus
<1>. QED  BY <1>3, <1>4, <1>5, <1>6 DEF opcode, status

(* What one instruction may do to a CPU that runs it: its cost in ticks, and *)
(* which of them stop it, make it wait or leave the interrupt mask alone.    *)
Cost(insn) ==
    IF insn = "stp" THEN 1..1 ELSE IF insn = "wai" THEN 3..3 ELSE 2..7

StepEffect(insn, c, d) ==
    /\ d.ticks \in Cost(insn)
    /\ d.stopped = (insn = "stp")
    /\ d.waiting = (c.waiting \/ (insn = "wai" /\ "I" \notin c.status))
    /\ insn \in Halts \union Relative => d.status = c.status \union {"One"}

(* The ticks of the table, of a page crossed, of a branch taken and of       *)
(* decimal mode never make more than 7.                                      *)
LEMMA TicksAddUp ==
    ASSUME NEW insn \in Insns, NEW mode, NEW ticks, EntryOK(insn, mode, ticks),
           NEW spent \in 0..MoreTicks(insn), NEW penalty \in 0..1,
           penalty = 1 => mode \in Crossing /\ insn \in LoadOps \union Adds
    PROVE  spent + ticks + penalty \in Cost(insn)
<1>0. ticks \in 1..7
  BY DEF EntryOK
<1>1. CASE insn \in Relative
  <2>1. insn # "stp" /\ insn # "wai" /\ insn \notin LoadOps /\ insn \notin Adds
    BY <1>1 DEF Relative, Branches, Bbrs, Bbss, LoadOps, Adds
  <2>2. ticks \in 2..5
    BY <1>0, <1>1, <2>1 DEF EntryOK
  <2>3. penalty = 0 /\ spent \in 0..2
    BY <1>1, <2>1 DEF MoreTicks
  <2>. QED  BY <2>1, <2>2, <2>3 DEF Cost
<1>2. CASE insn \in Adds
  <2>1. insn # "stp" /\ insn # "wai" /\ insn \notin Relative
    BY <1>2 DEF Relative, Branches, Bbrs, Bbss, Adds
  <2>2. ticks \in 2..6 /\ (mode \in Crossing => ticks <= 5)
    BY <1>0, <1>2, <2>1 DEF EntryOK
  <2>3. spent \in 0..1
    BY <1>2, <2>1 DEF MoreTicks
  <2>. QED  BY <2>1, <2>2, <2>3 DEF Cost
<1>3. CASE insn \in LoadOps
  <2>1. insn # "stp" /\ insn # "wai" /\ insn \notin Relative /\ insn \notin Adds
    BY <1>3 DEF Relative, Branches, Bbrs, Bbss, Adds, LoadOps
  <2>2. ticks \in 2..7 /\ (mode \in Crossing => ticks <= 5)
    BY <1>0, <1>3, <2>1 DEF EntryOK
  <2>3. spent = 0
    BY <2>1 DEF MoreTicks
  <2>. QED  BY <2>1, <2>2, <2>3 DEF Cost
<1>4. CASE insn \notin Relative /\ insn \notin Adds /\ insn \notin LoadOps
  <2>1. spent = 0 /\ penalty = 0
    BY <1>4 DEF MoreTicks
  <2>2. ticks \in Cost(insn)
    BY <1>0 DEF EntryOK, Cost
  <2>3. ticks \in Int
    BY <1>0
  <2>. QED  BY <2>1, <2>2, <2>3
<1>. QED  BY <1>1, <1>2, <1>3, <1>4

(* stepInstruction() of a CPU that is not stopped, at a legal opcode.        *)
LEMMA StepValid ==
    ASSUME NEW Contents, HoldsBytes(Contents), NEW c \in Cpus(Contents), RunsValid(c)
    PROVE  LET d == stepInstruction(c)
           IN  /\ FetchedInsn(c) \in Insns
               /\ d \in Cpus(Contents)
               /\ d.hasMem = c.hasMem
               /\ StepEffect(FetchedInsn(c), c, d)
<1> DEFINE f == Fetch(c)
           a == Address(f)
           e == Execute(a)
           insn == FetchedInsn(c)
           mode == m_insn[f.opcode].mode
           ticks == m_insn[f.opcode].ticks
           penalty == IF e.penaltyop /\ e.penaltyaddr THEN 1 ELSE 0
<1>0. ~c.stopped /\ insn # "ill"
  BY DEF RunsValid
<1>1. /\ f \in Cpus(Contents)
      /\ m_insn[f.opcode].insn = insn
      /\ f.hasMem = c.hasMem
      /\ f.waiting = c.waiting /\ f.stopped = c.stopped
      /\ f.status = c.status \union {"One"}
      /\ f.penaltyop = FALSE /\ f.penaltyaddr = FALSE
      /\ f.ticks = 0
  BY FetchType
<1>2. stepInstruction(c) = [e EXCEPT !.ticks = e.ticks + m_insn[e.opcode].ticks + penalty]
  BY <1>0 DEF stepInstruction, Charged
<1> HIDE DEF f, insn
<1>3. f.opcode \in Byte
  BY <1>1 DEF Cpus
<1>4. EntryOK(insn, mode, ticks)
  BY <1>1, <1>3, Table
<1>5. insn \in Insns /\ ticks \in Nat
  BY <1>0, <1>4 DEF EntryOK
<1>6. /\ a \in Cpus(Contents)
      /\ Addressed(f, a)
      /\ mode \notin Crossing => a.penaltyaddr = f.penaltyaddr
  BY <1>1, AddressType
<1>7. /\ a.hasMem = c.hasMem
      /\ a.opcode = f.opcode
      /\ a.penaltyop = FALSE
      /\ a.waiting = c.waiting /\ a.stopped = FALSE
      /\ a.status = c.status \union {"One"}
      /\ a.ticks = 0
      /\ mode \notin Crossing => a.penaltyaddr = FALSE
  BY <1>0, <1>1, <1>6 DEF Addressed, Quiet, Kept, Cpus
<1> HIDE DEF a
<1>8. Effect(Contents, insn, a, e)
  BY <1>1, <1>5, <1>6, <1>7, ExecuteEffect
<1> HIDE DEF e
<1>9. /\ e \in Cpus(Contents)
      /\ e.hasMem = c.hasMem
      /\ e.opcode = f.opcode
      /\ e.penaltyaddr = a.penaltyaddr
      /\ e.stopped = (insn = "stp")
      /\ e.waiting = (c.waiting \/ (insn = "wai" /\ "I" \notin c.status))
      /\ insn \in Halts \union Relative => e.status = c.status \union {"One"}
      /\ insn \notin LoadOps \union Adds => e.penaltyop = FALSE
      /\ e.ticks \in 0..MoreTicks(insn)
  <2>1. e.stopped \in BOOLEAN
    BY <1>8 DEF Effect, Cpus
  <2>2. e.stopped = (insn = "stp")
    BY <1>7, <1>8, <2>1, Zenon DEF Effect
  <2>3. c.waiting \in BOOLEAN /\ ("I" \in a.status <=> "I" \in c.status)
    BY <1>7 DEF Cpus
  <2>4. e.waiting = (c.waiting \/ (insn = "wai" /\ "I" \notin c.status))
    <3>1. CASE insn = "wai"
      <4>1. e.waiting = (a.waiting \/ "I" \notin a.status)
        BY <1>8, <3>1 DEF Effect
      <4>. QED  BY <1>7, <2>3, <3>1, <4>1, Zenon
    <3>2. CASE insn # "wai"
      <4>1. e.waiting = a.waiting
        BY <1>8, <3>2 DEF Effect
      <4>. QED  BY <1>7, <2>3, <3>2, <4>1, Zenon
    <3>. QED  BY <3>1, <3>2
  <2>5. MoreTicks(insn) \in 0..2
    BY DEF MoreTicks
  <2>6. /\ e \in Cpus(Contents)
        /\ e.hasMem = c.hasMem
        /\ e.opcode = f.opcode
        /\ e.penaltyaddr = a.penaltyaddr
        /\ e.ticks \in 0..MoreTicks(insn)
    BY <1>7, <1>8, <2>5 DEF Effect, Kept
  <2>7. insn \in Halts \union Relative => e.status = c.status \union {"One"}
    BY <1>7, <1>8 DEF Effect
  <2>8. insn \notin LoadOps \union Adds => e.penaltyop = FALSE
    BY <1>7, <1>8, Zenon DEF Effect
  <2>. QED  BY <2>2, <2>4, <2>6, <2>7, <2>8
<1>10. penalty \in 0..1 /\ (penalty = 1 => mode \in Crossing /\ insn \in LoadOps \union Adds)
  BY <1>7, <1>9
<1> HIDE DEF penalty
<1> DEFINE total == e.ticks + ticks + penalty
<1>11. total \in Cost(insn)
  BY <1>4, <1>5, <1>9, <1>10, TicksAddUp
<1>12. total \in Nat
  BY <1>11 DEF Cost
<1>13. stepInstruction(c) = [e EXCEPT !.ticks = total]
  BY <1>2, <1>9
<1> HIDE DEF total
<1>14. [e EXCEPT !.ticks = total] \in Cpus(Contents)
  BY <1>9, <1>12 DEF Cpus
<1>15. StepEffect(insn, c, [e EXCEPT !.ticks = total])
  BY <1>9, <1>11 DEF StepEffect, Cpus
<1>16. [e EXCEPT !.ticks = total].hasMem = c.hasMem
  BY <1>9 DEF Cpus
<1>. QED  BY <1>5, <1>13, <1>14, <1>15, <1>16 DEF insn

(* stepInstruction() in every state: what a stopped CPU, an illegal opcode   *)
(* and a missing memory controller make of it.                               *)
LEMMA StepType ==
    ASSUME NEW Contents, HoldsBytes(Contents), NEW c \in Cpus(Contents)
    PROVE  LET d == stepInstruction(c)
           IN  /\ d \in Cpus(Contents)
               /\ d.hasMem = c.hasMem
               /\ c.stopped => d = c
               /\ ~c.stopped /\ ~RunsValid(c) =>
                    /\ c.hasMem
                    /\ d.stopped /\ d.waiting = c.waiting
                    /\ d.status = c.status \union {"One"}
                    /\ d.ticks = 0
               /\ RunsValid(c) => FetchedInsn(c) \in Insns /\ StepEffect(FetchedInsn(c), c, d)
               /\ ~c.hasMem => FetchedInsn(c) = "bbs7"
<1>1. ~c.hasMem => FetchedInsn(c) = "bbs7"
  <2>1. m_insn[255].insn = "bbs7"
    BY LastEntry
  <2>. QED  BY <2>1, Zenon DEF FetchedInsn, read6502
<1>2. CASE c.stopped
  BY <1>1, <1>2 DEF stepInstruction, RunsValid
<1>3. CASE ~c.stopped /\ ~RunsValid(c)
  <2> DEFINE f == Fetch(c)
             d == stepInstruction(c)
  <2>1. FetchedInsn(c) = "ill"
    BY <1>3 DEF RunsValid
  <2>2. /\ f \in Cpus(Contents) /\ f.hasMem = c.hasMem /\ f.waiting = c.waiting
        /\ f.status = c.status \union {"One"} /\ f.ticks = 0
    BY FetchType
  <2>3. d = [f EXCEPT !.pc = c.pc, !.stopped = TRUE]
    BY <1>3, <2>1, Zenon DEF stepInstruction
  <2> HIDE DEF f, d
  <2>4. d \in Cpus(Contents) /\ d.hasMem = c.hasMem
    BY <2>2, <2>3 DEF Cpus
  <2>5. d.stopped /\ d.waiting = c.waiting
    BY <2>2, <2>3 DEF Cpus
  <2>6. d.status = c.status \union {"One"} /\ d.ticks = 0
    BY <2>2, <2>3 DEF Cpus
  <2>7. c.hasMem \in BOOLEAN /\ "ill" # "bbs7"
    BY DEF Cpus
  <2>8. c.hasMem
    BY <1>1, <2>1, <2>7
  <2>. QED  BY <1>1, <1>3, <2>4, <2>5, <2>6, <2>8 DEF d
<1>4. CASE RunsValid(c)
  <2>1. /\ FetchedInsn(c) \in Insns
        /\ stepInstruction(c) \in Cpus(Contents)
        /\ stepInstruction(c).hasMem = c.hasMem
        /\ StepEffect(FetchedInsn(c), c, stepInstruction(c))
    BY <1>4, StepValid
  <2>2. ~c.stopped
    BY <1>4 DEF RunsValid
  <2>. QED  BY <1>1, <1>4, <2>1, <2>2
<1>. QED  BY <1>2, <1>3, <1>4

(* irq() and nmi() mask interrupts and end the wait, and do nothing else to  *)
(* the run control.                                                          *)
LEMMA InterruptType ==
    ASSUME NEW Contents, HoldsBytes(Contents), NEW c \in Cpus(Contents),
           NEW d \in {irq(c), nmi(c)}
    PROVE  /\ d \in Cpus(Contents)
           /\ d.hasMem = c.hasMem
           /\ d.stopped = c.stopped
           /\ d.waiting = FALSE
           /\ "I" \in d.status
           /\ d.ticks = c.ticks
<1>1. ASSUME NEW status, NEW address \in Nat, NEW v \in {Vector(c, status, address)}
      PROVE  /\ v \in Cpus(Contents)
             /\ v.hasMem = c.hasMem
             /\ v.stopped = c.stopped
             /\ v.waiting = FALSE
             /\ "I" \in v.status
             /\ v.ticks = c.ticks
  <2> DEFINE return == push16(c, c.pc)
             pushed == push8(return, StatusByte(status))
             masked == pushed.status \union {"I"}
             pc == Read16(pushed, address)
  <2>1. return \in Cpus(Contents) /\ Quiet(c, return)
    <3>1. c.pc \in Word
      BY DEF Cpus
    <3>. QED  BY <3>1, PushType
  <2>2. StatusByte(status) \in Byte
    BY StatusType
  <2> HIDE DEF return
  <2>3. pushed \in Cpus(Contents) /\ Quiet(return, pushed)
    BY <2>1, <2>2, PushType
  <2> HIDE DEF pushed
  <2>4. pc \in Word
    BY <2>3, Read16Type
  <2>5. masked \in SUBSET Flags /\ "I" \in masked
    BY <2>3 DEF Cpus, Flags
  <2>6. v = [pushed EXCEPT !.status = masked, !.pc = pc, !.waiting = FALSE]
    BY DEF Vector, pushed, return
  <2>7. pushed.hasMem = c.hasMem /\ pushed.ticks = c.ticks /\ pushed.stopped = c.stopped
    BY <2>1, <2>3 DEF Quiet, Kept
  <2> HIDE DEF masked, pc
  <2>8. v \in Cpus(Contents)
    <3> DEFINE g == [pushed EXCEPT !.status = masked, !.pc = pc]
    <3>1. g \in Cpus(Contents)
      BY <2>3, <2>4, <2>5 DEF Cpus
    <3>2. v = [g EXCEPT !.waiting = FALSE]
      BY <2>3, <2>6 DEF Cpus
    <3> HIDE DEF g
    <3>. QED  BY <3>1, <3>2 DEF Cpus
  <2>9. v.hasMem = c.hasMem /\ v.ticks = c.ticks /\ v.status = masked
    BY <2>3, <2>6, <2>7 DEF Cpus
  <2>10. v.stopped = c.stopped /\ v.waiting = FALSE
    BY <2>3, <2>6, <2>7 DEF Cpus
  <2>. QED  BY <2>5, <2>8, <2>9, <2>10
<1> DEFINE irqVector == 65534
           nmiVector == 65530
<1>2. irqVector \in Nat /\ nmiVector \in Nat
  BY SMT
<1>3. irq(c) = Vector(c, c.status \ {"B"}, irqVector) /\ nmi(c) = Vector(c, c.status, nmiVector)
  BY DEF irq, nmi
<1> HIDE DEF irqVector, nmiVector
<1>4. d \in {Vector(c, c.status \ {"B"}, irqVector)} \/ d \in {Vector(c, c.status, nmiVector)}
  BY <1>3, Zenon
<1>. QED  BY <1>1, <1>2, <1>4

(* reset() clears the stop but neither the wait nor the interrupt mask.      *)
LEMMA ResetType ==
    ASSUME NEW Contents, HoldsBytes(Contents), NEW c \in Cpus(Contents)
    PROVE  LET d == reset(c)
           IN  /\ d \in Cpus(Contents)
               /\ d.hasMem = c.hasMem
               /\ d.stopped = FALSE
               /\ d.waiting = c.waiting
               /\ d.status = c.status \union {"One"}
               /\ d.ticks = c.ticks
<1> DEFINE pc == Read16(c, 65532)
           status == c.status \union {"One"}
           zero == 0
           top == 253
           g == [c EXCEPT !.pc = pc, !.a = zero, !.x = zero, !.y = zero, !.sp = top,
                          !.status = status]
           d == reset(c)
<1>1. pc \in Word
  <2>1. 65532 \in Int
    BY SMT
  <2>. QED  BY <2>1, Read16Type
<1>2. status \in SUBSET Flags /\ top \in Byte /\ zero \in Byte
  BY ByteRange, SMT DEF Cpus, Flags
<1>3. d = [g EXCEPT !.stopped = FALSE]
  BY DEF reset
<1> HIDE DEF pc, status, zero, top, d
<1>4. g \in Cpus(Contents) /\ g.status = status /\ g.hasMem = c.hasMem /\ g.ticks = c.ticks
  BY <1>1, <1>2 DEF Cpus
<1>5. g.waiting = c.waiting
  BY DEF Cpus
<1> HIDE DEF g
<1>6. d \in Cpus(Contents) /\ d.status = status /\ d.waiting = c.waiting
      /\ d.hasMem = c.hasMem /\ d.ticks = c.ticks /\ d.stopped = FALSE
  BY <1>3, <1>4, <1>5 DEF Cpus
<1>. QED  BY <1>6 DEF status, d

(* Forgetting the operands of the last instruction.                          *)
LEMMA SettledType ==
    ASSUME NEW Contents, NEW c \in Cpus(Contents)
    PROVE  LET d == [Settled(c) EXCEPT !.ticks = 0]
           IN  /\ d \in Cpus(Contents)
               /\ d.hasMem = c.hasMem /\ d.status = c.status
               /\ d.waiting = c.waiting /\ d.stopped = c.stopped
               /\ d.ticks = 0
<1> DEFINE g == [c EXCEPT !.ea = 0, !.reladdr = 0, !.opcode = 0, !.ticks = 0]
           d == [Settled(c) EXCEPT !.ticks = 0]
<1>1. 0 \in Byte /\ 0 \in Word
  BY ByteRange, WordRange, SMT
<1>2. g \in Cpus(Contents) /\ g.hasMem = c.hasMem /\ g.status = c.status
      /\ g.waiting = c.waiting /\ g.stopped = c.stopped /\ g.ticks = 0
  BY <1>1 DEF Cpus
<1>3. d = [g EXCEPT !.penaltyop = FALSE, !.penaltyaddr = FALSE]
  BY DEF Settled, Scratch, Cpus
<1> HIDE DEF g, d
<1>4. d \in Cpus(Contents) /\ d.hasMem = c.hasMem /\ d.status = c.status
      /\ d.waiting = c.waiting /\ d.stopped = c.stopped /\ d.ticks = 0
  BY <1>2, <1>3 DEF Cpus
<1>. QED  BY <1>4 DEF d

-----------------------------------------------------------------------------
(* The stack                                                                 *)

(* The memory behind the controller keeps what is written to the stack page, *)
(* each byte by itself.                                                      *)
KeepsStack(Contents) ==
    \A mem \in Contents, sp \in Byte, other \in Byte, value \in Byte :
        ReadMem(WriteMem(mem, Stack(sp), value), Stack(other))
          = IF other = sp THEN value ELSE ReadMem(mem, Stack(other))

(* An address of the stack page needs no reduction to 16 bits.               *)
LEMMA StackAddress ==
    ASSUME NEW sp \in Byte
    PROVE  Stack(sp) \in Word /\ Stack(sp) \in Int /\ U16(Stack(sp)) = Stack(sp)
<1>1. sp \in Nat /\ sp < 256
  BY ByteRange
<1>2. Stack(sp) \in Nat /\ Stack(sp) < 65536
  BY <1>1, SMT DEF Stack
<1>3. Stack(sp) \in Word /\ Stack(sp) \in Int
  BY <1>2, WordRange
<1>. QED  BY <1>3, U16Type

(* The first two pages are RAM: a byte stored there is read back, and no     *)
(* other byte changes with it.                                               *)
LowPages == 0..511

LowRam(Contents) ==
    \A mem \in Contents, at \in LowPages, value \in Byte, address \in Word :
        ReadMem(WriteMem(mem, at, value), address)
          = IF address = at THEN value ELSE ReadMem(mem, address)

(* The stack page is the second of them.                                     *)
LEMMA LowRamKeepsStack ==
    ASSUME NEW Contents, LowRam(Contents)
    PROVE  KeepsStack(Contents)
<1> SUFFICES ASSUME NEW mem \in Contents, NEW sp \in Byte, NEW other \in Byte, NEW value \in Byte
             PROVE  ReadMem(WriteMem(mem, Stack(sp), value), Stack(other))
                      = IF other = sp THEN value ELSE ReadMem(mem, Stack(other))
  BY DEF KeepsStack
<1>1. sp \in Nat /\ sp < 256 /\ other \in Nat
  BY ByteRange
<1>2. Stack(sp) \in LowPages /\ (Stack(other) = Stack(sp) <=> other = sp)
  BY <1>1, SMT DEF Stack, LowPages
<1>3. Stack(other) \in Word
  BY StackAddress
<1> DEFINE at == Stack(sp)
           address == Stack(other)
<1> HIDE DEF at, address
<1>4. ReadMem(WriteMem(mem, at, value), address)
        = IF address = at THEN value ELSE ReadMem(mem, address)
  BY <1>2, <1>3 DEF LowRam, at, address
<1>. QED  BY <1>2, <1>4 DEF at, address

(* Going down the stack three bytes and up again.                            *)
LEMMA StackPointers ==
    ASSUME NEW sp \in Byte
    PROVE  /\ U8(sp - 1) \in Byte /\ U8(sp - 2) \in Byte /\ U8(sp - 3) \in Byte
           /\ U8(sp - 1) # sp /\ U8(sp - 2) # sp /\ U8(sp - 1) # U8(sp - 2)
           /\ U8(U8(sp - 2) - 1) = U8(sp - 3)
           /\ U8(U8(sp - 3) + 1) = U8(sp - 2)
           /\ U8(U8(U8(sp - 3) + 1) + 1) = U8(sp - 1)
           /\ U8(U8(U8(sp - 3) + 1) + 2) = sp
           /\ U8(U8(sp - 3) + 3) = sp
           /\ U8(U8(sp - 2) + 1) = U8(sp - 1)
           /\ U8(U8(sp - 2) + 2) = sp
           /\ U8(U8(sp - 1) + 1) = sp
<1>1. sp \in Nat /\ sp < 256
  BY ByteRange
<1>2. U8(sp - 1) = (IF sp >= 1 THEN sp - 1 ELSE sp + 255)
  BY <1>1, SMT DEF U8
<1>3. U8(sp - 2) = (IF sp >= 2 THEN sp - 2 ELSE sp + 254)
  BY <1>1, SMT DEF U8
<1>4. U8(sp - 3) = (IF sp >= 3 THEN sp - 3 ELSE sp + 253)
  BY <1>1, SMT DEF U8
<1>5. U8(sp - 1) \in Byte /\ U8(sp - 2) \in Byte /\ U8(sp - 3) \in Byte
  BY <1>1, <1>2, <1>3, <1>4, ByteRange
<1>6. U8(sp - 1) # sp /\ U8(sp - 2) # sp /\ U8(sp - 1) # U8(sp - 2)
  BY <1>1, <1>2, <1>3
<1>7. ASSUME NEW n \in Byte
      PROVE  /\ U8(n + 1) = IF n = 255 THEN 0 ELSE n + 1
             /\ U8(n + 2) = IF n >= 254 THEN n - 254 ELSE n + 2
             /\ U8(n + 3) = IF n >= 253 THEN n - 253 ELSE n + 3
             /\ U8(n - 1) = IF n = 0 THEN 255 ELSE n - 1
  <2>1. n \in Nat /\ n < 256
    BY ByteRange
  <2>. QED  BY <2>1, SMT DEF U8
<1>8. U8(U8(sp - 2) - 1) = U8(sp - 3)
  BY <1>1, <1>3, <1>4, <1>5, <1>7
<1>9. U8(U8(sp - 3) + 1) = U8(sp - 2)
  BY <1>1, <1>3, <1>4, <1>5, <1>7
<1>10. U8(U8(sp - 2) + 1) = U8(sp - 1) /\ U8(U8(sp - 2) + 2) = sp
  BY <1>1, <1>2, <1>3, <1>5, <1>7
<1>11. U8(U8(sp - 3) + 3) = sp
  BY <1>1, <1>4, <1>5, <1>7
<1>12. U8(U8(sp - 1) + 1) = sp
  BY <1>1, <1>2, <1>5, <1>7
<1>. QED  BY <1>5, <1>6, <1>8, <1>9, <1>10, <1>11, <1>12

(* A bit of a byte, with what is above and below it.                         *)
LEMMA BitOf ==
    ASSUME NEW w \in {1, 2, 4, 8, 16, 32, 64, 128}, NEW set \in 0..1, NEW high \in 0..127,
           NEW low \in 0..127, low < w
    PROVE  BitSet(low + w * set + 2 * w * high, w) <=> set = 1
<1>1. \A v \in {1, 2, 4, 8, 16, 32, 64, 128} :
        w = v => (low + v * set + 2 * v * high) \div v = set + 2 * high
  BY SMTT(30)
<1>2. (low + w * set + 2 * w * high) \div w = set + 2 * high
  BY <1>1
<1>3. (set + 2 * high) % 2 = set
  OBVIOUS
<1>. QED  BY <1>2, <1>3 DEF BitSet

(* A pushed status is pulled as it was.                                      *)
LEMMA StatusRound ==
    ASSUME NEW status \in SUBSET Flags
    PROVE  StatusOf(StatusByte(status)) = status
<1> DEFINE has(flag) == IF flag \in status THEN 1 ELSE 0
<1>1. PICK C \in 0..1 : C = has("C")
  OBVIOUS
<1>2. PICK Z \in 0..1 : Z = has("Z")
  OBVIOUS
<1>3. PICK I \in 0..1 : I = has("I")
  OBVIOUS
<1>4. PICK D \in 0..1 : D = has("D")
  OBVIOUS
<1>5. PICK B \in 0..1 : B = has("B")
  OBVIOUS
<1>6. PICK O \in 0..1 : O = has("One")
  OBVIOUS
<1>7. PICK V \in 0..1 : V = has("V")
  OBVIOUS
<1>8. PICK N \in 0..1 : N = has("N")
  OBVIOUS
<1> DEFINE byte == StatusByte(status)
<1>9. byte = C + 2 * Z + 4 * I + 8 * D + 16 * B + 32 * O + 64 * V + 128 * N
  BY <1>1, <1>2, <1>3, <1>4, <1>5, <1>6, <1>7, <1>8 DEF StatusByte, FlagWeight
<1> HIDE DEF byte
<1>10. BitSet(byte, 1) <=> C = 1
  <2>1. PICK low \in 0..127 : low = 0
    OBVIOUS
  <2>2. PICK high \in 0..127 : high = Z + 2 * I + 4 * D + 8 * B + 16 * O + 32 * V + 64 * N
    OBVIOUS
  <2>3. byte = low + 1 * C + 2 * 1 * high
    BY <1>9, <2>1, <2>2
  <2>4. low < 1
    BY <2>1
  <2>5. BitSet(low + 1 * C + 2 * 1 * high, 1) <=> C = 1
    BY <2>4, BitOf, Zenon
  <2>. QED  BY <2>3, <2>5
<1>11. BitSet(byte, 2) <=> Z = 1
  <2>1. PICK low \in 0..127 : low = C
    OBVIOUS
  <2>2. PICK high \in 0..127 : high = I + 2 * D + 4 * B + 8 * O + 16 * V + 32 * N
    OBVIOUS
  <2>3. byte = low + 2 * Z + 2 * 2 * high
    BY <1>9, <2>1, <2>2
  <2>4. low < 2
    BY <2>1
  <2>5. BitSet(low + 2 * Z + 2 * 2 * high, 2) <=> Z = 1
    BY <2>4, BitOf, Zenon
  <2>. QED  BY <2>3, <2>5
<1>12. BitSet(byte, 4) <=> I = 1
  <2>1. PICK low \in 0..127 : low = C + 2 * Z
    OBVIOUS
  <2>2. PICK high \in 0..127 : high = D + 2 * B + 4 * O + 8 * V + 16 * N
    OBVIOUS
  <2>3. byte = low + 4 * I + 2 * 4 * high
    BY <1>9, <2>1, <2>2
  <2>4. low < 4
    BY <2>1
  <2>5. BitSet(low + 4 * I + 2 * 4 * high, 4) <=> I = 1
    BY <2>4, BitOf, Zenon
  <2>. QED  BY <2>3, <2>5
<1>13. BitSet(byte, 8) <=> D = 1
  <2>1. PICK low \in 0..127 : low = C + 2 * Z + 4 * I
    OBVIOUS
  <2>2. PICK high \in 0..127 : high = B + 2 * O + 4 * V + 8 * N
    OBVIOUS
  <2>3. byte = low + 8 * D + 2 * 8 * high
    BY <1>9, <2>1, <2>2
  <2>4. low < 8
    BY <2>1
  <2>5. BitSet(low + 8 * D + 2 * 8 * high, 8) <=> D = 1
    BY <2>4, BitOf, Zenon
  <2>. QED  BY <2>3, <2>5
<1>14. BitSet(byte, 16) <=> B = 1
  <2>1. PICK low \in 0..127 : low = C + 2 * Z + 4 * I + 8 * D
    OBVIOUS
  <2>2. PICK high \in 0..127 : high = O + 2 * V + 4 * N
    OBVIOUS
  <2>3. byte = low + 16 * B + 2 * 16 * high
    BY <1>9, <2>1, <2>2
  <2>4. low < 16
    BY <2>1
  <2>5. BitSet(low + 16 * B + 2 * 16 * high, 16) <=> B = 1
    BY <2>4, BitOf, Zenon
  <2>. QED  BY <2>3, <2>5
<1>15. BitSet(byte, 32) <=> O = 1
  <2>1. PICK low \in 0..127 : low = C + 2 * Z + 4 * I + 8 * D + 16 * B
    OBVIOUS
  <2>2. PICK high \in 0..127 : high = V + 2 * N
    OBVIOUS
  <2>3. byte = low + 32 * O + 2 * 32 * high
    BY <1>9, <2>1, <2>2
  <2>4. low < 32
    BY <2>1
  <2>5. BitSet(low + 32 * O + 2 * 32 * high, 32) <=> O = 1
    BY <2>4, BitOf, Zenon
  <2>. QED  BY <2>3, <2>5
<1>16. BitSet(byte, 64) <=> V = 1
  <2>1. PICK low \in 0..127 : low = C + 2 * Z + 4 * I + 8 * D + 16 * B + 32 * O
    OBVIOUS
  <2>2. PICK high \in 0..127 : high = N
    OBVIOUS
  <2>3. byte = low + 64 * V + 2 * 64 * high
    BY <1>9, <2>1, <2>2
  <2>4. low < 64
    BY <2>1
  <2>5. BitSet(low + 64 * V + 2 * 64 * high, 64) <=> V = 1
    BY <2>4, BitOf, Zenon
  <2>. QED  BY <2>3, <2>5
<1>17. BitSet(byte, 128) <=> N = 1
  <2>1. PICK low \in 0..127 : low = C + 2 * Z + 4 * I + 8 * D + 16 * B + 32 * O + 64 * V
    OBVIOUS
  <2>2. PICK high \in 0..127 : high = 0
    OBVIOUS
  <2>3. byte = low + 128 * N + 2 * 128 * high
    BY <1>9, <2>1, <2>2
  <2>4. low < 128
    BY <2>1
  <2>5. BitSet(low + 128 * N + 2 * 128 * high, 128) <=> N = 1
    BY <2>4, BitOf, Zenon
  <2>. QED  BY <2>3, <2>5
<1>18. \A flag \in Flags : BitSet(byte, FlagWeight[flag]) <=> flag \in status
  BY <1>1, <1>2, <1>3, <1>4, <1>5, <1>6, <1>7, <1>8, <1>10, <1>11, <1>12, <1>13, <1>14,
     <1>15, <1>16, <1>17 DEF Flags, FlagWeight
<1>. QED  BY <1>18 DEF StatusOf, byte

(* Two contents whose stack pages differ at most in one byte.                *)
StackTakes(mem, after, sp, value) ==
    \A other \in Byte :
        ReadMem(after, Stack(other)) = IF other = sp THEN value ELSE ReadMem(mem, Stack(other))

(* write6502() on the stack page.                                            *)
LEMMA WritesStack ==
    ASSUME NEW Contents, HoldsBytes(Contents), KeepsStack(Contents), NEW c \in Cpus(Contents),
           c.hasMem, NEW sp \in Byte, NEW value \in Byte,
           NEW d, d = write6502(c, Stack(sp), value)
    PROVE  /\ d \in Cpus(Contents) /\ d.hasMem /\ d.sp = c.sp
           /\ StackTakes(c.mem, d.mem, sp, value)
<1>1. d \in Cpus(Contents) /\ d.hasMem = c.hasMem /\ d.sp = c.sp
  BY WriteType, StackAddress, Zenon DEF Quiet, Kept
<1>2. d.mem = WriteMem(c.mem, Stack(sp), value)
  BY StackAddress DEF write6502, Cpus
<1>3. c.mem \in Contents
  BY DEF Cpus
<1>4. StackTakes(c.mem, d.mem, sp, value)
  BY <1>2, <1>3 DEF KeepsStack, StackTakes
<1>. QED  BY <1>1, <1>4

(* What push16() and then push8() leave on the stack.                        *)
LEMMA PushesFrame ==
    ASSUME NEW Contents, HoldsBytes(Contents), KeepsStack(Contents), NEW c \in Cpus(Contents),
           c.hasMem, NEW pc \in Word, NEW byte \in Byte
    PROVE  LET d == push8(push16(c, pc), byte)
           IN  d.sp = U8(c.sp - 3) /\ Frame(d.mem, c.sp) = <<Hi(pc), Lo(pc), byte>>
<1> DEFINE sp == c.sp
           sp1 == U8(sp - 1)
           sp2 == U8(sp - 2)
           high == write6502(c, Stack(sp), Hi(pc))
           low == write6502(high, Stack(sp1), Lo(pc))
           return == push16(c, pc)
           last == write6502(return, Stack(sp2), byte)
           d == push8(return, byte)
<1>1. sp \in Byte
  BY DEF Cpus
<1>2. /\ sp1 \in Byte /\ sp2 \in Byte /\ sp1 # sp /\ sp2 # sp /\ sp1 # sp2
      /\ U8(sp2 - 1) = U8(sp - 3)
  BY <1>1, StackPointers
<1>3. Hi(pc) \in Byte /\ Lo(pc) \in Byte
  BY BytesOfWord
<1>4. return = [low EXCEPT !.sp = U8(low.sp - 2)]
  BY DEF push16
<1>5. return.sp = sp2 => d = [last EXCEPT !.sp = U8(last.sp - 1)]
  BY DEF push8
<1>6. return \in Cpus(Contents) /\ return.hasMem = TRUE
  BY PushType DEF Quiet, Kept
<1> HIDE DEF high, low, return, last, d, sp, sp1, sp2
<1>7. ASSUME NEW e \in Cpus(Contents), e.hasMem = TRUE, NEW n \in Byte, NEW value \in Byte
       PROVE  LET w == write6502(e, Stack(n), value)
              IN  /\ w \in Cpus(Contents) /\ w.hasMem = TRUE /\ w.sp = e.sp
                  /\ StackTakes(e.mem, w.mem, n, value)
  <2>1. /\ write6502(e, Stack(n), value) \in Cpus(Contents)
        /\ write6502(e, Stack(n), value).hasMem
        /\ write6502(e, Stack(n), value).sp = e.sp
        /\ StackTakes(e.mem, write6502(e, Stack(n), value).mem, n, value)
    BY <1>7, WritesStack
  <2>. QED  BY <2>1 DEF Cpus
<1>8. /\ high \in Cpus(Contents) /\ high.hasMem = TRUE /\ high.sp = sp
      /\ StackTakes(c.mem, high.mem, sp, Hi(pc))
  BY <1>1, <1>3, WritesStack DEF high, sp
<1>9. /\ low \in Cpus(Contents) /\ low.hasMem = TRUE /\ low.sp = sp
      /\ StackTakes(high.mem, low.mem, sp1, Lo(pc))
  <2>1. low = write6502(high, Stack(sp1), Lo(pc))
    BY DEF low
  <2>2. /\ low \in Cpus(Contents) /\ low.hasMem = TRUE /\ low.sp = high.sp
        /\ StackTakes(high.mem, low.mem, sp1, Lo(pc))
    BY <1>2, <1>3, <1>7, <1>8, <2>1
  <2>. QED  BY <1>8, <2>2
<1>10. return.mem = low.mem /\ return.sp = sp2
  BY <1>4, <1>9 DEF Cpus, sp2
<1>11. /\ last \in Cpus(Contents) /\ last.sp = sp2
       /\ StackTakes(low.mem, last.mem, sp2, byte)
  <2>1. last = write6502(return, Stack(sp2), byte)
    BY DEF last
  <2>2. /\ last \in Cpus(Contents) /\ last.sp = return.sp
        /\ StackTakes(return.mem, last.mem, sp2, byte)
    BY <1>2, <1>6, <1>7, <2>1
  <2>. QED  BY <1>10, <2>2
<1>12. d.mem = last.mem /\ d.sp = U8(sp - 3)
  BY <1>2, <1>5, <1>10, <1>11 DEF Cpus
<1>13. /\ ReadMem(d.mem, Stack(sp)) = Hi(pc)
       /\ ReadMem(d.mem, Stack(sp1)) = Lo(pc)
       /\ ReadMem(d.mem, Stack(sp2)) = byte
  BY <1>1, <1>2, <1>8, <1>9, <1>11, <1>12 DEF StackTakes
<1>. QED  BY <1>12, <1>13 DEF Frame, d, return, sp, sp1, sp2

(* And what rti() makes of it.                                               *)
LEMMA PullsFrame ==
    ASSUME NEW Contents, NEW c \in Cpus(Contents), c.hasMem, NEW sp \in Byte, c.sp = U8(sp - 3)
    PROVE  LET d == rti(c)
               frame == Frame(c.mem, sp)
           IN  /\ d.status = StatusOf(frame[3])
               /\ d.pc = Word16(frame[2], frame[1])
               /\ d.sp = sp /\ d.a = c.a /\ d.x = c.x /\ d.y = c.y
<1> DEFINE p == Pull(c, 1)
           q == Pull(c, 3)
<1>1. /\ U8(sp - 1) \in Byte /\ U8(sp - 2) \in Byte /\ U8(sp - 3) \in Byte
      /\ U8(c.sp + 1) = U8(sp - 2)
      /\ U8(U8(c.sp + 1) + 1) = U8(sp - 1)
      /\ U8(U8(c.sp + 1) + 2) = sp
      /\ U8(c.sp + 3) = sp
  BY StackPointers
<1>2. p.hasMem /\ p.mem = c.mem /\ p.sp = U8(c.sp + 1)
  BY DEF Pull, Cpus
<1>3. q.sp = sp /\ q.a = c.a /\ q.x = c.x /\ q.y = c.y /\ q \in Cpus(Contents)
  BY <1>1 DEF Pull, Cpus
<1> HIDE DEF p, q
<1>4. \A other \in Byte : /\ read6502(c, Stack(other)) = ReadMem(c.mem, Stack(other))
                          /\ read6502(p, Stack(other)) = ReadMem(c.mem, Stack(other))
  BY <1>2, StackAddress DEF read6502
<1>5. Pulled8(c) = ReadMem(c.mem, Stack(U8(sp - 2)))
  BY <1>1, <1>4 DEF Pulled8
<1>6. Pulled16(p) = Word16(ReadMem(c.mem, Stack(U8(sp - 1))), ReadMem(c.mem, Stack(sp)))
  BY <1>1, <1>2, <1>4 DEF Pulled16
<1>7. rti(c) = [q EXCEPT !.status = StatusOf(Pulled8(c)), !.pc = Pulled16(p)]
  BY DEF rti, p, q
<1>. QED  BY <1>3, <1>5, <1>6, <1>7 DEF Frame, Cpus

(* The interrupts: the return address and the status, B cleared by irq().    *)
LEMMA InterruptPushes ==
    ASSUME NEW Contents, HoldsBytes(Contents), KeepsStack(Contents), NEW c \in Cpus(Contents),
           c.hasMem, NEW d \in {irq(c), nmi(c)}
    PROVE  \E byte \in Byte : /\ Frame(d.mem, c.sp) = <<Hi(c.pc), Lo(c.pc), byte>>
                              /\ StatusOf(byte) \ {"B"} = c.status \ {"B"}
<1>1. ASSUME NEW status \in SUBSET Flags, NEW address, d = Vector(c, status, address)
      PROVE  Frame(d.mem, c.sp) = <<Hi(c.pc), Lo(c.pc), StatusByte(status)>>
  <2> DEFINE pushed == push8(push16(c, c.pc), StatusByte(status))
  <2>1. c.pc \in Word /\ StatusByte(status) \in Byte
    BY StatusType DEF Cpus
  <2>2. push16(c, c.pc) \in Cpus(Contents)
    BY <2>1, PushType
  <2>3. pushed \in Cpus(Contents)
    BY <2>1, <2>2, PushType
  <2>4. d.mem = pushed.mem
    BY <1>1, <2>3 DEF Vector, Cpus
  <2>. QED  BY <2>1, <2>4, PushesFrame
<1>2. c.status \in SUBSET Flags /\ c.status \ {"B"} \in SUBSET Flags
  BY DEF Cpus
<1>3. /\ StatusByte(c.status) \in Byte /\ StatusByte(c.status \ {"B"}) \in Byte
      /\ StatusOf(StatusByte(c.status)) = c.status
      /\ StatusOf(StatusByte(c.status \ {"B"})) = c.status \ {"B"}
  BY <1>2, StatusRound, StatusType
<1>4. CASE d = irq(c)
  BY <1>1, <1>2, <1>3, <1>4 DEF irq
<1>5. CASE d = nmi(c)
  BY <1>1, <1>2, <1>3, <1>5 DEF nmi
<1>. QED  BY <1>4, <1>5

(* What a program finds of a CPU: its registers and memory.                  *)
SameProgram(c, d) ==
    /\ d.hasMem = c.hasMem /\ d.mem = c.mem
    /\ d.pc = c.pc /\ d.sp = c.sp /\ d.a = c.a /\ d.x = c.x /\ d.y = c.y
    /\ d.status = c.status

AfterStep(c) == [Settled(stepInstruction(c)) EXCEPT !.ticks = 0]

(* Charging an instruction and forgetting its operands.                      *)
LEMMA ChargedAlike ==
    ASSUME NEW Contents, NEW c \in Cpus(Contents)
    PROVE  SameProgram(c, Charged(c)) /\ SameProgram(c, [Settled(c) EXCEPT !.ticks = 0])
<1>1. SameProgram(c, Charged(c))
  <2> DEFINE ticks == c.ticks + m_insn[c.opcode].ticks
                        + IF c.penaltyop /\ c.penaltyaddr THEN 1 ELSE 0
  <2>1. Charged(c) = [c EXCEPT !.ticks = ticks]
    BY DEF Charged
  <2> HIDE DEF ticks
  <2>. QED  BY <2>1 DEF SameProgram, Cpus
<1>2. SameProgram(c, [Settled(c) EXCEPT !.ticks = 0])
  BY DEF SameProgram, Settled, Scratch, Cpus
<1>. QED  BY <1>1, <1>2

(* An instruction from its fetch to its charge.                              *)
LEMMA StepRuns ==
    ASSUME NEW Contents, HoldsBytes(Contents), NEW c \in Cpus(Contents), RunsValid(c)
    PROVE  LET f == Fetch(c)
               g == Address(f)
           IN  /\ f \in Cpus(Contents) /\ g \in Cpus(Contents)
               /\ m_insn[f.opcode].insn = FetchedInsn(c) /\ g.opcode = f.opcode
               /\ Execute(g) \in Cpus(Contents)
               /\ stepInstruction(c) = Charged(Execute(g))
               /\ SameProgram(Execute(g), stepInstruction(c))
               /\ SameProgram(Execute(g), AfterStep(c))
<1> DEFINE f == Fetch(c)
           g == Address(f)
           e == Execute(g)
           d == stepInstruction(c)
<1>1. ~c.stopped /\ FetchedInsn(c) # "ill"
  BY DEF RunsValid
<1>2. f \in Cpus(Contents) /\ m_insn[f.opcode].insn = FetchedInsn(c)
  BY FetchType
<1>3. d = Charged(e)
  BY <1>1, Zenon DEF stepInstruction
<1> HIDE DEF f
<1>4. EntryOK(m_insn[f.opcode].insn, m_insn[f.opcode].mode, m_insn[f.opcode].ticks)
  BY <1>2, Table DEF Cpus
<1>5. FetchedInsn(c) \in Insns
  BY <1>1, <1>2, <1>4 DEF EntryOK
<1>6. g \in Cpus(Contents) /\ g.opcode = f.opcode
  BY <1>2, AddressType DEF Addressed, Quiet, Kept, Cpus
<1> HIDE DEF g
<1>7. e \in Cpus(Contents)
  BY <1>2, <1>5, <1>6, ExecuteEffect DEF Effect
<1> HIDE DEF e
<1>8. SameProgram(e, d)
  BY <1>3, <1>7, ChargedAlike
<1>9. SameProgram(d, AfterStep(c))
  BY StepType, ChargedAlike DEF AfterStep
<1>10. SameProgram(e, AfterStep(c))
  BY <1>8, <1>9 DEF SameProgram
<1>. QED  BY <1>2, <1>3, <1>6, <1>7, <1>8, <1>10 DEF d, e, g, f

(* An implied one has no operand to address.                                 *)
LEMMA ImpliedStep ==
    ASSUME NEW Contents, HoldsBytes(Contents), NEW c \in Cpus(Contents), RunsValid(c),
           FetchedInsn(c) \in Alone
    PROVE  LET f == Fetch(c)
           IN  /\ f \in Cpus(Contents)
               /\ m_insn[f.opcode].insn = FetchedInsn(c)
               /\ Execute(f) \in Cpus(Contents)
               /\ stepInstruction(c) = Charged(Execute(f))
               /\ SameProgram(Execute(f), stepInstruction(c))
               /\ SameProgram(Execute(f), AfterStep(c))
<1> DEFINE f == Fetch(c)
<1>1. /\ f \in Cpus(Contents)
      /\ m_insn[f.opcode].insn = FetchedInsn(c)
      /\ Execute(Address(f)) \in Cpus(Contents)
      /\ stepInstruction(c) = Charged(Execute(Address(f)))
      /\ SameProgram(Execute(Address(f)), stepInstruction(c))
      /\ SameProgram(Execute(Address(f)), AfterStep(c))
  BY StepRuns
<1> HIDE DEF f
<1>2. m_insn[f.opcode].mode = "imp"
  BY <1>1, Table DEF EntryOK, Cpus
<1>3. Address(f) = f
  BY <1>2 DEF Address, imp
<1>. QED  BY <1>1, <1>3, Zenon DEF f

(* Fetching an opcode leaves the stack as it is.                             *)
LEMMA FetchKeeps ==
    ASSUME NEW Contents, HoldsBytes(Contents), NEW c \in Cpus(Contents)
    PROVE  LET f == Fetch(c)
           IN  /\ f.hasMem = c.hasMem /\ f.mem = c.mem /\ f.pc = U16(c.pc + 1)
               /\ f.sp = c.sp /\ f.a = c.a /\ f.x = c.x /\ f.y = c.y
               /\ f.status = c.status \union {"One"}
<1> DEFINE pc == U16(c.pc + 1)
           opcode == read6502(c, c.pc)
           status == c.status \union {"One"}
<1>1. Fetch(c) = [c EXCEPT !.pc = pc, !.opcode = opcode, !.status = status,
                           !.penaltyop = FALSE, !.penaltyaddr = FALSE, !.ticks = 0]
  BY DEF Fetch, Skip, Cpus
<1> HIDE DEF pc, opcode, status
<1>2. /\ Fetch(c).hasMem = c.hasMem /\ Fetch(c).mem = c.mem /\ Fetch(c).pc = pc
      /\ Fetch(c).sp = c.sp /\ Fetch(c).status = status
  BY <1>1 DEF Cpus
<1>3. Fetch(c).a = c.a /\ Fetch(c).x = c.x /\ Fetch(c).y = c.y
  BY <1>1 DEF Cpus
<1>. QED  BY <1>2, <1>3 DEF pc, status

(* BRK pushes the address behind its second byte, and B.                     *)
LEMMA BrkPushes ==
    ASSUME NEW Contents, HoldsBytes(Contents), KeepsStack(Contents), NEW c \in Cpus(Contents),
           c.hasMem, RunsValid(c), FetchedInsn(c) = "brk"
    PROVE  \E byte \in Byte :
             /\ Frame(AfterStep(c).mem, c.sp) = <<Hi(U16(c.pc + 2)), Lo(U16(c.pc + 2)), byte>>
             /\ StatusOf(byte) \ {"B"} = Fetch(c).status \ {"B"}
<1> DEFINE f == Fetch(c)
           pc == U16(f.pc + 1)
           status == f.status \union {"B"}
           byte == StatusByte(status)
           pushed == push8(push16(f, pc), byte)
<1>1. /\ f \in Cpus(Contents) /\ m_insn[f.opcode].insn = "brk"
      /\ SameProgram(Execute(f), AfterStep(c))
  BY ImpliedStep DEF Alone
<1>2. f.hasMem = c.hasMem /\ f.sp = c.sp /\ f.pc = U16(c.pc + 1)
  BY FetchKeeps
<1>3. pc = U16(c.pc + 2) /\ pc \in Word
  <2>1. c.pc \in Nat /\ c.pc < 65536
    BY WordRange DEF Cpus
  <2>2. U16(U16(c.pc + 1) + 1) = U16(c.pc + 2)
    BY <2>1, SMT DEF U16
  <2>3. U16(c.pc + 2) \in Word
    BY <2>1, U16Type
  <2>. QED  BY <1>2, <2>2, <2>3
<1> HIDE DEF f
<1>4. status \in SUBSET Flags
  BY <1>1 DEF Cpus, Flags
<1>5. byte \in Byte /\ StatusOf(byte) = status
  BY <1>4, StatusRound, StatusType
<1> HIDE DEF pc, byte
<1>6. Execute(f) = brk(f)
  BY <1>1, ZenonT(60) DEF Execute
<1>7. pushed \in Cpus(Contents)
  BY <1>1, <1>3, <1>5, PushType
<1>8. Frame(pushed.mem, f.sp) = <<Hi(pc), Lo(pc), byte>>
  BY <1>1, <1>2, <1>3, <1>5, PushesFrame
<1>9. brk(f) = [pushed EXCEPT !.status = (@ \union {"I"}) \ {"D"}, !.pc = Read16(pushed, 65534)]
  BY DEF brk, pc, byte
<1> HIDE DEF pushed
<1>10. brk(f).mem = pushed.mem
  BY <1>7, <1>9 DEF Cpus
<1>11. Frame(AfterStep(c).mem, c.sp) = <<Hi(pc), Lo(pc), byte>>
  BY <1>1, <1>2, <1>6, <1>8, <1>10 DEF SameProgram
<1>. QED  BY <1>3, <1>5, <1>11 DEF f

(* RTI takes the frame below the stack pointer.                              *)
LEMMA RtiPulls ==
    ASSUME NEW Contents, HoldsBytes(Contents), NEW c \in Cpus(Contents), c.hasMem,
           RunsValid(c), FetchedInsn(c) = "rti", NEW sp \in Byte, c.sp = U8(sp - 3)
    PROVE  LET d == AfterStep(c)
               frame == Frame(c.mem, sp)
           IN  /\ d.hasMem /\ d.status = StatusOf(frame[3])
               /\ d.pc = Word16(frame[2], frame[1])
               /\ d.sp = sp /\ d.a = c.a /\ d.x = c.x /\ d.y = c.y
<1> DEFINE f == Fetch(c)
           d == AfterStep(c)
           frame == Frame(c.mem, sp)
<1>1. /\ f \in Cpus(Contents) /\ m_insn[f.opcode].insn = "rti"
      /\ SameProgram(Execute(f), d)
  BY ImpliedStep DEF Alone
<1>2. /\ f.hasMem = c.hasMem /\ f.mem = c.mem /\ f.sp = c.sp
      /\ f.a = c.a /\ f.x = c.x /\ f.y = c.y
  BY FetchKeeps
<1>3. d.hasMem = c.hasMem
  BY StepType, SettledType DEF AfterStep
<1> HIDE DEF f, d
<1>4. Execute(f) = rti(f)
  BY <1>1, ZenonT(60) DEF Execute
<1>5. /\ rti(f).status = StatusOf(frame[3])
      /\ rti(f).pc = Word16(frame[2], frame[1])
      /\ rti(f).sp = sp /\ rti(f).a = c.a /\ rti(f).x = c.x /\ rti(f).y = c.y
  <2>1. f.hasMem /\ f.sp = U8(sp - 3)
    BY <1>2
  <2>2. /\ rti(f).status = StatusOf(Frame(f.mem, sp)[3])
        /\ rti(f).pc = Word16(Frame(f.mem, sp)[2], Frame(f.mem, sp)[1])
        /\ rti(f).sp = sp /\ rti(f).a = f.a /\ rti(f).x = f.x /\ rti(f).y = f.y
    BY <1>1, <2>1, PullsFrame
  <2>. QED  BY <1>2, <2>2
<1> HIDE DEF frame
<1>6. SameProgram(rti(f), d)
  BY <1>1, <1>4
<1>. QED  BY <1>3, <1>5, <1>6 DEF SameProgram, d, frame

(* What push16() leaves on the stack.                                        *)
LEMMA PushesWord ==
    ASSUME NEW Contents, HoldsBytes(Contents), KeepsStack(Contents), NEW c \in Cpus(Contents),
           c.hasMem, NEW pc \in Word
    PROVE  LET d == push16(c, pc)
           IN  /\ d \in Cpus(Contents) /\ d.hasMem
               /\ d.sp = U8(c.sp - 2) /\ d.pc = c.pc /\ d.status = c.status
               /\ d.a = c.a /\ d.x = c.x /\ d.y = c.y
               /\ d.mem = WriteMem(WriteMem(c.mem, Stack(c.sp), Hi(pc)),
                                   Stack(U8(c.sp - 1)), Lo(pc))
               /\ ReadMem(d.mem, Stack(c.sp)) = Hi(pc)
               /\ ReadMem(d.mem, Stack(U8(c.sp - 1))) = Lo(pc)
<1> DEFINE sp == c.sp
           sp1 == U8(sp - 1)
           high == write6502(c, Stack(sp), Hi(pc))
           low == write6502(high, Stack(sp1), Lo(pc))
           d == push16(c, pc)
<1>1. sp \in Byte
  BY DEF Cpus
<1>2. sp1 \in Byte /\ sp1 # sp
  BY <1>1, StackPointers
<1>3. Hi(pc) \in Byte /\ Lo(pc) \in Byte
  BY BytesOfWord
<1>4. d = [low EXCEPT !.sp = U8(low.sp - 2)]
  BY DEF push16
<1>5. d \in Cpus(Contents) /\ Quiet(c, d) /\ d.pc = c.pc /\ d.status = c.status
  BY PushType
<1>6. high = [c EXCEPT !.mem = WriteMem(c.mem, U16(Stack(sp)), Hi(pc))]
  BY DEF write6502
<1> HIDE DEF low, d, sp, sp1
<1>7. /\ high \in Cpus(Contents) /\ high.hasMem = TRUE /\ high.sp = sp
      /\ StackTakes(c.mem, high.mem, sp, Hi(pc))
  BY <1>1, <1>3, WritesStack DEF sp
<1>8. high.a = c.a /\ high.x = c.x /\ high.y = c.y
  BY <1>6 DEF Cpus
<1> HIDE DEF high
<1>9. low = write6502(high, Stack(sp1), Lo(pc))
  BY DEF low
<1>10. low = [high EXCEPT !.mem = WriteMem(high.mem, U16(Stack(sp1)), Lo(pc))]
  BY <1>7, <1>9 DEF write6502
<1>11. low.a = c.a /\ low.x = c.x /\ low.y = c.y
  BY <1>7, <1>8, <1>10 DEF Cpus
<1>12. /\ low \in Cpus(Contents) /\ low.hasMem /\ low.sp = high.sp
       /\ StackTakes(high.mem, low.mem, sp1, Lo(pc))
  <2>1. ASSUME NEW e \in Cpus(Contents), e.hasMem = TRUE, NEW n \in Byte, NEW value \in Byte
        PROVE  LET w == write6502(e, Stack(n), value)
               IN  /\ w \in Cpus(Contents) /\ w.hasMem /\ w.sp = e.sp
                   /\ StackTakes(e.mem, w.mem, n, value)
    BY <2>1, WritesStack
  <2>. QED  BY <1>2, <1>3, <1>7, <1>9, <2>1
<1>13. /\ d.mem = low.mem /\ d.sp = U8(sp - 2) /\ d.hasMem
       /\ d.a = c.a /\ d.x = c.x /\ d.y = c.y
  BY <1>4, <1>7, <1>11, <1>12 DEF Cpus
<1>14. /\ ReadMem(d.mem, Stack(sp)) = Hi(pc)
       /\ ReadMem(d.mem, Stack(sp1)) = Lo(pc)
  BY <1>1, <1>2, <1>7, <1>12, <1>13 DEF StackTakes
<1>15. d.mem = WriteMem(WriteMem(c.mem, Stack(sp), Hi(pc)), Stack(sp1), Lo(pc))
  <2>1. high.mem = WriteMem(c.mem, Stack(sp), Hi(pc))
    BY <1>1, <1>6, StackAddress DEF Cpus
  <2>2. low.mem = WriteMem(high.mem, Stack(sp1), Lo(pc))
    BY <1>2, <1>7, <1>10, StackAddress DEF Cpus
  <2>. QED  BY <1>13, <2>1, <2>2
<1>. QED  BY <1>5, <1>13, <1>14, <1>15 DEF d, sp, sp1

(* JSR pushes the address of its last byte.                                  *)
LEMMA JsrPushes ==
    ASSUME NEW Contents, HoldsBytes(Contents), KeepsStack(Contents), NEW c \in Cpus(Contents),
           c.hasMem, RunsValid(c), FetchedInsn(c) = "jsr"
    PROVE  LET d == AfterStep(c)
           IN  /\ d.sp = U8(c.sp - 2) /\ d.a = c.a /\ d.x = c.x /\ d.y = c.y
               /\ d.status = Fetch(c).status
               /\ ReturnAddress(d.mem, c.sp) = U16(c.pc + 2)
               /\ \E high \in Byte, low \in Byte :
                    d.mem = WriteMem(WriteMem(c.mem, Stack(c.sp), high),
                                     Stack(U8(c.sp - 1)), low)
               /\ SameProgram(d, stepInstruction(c))
<1> DEFINE f == Fetch(c)
           g == Address(f)
           d == AfterStep(c)
           pc == U16(g.pc - 1)
           pushed == push16(g, pc)
<1>1. /\ f \in Cpus(Contents) /\ g \in Cpus(Contents)
      /\ m_insn[f.opcode].insn = "jsr" /\ g.opcode = f.opcode
      /\ SameProgram(Execute(g), d)
      /\ SameProgram(Execute(g), stepInstruction(c))
  BY StepRuns
<1>2. /\ f.hasMem = c.hasMem /\ f.mem = c.mem /\ f.pc = U16(c.pc + 1) /\ f.sp = c.sp
      /\ f.a = c.a /\ f.x = c.x /\ f.y = c.y
  BY FetchKeeps
<1>3. g = abso(f)
  <2>1. m_insn[f.opcode].mode = "abso"
    BY <1>1, Table DEF EntryOK, Cpus
  <2> HIDE DEF f
  <2>. QED  BY <2>1, ZenonT(60) DEF Address
<1> HIDE DEF f, d
<1>4. /\ g.hasMem = c.hasMem /\ g.mem = c.mem /\ g.pc = U16(f.pc + 2) /\ g.sp = c.sp
      /\ g.a = c.a /\ g.x = c.x /\ g.y = c.y /\ g.status = f.status
  BY <1>1, <1>2, <1>3, Zenon DEF abso, Skip, Cpus
<1> HIDE DEF g
<1>5. pc = U16(c.pc + 2) /\ pc \in Word
  <2>1. c.pc \in Nat /\ c.pc < 65536
    BY WordRange DEF Cpus
  <2>2. U16(U16(U16(c.pc + 1) + 2) - 1) = U16(c.pc + 2)
    BY <2>1, SMT DEF U16
  <2>3. U16(c.pc + 2) \in Word
    BY <2>1, U16Type
  <2>. QED  BY <1>2, <1>4, <2>2, <2>3
<1> HIDE DEF pc
<1>6. Execute(g) = jsr(g)
  BY <1>1, ZenonT(60) DEF Execute
<1>7. /\ pushed \in Cpus(Contents)
      /\ pushed.sp = U8(g.sp - 2) /\ pushed.status = g.status
      /\ pushed.a = g.a /\ pushed.x = g.x /\ pushed.y = g.y
      /\ pushed.mem = WriteMem(WriteMem(g.mem, Stack(g.sp), Hi(pc)),
                               Stack(U8(g.sp - 1)), Lo(pc))
      /\ ReadMem(pushed.mem, Stack(g.sp)) = Hi(pc)
      /\ ReadMem(pushed.mem, Stack(U8(g.sp - 1))) = Lo(pc)
  <2>1. g.hasMem
    BY <1>4
  <2>. QED  BY <1>1, <1>5, <2>1, PushesWord
<1>8. jsr(g) = [pushed EXCEPT !.pc = g.ea]
  BY DEF jsr, pc
<1> HIDE DEF pushed
<1>9. /\ jsr(g).mem = pushed.mem /\ jsr(g).sp = U8(c.sp - 2) /\ jsr(g).status = f.status
      /\ jsr(g).a = c.a /\ jsr(g).x = c.x /\ jsr(g).y = c.y
  BY <1>4, <1>7, <1>8 DEF Cpus
<1>10. /\ d.mem = pushed.mem /\ d.sp = U8(c.sp - 2) /\ d.status = f.status
       /\ d.a = c.a /\ d.x = c.x /\ d.y = c.y
  BY <1>1, <1>6, <1>9 DEF SameProgram
<1>11. ReturnAddress(d.mem, c.sp) = pc
  <2>1. Word16(Lo(pc), Hi(pc)) = pc
    BY <1>5, BytesOfWord
  <2>. QED  BY <1>4, <1>7, <1>10, <2>1 DEF ReturnAddress
<1>12. SameProgram(d, stepInstruction(c))
  BY <1>1 DEF SameProgram
<1>13. \E high \in Byte, low \in Byte :
         d.mem = WriteMem(WriteMem(c.mem, Stack(c.sp), high), Stack(U8(c.sp - 1)), low)
  BY <1>4, <1>5, <1>7, <1>10, BytesOfWord
<1>. QED  BY <1>5, <1>10, <1>11, <1>12, <1>13 DEF d, f

(* RTS goes on behind the return address below the stack pointer.            *)
LEMMA RtsPulls ==
    ASSUME NEW Contents, HoldsBytes(Contents), NEW c \in Cpus(Contents), c.hasMem,
           RunsValid(c), FetchedInsn(c) = "rts", NEW sp \in Byte, c.sp = U8(sp - 2)
    PROVE  LET d == AfterStep(c)
           IN  /\ d.pc = U16(ReturnAddress(c.mem, sp) + 1) /\ d.mem = c.mem
               /\ d.sp = sp /\ d.a = c.a /\ d.x = c.x /\ d.y = c.y
               /\ d.status = Fetch(c).status
               /\ SameProgram(d, stepInstruction(c))
<1> DEFINE f == Fetch(c)
           d == AfterStep(c)
           p == Pull(f, 2)
<1>1. /\ f \in Cpus(Contents) /\ m_insn[f.opcode].insn = "rts"
      /\ SameProgram(Execute(f), d)
      /\ SameProgram(Execute(f), stepInstruction(c))
  BY ImpliedStep DEF Alone
<1>2. /\ f.hasMem = c.hasMem /\ f.mem = c.mem /\ f.sp = c.sp
      /\ f.a = c.a /\ f.x = c.x /\ f.y = c.y
  BY FetchKeeps
<1> HIDE DEF f, d
<1>3. Execute(f) = rts(f)
  BY <1>1, ZenonT(60) DEF Execute
<1>4. U8(sp - 1) \in Byte /\ U8(c.sp + 1) = U8(sp - 1) /\ U8(c.sp + 2) = sp
  BY StackPointers
<1>5. \A other \in Byte : read6502(f, Stack(other)) = ReadMem(c.mem, Stack(other))
  BY <1>2, StackAddress DEF read6502
<1>6. Pulled16(f) = ReturnAddress(c.mem, sp)
  BY <1>2, <1>4, <1>5 DEF Pulled16, ReturnAddress
<1>7. /\ p.sp = sp /\ p.mem = c.mem /\ p.a = c.a /\ p.x = c.x /\ p.y = c.y
      /\ p.status = f.status /\ p \in Cpus(Contents)
  BY <1>1, <1>2, <1>4 DEF Pull, Cpus
<1>8. rts(f) = [p EXCEPT !.pc = U16(Pulled16(f) + 1)]
  BY DEF rts
<1> HIDE DEF p
<1>9. /\ rts(f).pc = U16(ReturnAddress(c.mem, sp) + 1) /\ rts(f).mem = c.mem
      /\ rts(f).sp = sp /\ rts(f).a = c.a /\ rts(f).x = c.x /\ rts(f).y = c.y
      /\ rts(f).status = f.status
  BY <1>6, <1>7, <1>8 DEF Cpus
<1>10. SameProgram(rts(f), d) /\ SameProgram(d, stepInstruction(c))
  BY <1>1, <1>3 DEF SameProgram
<1>. QED  BY <1>9, <1>10 DEF SameProgram, d, f

-----------------------------------------------------------------------------
(* Two CPUs that differ only in the members that hold operands run alike     *)

(* The members of a CPU record.                                              *)
Members == {"hasMem", "mem", "pc", "sp", "a", "x", "y", "status", "ea", "reladdr", "opcode",
            "penaltyop", "penaltyaddr", "waiting", "stopped", "ticks"}
(* Two CPUs that agree on every member but ea and reladdr.                   *)
Agree(c, d) ==
    /\ DOMAIN c = Members /\ DOMAIN d = Members
    /\ d.hasMem = c.hasMem /\ d.mem = c.mem
    /\ d.pc = c.pc /\ d.sp = c.sp /\ d.a = c.a /\ d.x = c.x /\ d.y = c.y
    /\ d.status = c.status
    /\ d.opcode = c.opcode /\ d.penaltyop = c.penaltyop /\ d.penaltyaddr = c.penaltyaddr
    /\ d.waiting = c.waiting /\ d.stopped = c.stopped
    /\ d.ticks = c.ticks

(* Both read the same.                                                       *)
LEMMA ReadAgree ==
    ASSUME NEW c, NEW d, Agree(c, d)
    PROVE  /\ \A address : read6502(d, address) = read6502(c, address)
           /\ \A address : Read16(d, address) = Read16(c, address)
           /\ \A address : Read16Page0(d, address) = Read16Page0(c, address)
           /\ Pulled8(d) = Pulled8(c) /\ Pulled16(d) = Pulled16(c)
<1>1. d.hasMem = c.hasMem /\ d.mem = c.mem /\ d.sp = c.sp
  BY DEF Agree
<1>2. \A address : read6502(d, address) = read6502(c, address)
  BY <1>1, Zenon DEF read6502
<1>3. Stack(U8(d.sp + 1)) = Stack(U8(c.sp + 1)) /\ Stack(U8(d.sp + 2)) = Stack(U8(c.sp + 2))
  BY <1>1
<1>4. Pulled8(d) = Pulled8(c) /\ Pulled16(d) = Pulled16(c)
  BY <1>2, <1>3 DEF Pulled8, Pulled16
<1>. QED  BY <1>2, <1>4 DEF Read16, Read16Page0

(* Both still agree after the same write.                                    *)
LEMMA WriteAgree ==
    ASSUME NEW c, NEW d, Agree(c, d), NEW address, NEW value
    PROVE  Agree(write6502(c, address, value), write6502(d, address, value))
<1> DEFINE contents == WriteMem(c.mem, U16(address), value)
<1>1. /\ d.hasMem = c.hasMem
      /\ write6502(c, address, value) = IF c.hasMem THEN [c EXCEPT !.mem = contents] ELSE c
      /\ write6502(d, address, value) = IF c.hasMem THEN [d EXCEPT !.mem = contents] ELSE d
  BY Zenon DEF write6502, Agree
<1> HIDE DEF contents
<1>2. Agree([c EXCEPT !.mem = contents], [d EXCEPT !.mem = contents])
  BY DEF Agree, Members
<1>. QED  BY <1>1, <1>2, Zenon

(* A register takes the same byte in both.                                   *)
LEMMA LoadAgree ==
    ASSUME NEW c, NEW d, Agree(c, d), NEW value
    PROVE  /\ Agree(LoadA(c, value), LoadA(d, value))
           /\ Agree(LoadX(c, value), LoadX(d, value))
           /\ Agree(LoadY(c, value), LoadY(d, value))
           /\ Agree(PenaltyOp(c), PenaltyOp(d))
<1> DEFINE status == ZeroSign(c.status, value)
<1>1. ZeroSign(d.status, value) = status /\ d.status = c.status
  BY Zenon DEF Agree
<1>2. /\ LoadA(c, value) = [c EXCEPT !.a = value, !.status = status]
      /\ LoadX(c, value) = [c EXCEPT !.x = value, !.status = status]
      /\ LoadY(c, value) = [c EXCEPT !.y = value, !.status = status]
  BY Zenon DEF LoadA, LoadX, LoadY
<1>3. /\ LoadA(d, value) = [d EXCEPT !.a = value, !.status = status]
      /\ LoadX(d, value) = [d EXCEPT !.x = value, !.status = status]
      /\ LoadY(d, value) = [d EXCEPT !.y = value, !.status = status]
  BY <1>1 DEF LoadA, LoadX, LoadY
<1> HIDE DEF status
<1>4. Agree(LoadA(c, value), LoadA(d, value))
  BY <1>2, <1>3 DEF Agree, Members
<1>5. Agree(LoadX(c, value), LoadX(d, value))
  BY <1>2, <1>3 DEF Agree, Members
<1>6. Agree(LoadY(c, value), LoadY(d, value))
  BY <1>2, <1>3 DEF Agree, Members
<1>7. Agree(PenaltyOp(c), PenaltyOp(d))
  BY DEF PenaltyOp, Agree, Members
<1>. QED  BY <1>4, <1>5, <1>6, <1>7

(* Two CPUs that agree, also on the operand of the instruction.              *)
Ready(c, d) == Agree(c, d) /\ (UsesAccumulator(c) \/ d.ea = c.ea)

(* And with the same status.                                                 *)
LEMMA StatusAgree ==
    ASSUME NEW c, NEW d, Agree(c, d), NEW status
    PROVE  /\ Agree([c EXCEPT !.status = status], [d EXCEPT !.status = status])
           /\ Ready(c, d) => Ready([c EXCEPT !.status = status], [d EXCEPT !.status = status])
<1>1. Agree([c EXCEPT !.status = status], [d EXCEPT !.status = status])
  BY DEF Agree, Members
<1>2. /\ [c EXCEPT !.status = status].opcode = c.opcode
      /\ [c EXCEPT !.status = status].ea = c.ea
      /\ [d EXCEPT !.status = status].ea = d.ea
  BY DEF Agree, Members
<1>. QED  BY <1>1, <1>2, Zenon DEF Ready, UsesAccumulator

(* getvalue() and putvalue() treat them alike.                               *)
LEMMA OperandAgree ==
    ASSUME NEW c, NEW d, Ready(c, d)
    PROVE  /\ getvalue(d) = getvalue(c)
           /\ \A value : Agree(putvalue(c, value), putvalue(d, value))
<1>1. Agree(c, d) /\ UsesAccumulator(d) = UsesAccumulator(c) /\ d.a = c.a
  BY Zenon DEF Ready, Agree, UsesAccumulator
<1>2. ~UsesAccumulator(c) => read6502(d, d.ea) = read6502(c, c.ea)
  BY <1>1, ReadAgree, Zenon DEF Ready
<1>3. getvalue(d) = getvalue(c)
  BY <1>1, <1>2, Zenon DEF getvalue
<1>4. ASSUME NEW value
      PROVE  Agree(putvalue(c, value), putvalue(d, value))
  <2> DEFINE byte == U8(value)
  <2>1. Agree([c EXCEPT !.a = byte], [d EXCEPT !.a = byte])
    <3> HIDE DEF byte
    <3>. QED  BY <1>1 DEF Agree, Members
  <2>2. ~UsesAccumulator(c) => Agree(write6502(c, c.ea, byte), write6502(d, d.ea, byte))
    BY <1>1, WriteAgree, Zenon DEF Ready
  <2>. QED  BY <1>1, <2>1, <2>2, Zenon DEF putvalue
<1>. QED  BY <1>3, <1>4

(* The stack of both is the same.                                            *)
LEMMA StackAgree ==
    ASSUME NEW c, NEW d, Agree(c, d)
    PROVE  /\ \A value : Agree(push8(c, value), push8(d, value))
           /\ \A value : Agree(push16(c, value), push16(d, value))
           /\ \A bytes : Agree(Pull(c, bytes), Pull(d, bytes))
<1>0. d.sp = c.sp
  BY DEF Agree
<1>1. ASSUME NEW e, NEW f, Agree(e, f), NEW sp
      PROVE  Agree([e EXCEPT !.sp = sp], [f EXCEPT !.sp = sp])
  BY <1>1 DEF Agree, Members
<1>2. ASSUME NEW value PROVE Agree(push8(c, value), push8(d, value))
  <2> DEFINE v == write6502(c, Stack(c.sp), value)
             w == write6502(d, Stack(d.sp), value)
             sp == U8(v.sp - 1)
  <2>1. Agree(v, w)
    BY <1>0, WriteAgree
  <2>2. w.sp = v.sp
    BY <2>1, Zenon DEF Agree
  <2>3. push8(c, value) = [v EXCEPT !.sp = sp] /\ push8(d, value) = [w EXCEPT !.sp = sp]
    <3> HIDE DEF v, w
    <3>. QED  BY <2>2 DEF push8, v, w
  <2> HIDE DEF v, w, sp
  <2>. QED  BY <1>1, <2>1, <2>3
<1>3. ASSUME NEW value PROVE Agree(push16(c, value), push16(d, value))
  <2> DEFINE v == write6502(c, Stack(c.sp), Hi(value))
             w == write6502(d, Stack(d.sp), Hi(value))
             p == write6502(v, Stack(U8(c.sp - 1)), Lo(value))
             q == write6502(w, Stack(U8(d.sp - 1)), Lo(value))
             sp == U8(p.sp - 2)
  <2>1. Agree(v, w)
    BY <1>0, WriteAgree
  <2> HIDE DEF v, w
  <2>2. Agree(p, q)
    BY <1>0, <2>1, WriteAgree
  <2>3. q.sp = p.sp
    BY <2>2, Zenon DEF Agree
  <2> HIDE DEF p, q
  <2>4. push16(c, value) = [p EXCEPT !.sp = sp] /\ push16(d, value) = [q EXCEPT !.sp = sp]
    BY <2>3 DEF push16, p, q, v, w
  <2> HIDE DEF sp
  <2>. QED  BY <1>1, <2>2, <2>4
<1>4. ASSUME NEW bytes PROVE Agree(Pull(c, bytes), Pull(d, bytes))
  <2> DEFINE sp == U8(c.sp + bytes)
  <2>1. Pull(c, bytes) = [c EXCEPT !.sp = sp] /\ Pull(d, bytes) = [d EXCEPT !.sp = sp]
    BY <1>0 DEF Pull
  <2> HIDE DEF sp
  <2>. QED  BY <1>1, <2>1
<1>. QED  BY <1>2, <1>3, <1>4

(* So is a branch, if they agree on its displacement.                        *)
LEMMA BranchAgree ==
    ASSUME NEW c, NEW d, Agree(c, d), d.reladdr = c.reladdr, NEW taken
    PROVE  Agree(Branch(c, taken), Branch(d, taken))
<1> DEFINE target == U16(c.pc + c.reladdr)
           ticks == c.ticks + IF Hi(c.pc) # Hi(target) THEN 2 ELSE 1
<1>1. d.pc = c.pc /\ d.ticks = c.ticks
  BY DEF Agree
<1>2. /\ Branch(c, taken) = IF taken THEN [c EXCEPT !.pc = target, !.ticks = ticks] ELSE c
      /\ Branch(d, taken) = IF taken THEN [d EXCEPT !.pc = target, !.ticks = ticks] ELSE d
  BY <1>1 DEF Branch
<1> HIDE DEF target, ticks
<1>3. Agree([c EXCEPT !.pc = target, !.ticks = ticks], [d EXCEPT !.pc = target, !.ticks = ticks])
  BY DEF Agree, Members
<1>. QED  BY <1>2, <1>3, Zenon

(* Instructions with an operand.                                             *)
LEMMA OperateAgree ==
    ASSUME NEW c, NEW d, Ready(c, d)
    PROVE  /\ Agree(lda(c), lda(d)) /\ Agree(ldx(c), ldx(d)) /\ Agree(ldy(c), ldy(d))
           /\ Agree(And(c), And(d)) /\ Agree(ora(c), ora(d)) /\ Agree(eor(c), eor(d))
           /\ Agree(cmp(c), cmp(d)) /\ Agree(cpx(c), cpx(d)) /\ Agree(cpy(c), cpy(d))
           /\ Agree(adc(c), adc(d)) /\ Agree(sbc(c), sbc(d)) /\ Agree(bit(c), bit(d))
           /\ Agree(sta(c), sta(d)) /\ Agree(stx(c), stx(d)) /\ Agree(sty(c), sty(d))
           /\ Agree(stz(c), stz(d))
<1> DEFINE v == getvalue(c)
<1>1. Agree(c, d) /\ getvalue(d) = v
  BY OperandAgree DEF Ready
<1>2. d.a = c.a /\ d.x = c.x /\ d.y = c.y /\ d.status = c.status /\ d.ticks = c.ticks
  BY <1>1 DEF Agree
<1>3. Agree(PenaltyOp(c), PenaltyOp(d))
  BY <1>1, LoadAgree
<1> HIDE DEF v
<1>4. /\ Agree(lda(c), lda(d)) /\ Agree(ldx(c), ldx(d)) /\ Agree(ldy(c), ldy(d))
      /\ Agree(And(c), And(d)) /\ Agree(ora(c), ora(d)) /\ Agree(eor(c), eor(d))
  BY <1>1, <1>2, <1>3, LoadAgree, Zenon DEF lda, ldx, ldy, And, ora, eor, v
<1>5. ASSUME NEW e, NEW f, Agree(e, f), NEW register
      PROVE  Agree([e EXCEPT !.status = Compare(register, v, @)],
                   [f EXCEPT !.status = Compare(register, v, @)])
  <2>1. f.status = e.status
    BY <1>5 DEF Agree
  <2> DEFINE status == Compare(register, v, e.status)
  <2>2. Agree([e EXCEPT !.status = status], [f EXCEPT !.status = status])
    BY <1>5, StatusAgree, Zenon
  <2>. QED  BY <2>1, <2>2
<1>6. Agree(cmp(c), cmp(d)) /\ Agree(cpx(c), cpx(d)) /\ Agree(cpy(c), cpy(d))
  BY <1>1, <1>2, <1>3, <1>5, Zenon DEF cmp, cpx, cpy, v
<1>7. ASSUME NEW sum PROVE Agree(Accumulate(c, sum), Accumulate(d, sum))
  <2> DEFINE more == IF "D" \in c.status THEN 1 ELSE 0
             a == U8(sum.result)
             status == sum.status
             p == PenaltyOp(c)
             q == PenaltyOp(d)
             ticks == p.ticks + more
  <2>1. q.ticks = p.ticks
    BY <1>3 DEF Agree
  <2>2. /\ Accumulate(c, sum) = [p EXCEPT !.a = a, !.status = status, !.ticks = ticks]
        /\ Accumulate(d, sum) = [q EXCEPT !.a = a, !.status = status, !.ticks = ticks]
    <3> HIDE DEF p, q
    <3>1. /\ Accumulate(c, sum) = [p EXCEPT !.a = a, !.status = status, !.ticks = @ + more]
          /\ Accumulate(d, sum) = [q EXCEPT !.a = a, !.status = status, !.ticks = @ + more]
      BY <1>2 DEF Accumulate, p, q
    <3> HIDE DEF a, status, more
    <3>. QED  BY <1>3, <2>1, <3>1 DEF Agree, Members, p, q
  <2> HIDE DEF p, q, a, status, ticks
  <2>3. Agree(p, q)
    BY <1>3 DEF p, q
  <2>. QED  BY <2>2, <2>3 DEF Agree, Members
<1>8. Agree(adc(c), adc(d)) /\ Agree(sbc(c), sbc(d))
  <2>1. /\ adc(c) = Accumulate(c, AdcResult(c.a, v, c.status))
        /\ sbc(c) = Accumulate(c, SbcResult(c.a, v, c.status))
    BY Zenon DEF adc, sbc, v
  <2>2. /\ adc(d) = Accumulate(d, AdcResult(c.a, v, c.status))
        /\ sbc(d) = Accumulate(d, SbcResult(c.a, v, c.status))
    BY <1>1, <1>2 DEF adc, sbc
  <2>. QED  BY <1>7, <2>1, <2>2
<1>9. Agree(bit(c), bit(d))
  <2> DEFINE status == SetFlag(SetFlag(zerocalc(c.status, And8(c.a, v)), "N", BitSet(v, 128)),
                               "V", BitSet(v, 64))
  <2>1. bit(c) = [c EXCEPT !.status = status]
    BY Zenon DEF bit, v
  <2>2. bit(d) = [d EXCEPT !.status = status]
    BY <1>1, <1>2 DEF bit
  <2> HIDE DEF status
  <2>. QED  BY <1>1, <2>1, <2>2, StatusAgree
<1>10. /\ Agree(sta(c), sta(d)) /\ Agree(stx(c), stx(d)) /\ Agree(sty(c), sty(d))
       /\ Agree(stz(c), stz(d))
  BY <1>2, OperandAgree, Zenon DEF sta, stx, sty, stz
<1>. QED  BY <1>4, <1>6, <1>8, <1>9, <1>10

(* Those that write their operand back, and the branches on one of its bits. *)
LEMMA ModifyAgree ==
    ASSUME NEW c, NEW d, Ready(c, d)
    PROVE  /\ Agree(inc(c), inc(d)) /\ Agree(dec(c), dec(d)) /\ Agree(asl(c), asl(d))
           /\ Agree(rol(c), rol(d)) /\ Agree(lsr(c), lsr(d)) /\ Agree(ror(c), ror(d))
           /\ Agree(tsb(c), tsb(d)) /\ Agree(trb(c), trb(d))
           /\ \A bitmask : /\ Agree(rmb(c, bitmask), rmb(d, bitmask))
                           /\ Agree(smb(c, bitmask), smb(d, bitmask))
           /\ d.reladdr = c.reladdr =>
                \A bitmask : /\ Agree(bbr(c, bitmask), bbr(d, bitmask))
                             /\ Agree(bbs(c, bitmask), bbs(d, bitmask))
<1> DEFINE v == getvalue(c)
<1>1. Agree(c, d) /\ getvalue(d) = v
  BY OperandAgree DEF Ready
<1>2. d.a = c.a /\ d.status = c.status
  BY <1>1 DEF Agree
<1>3. ASSUME NEW status, NEW result
      PROVE  Agree(putvalue([c EXCEPT !.status = status], result),
                   putvalue([d EXCEPT !.status = status], result))
  <2> DEFINE e == [c EXCEPT !.status = status]
             f == [d EXCEPT !.status = status]
  <2>1. Ready(e, f)
    BY <1>1, StatusAgree, Zenon
  <2> HIDE DEF e, f
  <2>2. Agree(putvalue(e, result), putvalue(f, result))
    BY <2>1, OperandAgree, Zenon
  <2>. QED  BY <2>2 DEF e, f
<1>4. ASSUME NEW status, NEW result
      PROVE  Agree(Modify(c, status, result), Modify(d, status, result))
  BY <1>3, Zenon DEF Modify
<1> HIDE DEF v
<1>5. /\ Agree(inc(c), inc(d)) /\ Agree(dec(c), dec(d)) /\ Agree(asl(c), asl(d))
      /\ Agree(rol(c), rol(d)) /\ Agree(lsr(c), lsr(d)) /\ Agree(ror(c), ror(d))
  BY <1>1, <1>2, <1>4, Zenon DEF inc, dec, asl, rol, lsr, ror, v
<1>6. Agree(tsb(c), tsb(d)) /\ Agree(trb(c), trb(d))
  <2> DEFINE status == zerocalc(c.status, And8(c.a, v))
  <2>1. /\ tsb(c) = putvalue([c EXCEPT !.status = status], Or8(v, c.a))
        /\ trb(c) = putvalue([c EXCEPT !.status = status], And8(v, 255 - c.a))
    BY DEF tsb, trb, v
  <2>2. /\ tsb(d) = putvalue([d EXCEPT !.status = status], Or8(v, c.a))
        /\ trb(d) = putvalue([d EXCEPT !.status = status], And8(v, 255 - c.a))
    BY <1>1, <1>2 DEF tsb, trb
  <2>. QED  BY <1>3, <2>1, <2>2
<1>7. ASSUME NEW bitmask
      PROVE  /\ Agree(rmb(c, bitmask), rmb(d, bitmask))
             /\ Agree(smb(c, bitmask), smb(d, bitmask))
  BY <1>1, OperandAgree, Zenon DEF rmb, smb
<1>8. ASSUME d.reladdr = c.reladdr, NEW bitmask
      PROVE  /\ Agree(bbr(c, bitmask), bbr(d, bitmask))
             /\ Agree(bbs(c, bitmask), bbs(d, bitmask))
  <2>1. \A taken \in BOOLEAN : Agree(Branch(c, taken), Branch(d, taken))
    BY <1>1, <1>8, BranchAgree
  <2>2. getvalue(d) = getvalue(c)
    BY <1>1 DEF v
  <2>3. CASE BitSet(getvalue(c), bitmask)
    <3>1. /\ bbr(c, bitmask) = Branch(c, FALSE) /\ bbr(d, bitmask) = Branch(d, FALSE)
          /\ bbs(c, bitmask) = Branch(c, TRUE) /\ bbs(d, bitmask) = Branch(d, TRUE)
      BY <2>2, <2>3, Zenon DEF bbr, bbs, Branch
    <3>. QED  BY <2>1, <3>1
  <2>4. CASE ~BitSet(getvalue(c), bitmask)
    <3>1. /\ bbr(c, bitmask) = Branch(c, TRUE) /\ bbr(d, bitmask) = Branch(d, TRUE)
          /\ bbs(c, bitmask) = Branch(c, FALSE) /\ bbs(d, bitmask) = Branch(d, FALSE)
      BY <2>2, <2>4, Zenon DEF bbr, bbs, Branch
    <3>. QED  BY <2>1, <3>1
  <2>. QED  BY <2>3, <2>4
<1>. QED  BY <1>5, <1>6, <1>7, <1>8

(* The other branches.                                                       *)
LEMMA BranchesAgree ==
    ASSUME NEW c, NEW d, Agree(c, d), d.reladdr = c.reladdr
    PROVE  /\ Agree(bra(c), bra(d)) /\ Agree(bcc(c), bcc(d)) /\ Agree(bcs(c), bcs(d))
           /\ Agree(bne(c), bne(d)) /\ Agree(beq(c), beq(d)) /\ Agree(bpl(c), bpl(d))
           /\ Agree(bmi(c), bmi(d)) /\ Agree(bvc(c), bvc(d)) /\ Agree(bvs(c), bvs(d))
<1>0. d.status = c.status
  BY Zenon DEF Agree
<1>1. Agree(Branch(c, TRUE), Branch(d, TRUE))
  BY BranchAgree, Zenon
<1>2. ASSUME NEW flag
      PROVE  /\ Agree(Branch(c, flag \in c.status), Branch(d, flag \in d.status))
             /\ Agree(Branch(c, flag \notin c.status), Branch(d, flag \notin d.status))
  <2>1. CASE flag \in c.status
    BY <1>0, <1>1, <2>1, Zenon DEF Branch
  <2>2. CASE flag \notin c.status
    BY <1>0, <1>1, <2>2, Zenon DEF Branch
  <2>. QED  BY <2>1, <2>2
<1>. QED  BY <1>1, <1>2, Zenon DEF bra, bcc, bcs, bne, beq, bpl, bmi, bvc, bvs

(* Instructions without an operand.                                          *)
LEMMA ImpliedAgree ==
    ASSUME NEW c, NEW d, Agree(c, d)
    PROVE  /\ Agree(tax(c), tax(d)) /\ Agree(tay(c), tay(d)) /\ Agree(txa(c), txa(d))
           /\ Agree(tya(c), tya(d)) /\ Agree(tsx(c), tsx(d)) /\ Agree(txs(c), txs(d))
           /\ Agree(inx(c), inx(d)) /\ Agree(iny(c), iny(d)) /\ Agree(dex(c), dex(d))
           /\ Agree(dey(c), dey(d))
           /\ Agree(clc(c), clc(d)) /\ Agree(cld(c), cld(d)) /\ Agree(cli(c), cli(d))
           /\ Agree(clv(c), clv(d)) /\ Agree(sec(c), sec(d)) /\ Agree(sed(c), sed(d))
           /\ Agree(sei(c), sei(d)) /\ Agree(nop(c), nop(d))
           /\ Agree(pha(c), pha(d)) /\ Agree(phx(c), phx(d)) /\ Agree(phy(c), phy(d))
           /\ Agree(php(c), php(d))
           /\ Agree(pla(c), pla(d)) /\ Agree(plx(c), plx(d)) /\ Agree(ply(c), ply(d))
           /\ Agree(plp(c), plp(d))
           /\ Agree(stp(c), stp(d)) /\ Agree(wai(c), wai(d))
<1>1. /\ d.a = c.a /\ d.x = c.x /\ d.y = c.y /\ d.sp = c.sp /\ d.status = c.status
      /\ d.waiting = c.waiting
  BY DEF Agree
<1>2. /\ Agree(tax(c), tax(d)) /\ Agree(tay(c), tay(d)) /\ Agree(txa(c), txa(d))
      /\ Agree(tya(c), tya(d)) /\ Agree(tsx(c), tsx(d))
      /\ Agree(inx(c), inx(d)) /\ Agree(iny(c), iny(d)) /\ Agree(dex(c), dex(d))
      /\ Agree(dey(c), dey(d))
  BY <1>1, LoadAgree, Zenon DEF tax, tay, txa, tya, tsx, inx, iny, dex, dey
<1>3. Agree(txs(c), txs(d))
  BY DEF txs, Agree, Members
<1>4. ASSUME NEW flag
      PROVE  /\ Agree([c EXCEPT !.status = @ \ {flag}], [d EXCEPT !.status = @ \ {flag}])
             /\ Agree([c EXCEPT !.status = @ \union {flag}],
                      [d EXCEPT !.status = @ \union {flag}])
  <2> DEFINE without == c.status \ {flag}
             with == c.status \union {flag}
  <2>1. /\ Agree([c EXCEPT !.status = without], [d EXCEPT !.status = without])
        /\ Agree([c EXCEPT !.status = with], [d EXCEPT !.status = with])
    BY StatusAgree, Zenon
  <2>. QED  BY <1>1, <2>1
<1>5. /\ Agree(clc(c), clc(d)) /\ Agree(cld(c), cld(d)) /\ Agree(cli(c), cli(d))
      /\ Agree(clv(c), clv(d)) /\ Agree(sec(c), sec(d)) /\ Agree(sed(c), sed(d))
      /\ Agree(sei(c), sei(d)) /\ Agree(nop(c), nop(d))
  BY <1>4, Zenon DEF clc, cld, cli, clv, sec, sed, sei, nop
<1>6. /\ Agree(pha(c), pha(d)) /\ Agree(phx(c), phx(d)) /\ Agree(phy(c), phy(d))
      /\ Agree(php(c), php(d))
  BY <1>1, StackAgree, Zenon DEF pha, phx, phy, php
<1>7. Agree(Pull(c, 1), Pull(d, 1)) /\ Pulled8(d) = Pulled8(c)
  BY StackAgree, ReadAgree
<1>8. Agree(pla(c), pla(d)) /\ Agree(plx(c), plx(d)) /\ Agree(ply(c), ply(d))
  BY <1>7, LoadAgree, Zenon DEF pla, plx, ply
<1>9. Agree(plp(c), plp(d))
  BY <1>7, StatusAgree, Zenon DEF plp
<1>10. Agree(stp(c), stp(d))
  BY DEF stp, Agree, Members
<1>11. Agree(wai(c), wai(d))
  <2> DEFINE w == c.waiting \/ "I" \notin c.status
  <2>1. wai(c) = [c EXCEPT !.waiting = w]
    BY Zenon DEF wai
  <2>2. wai(d) = [d EXCEPT !.waiting = w]
    BY <1>1 DEF wai
  <2> HIDE DEF w
  <2>. QED  BY <2>1, <2>2 DEF Agree, Members
<1>. QED  BY <1>2, <1>3, <1>5, <1>6, <1>8, <1>9, <1>10, <1>11

(* JMP and JSR, which take ea for their target, and the returns and BRK.     *)
LEMMA JumpsAgree ==
    ASSUME NEW c, NEW d, Agree(c, d)
    PROVE  /\ d.ea = c.ea => Agree(jmp(c), jmp(d)) /\ Agree(jsr(c), jsr(d))
           /\ Agree(rts(c), rts(d)) /\ Agree(rti(c), rti(d)) /\ Agree(brk(c), brk(d))
<1>1. ASSUME NEW e, NEW f, Agree(e, f), NEW pc, NEW status
      PROVE  /\ Agree(GoesTo(e, pc), GoesTo(f, pc))
             /\ Agree(GoesWith(e, status, pc), GoesWith(f, status, pc))
  <2>1. Agree(GoesTo(e, pc), GoesTo(f, pc))
    BY <1>1 DEF Agree, Members, GoesTo
  <2>2. Agree(GoesWith(e, status, pc), GoesWith(f, status, pc))
    BY <1>1 DEF Agree, Members, GoesWith
  <2>. QED  BY <2>1, <2>2
<1>2. d.pc = c.pc /\ d.status = c.status
  BY DEF Agree
<1>3. ASSUME d.ea = c.ea PROVE Agree(jmp(c), jmp(d)) /\ Agree(jsr(c), jsr(d))
  <2>1. /\ jmp(c) = GoesTo(c, c.ea) /\ jmp(d) = GoesTo(d, c.ea)
        /\ jsr(c) = GoesTo(push16(c, U16(c.pc - 1)), c.ea)
        /\ jsr(d) = GoesTo(push16(d, U16(c.pc - 1)), c.ea)
    BY <1>2, <1>3 DEF jmp, jsr, GoesTo
  <2>. QED  BY <1>1, <2>1, StackAgree, Zenon
<1>4. Agree(rts(c), rts(d))
  <2>1. Agree(Pull(c, 2), Pull(d, 2)) /\ Pulled16(d) = Pulled16(c)
    BY StackAgree, ReadAgree
  <2>2. /\ rts(c) = GoesTo(Pull(c, 2), U16(Pulled16(c) + 1))
        /\ rts(d) = GoesTo(Pull(d, 2), U16(Pulled16(c) + 1))
    BY <2>1 DEF rts, GoesTo
  <2>. QED  BY <1>1, <2>1, <2>2, Zenon
<1>5. Agree(rti(c), rti(d))
  <2>1. /\ Agree(Pull(c, 3), Pull(d, 3)) /\ Agree(Pull(c, 1), Pull(d, 1))
        /\ Pulled8(d) = Pulled8(c)
    BY StackAgree, ReadAgree
  <2>2. Pulled16(Pull(d, 1)) = Pulled16(Pull(c, 1))
    BY <2>1, ReadAgree
  <2>3. /\ rti(c) = GoesWith(Pull(c, 3), StatusOf(Pulled8(c)), Pulled16(Pull(c, 1)))
        /\ rti(d) = GoesWith(Pull(d, 3), StatusOf(Pulled8(c)), Pulled16(Pull(c, 1)))
    BY <2>1, <2>2 DEF rti, GoesWith
  <2>. QED  BY <1>1, <2>1, <2>3, Zenon
<1>6. Agree(brk(c), brk(d))
  <2> DEFINE e == push8(push16(c, U16(c.pc + 1)), StatusByte(c.status \union {"B"}))
             f == push8(push16(d, U16(c.pc + 1)), StatusByte(c.status \union {"B"}))
             status == (e.status \union {"I"}) \ {"D"}
             pc == Read16(e, 65534)
  <2>1. Agree(e, f)
    BY StackAgree
  <2>2. f.status = e.status /\ Read16(f, 65534) = pc
    <3>1. f.status = e.status
      BY <2>1, Zenon DEF Agree
    <3> HIDE DEF e, f
    <3>2. \A address : Read16(f, address) = Read16(e, address)
      BY <2>1, ReadAgree
    <3>. QED  BY <3>1, <3>2
  <2>3. brk(c) = GoesWith(e, status, pc)
    BY DEF brk, GoesWith
  <2>4. brk(d) = GoesWith(f, (f.status \union {"I"}) \ {"D"}, Read16(f, 65534))
    BY <1>2 DEF brk, GoesWith
  <2> HIDE DEF e, f, pc
  <2>5. brk(d) = GoesWith(f, status, pc)
    BY <2>2, <2>4
  <2>. QED  BY <1>1, <2>1, <2>3, <2>5, Zenon
<1>. QED  BY <1>3, <1>4, <1>5, <1>6

(* Addressing an operand does the same in both, and sets what it sets.       *)
SameEa(c, d) == Agree(c, d) /\ d.ea = c.ea
SameRel(c, d) == Agree(c, d) /\ d.reladdr = c.reladdr

(* The modes that only skip operand bytes and set a member.                  *)
LEMMA SkipAgree ==
    ASSUME NEW c, NEW d, Agree(c, d), NEW bytes, NEW ea, NEW reladdr
    PROVE  /\ SameEa(SetsEa(c, bytes, ea), SetsEa(d, bytes, ea))
           /\ SameRel(SetsRel(c, bytes, reladdr), SetsRel(d, bytes, reladdr))
           /\ SameEa(SetsBoth(c, bytes, ea, reladdr), SetsBoth(d, bytes, ea, reladdr))
           /\ SameRel(SetsBoth(c, bytes, ea, reladdr), SetsBoth(d, bytes, ea, reladdr))
<1> DEFINE pc == U16(c.pc + bytes)
<1>1. Skip(c, bytes) = [c EXCEPT !.pc = pc] /\ Skip(d, bytes) = [d EXCEPT !.pc = pc]
  BY DEF Skip, Agree
<1> HIDE DEF pc
<1>2. SameEa(SetsEa(c, bytes, ea), SetsEa(d, bytes, ea))
  BY <1>1 DEF SameEa, SetsEa, Agree, Members
<1>3. SameRel(SetsRel(c, bytes, reladdr), SetsRel(d, bytes, reladdr))
  BY <1>1 DEF SameRel, SetsRel, Agree, Members
<1>4. /\ SameEa(SetsBoth(c, bytes, ea, reladdr), SetsBoth(d, bytes, ea, reladdr))
      /\ SameRel(SetsBoth(c, bytes, ea, reladdr), SetsBoth(d, bytes, ea, reladdr))
  BY <1>1 DEF SameEa, SameRel, SetsBoth, Agree, Members
<1>. QED  BY <1>2, <1>3, <1>4

(* The indexed modes, with their penalty.                                    *)
LEMMA IndexedAgree ==
    ASSUME NEW c, NEW d, Agree(c, d), NEW base, NEW index, NEW bytes
    PROVE  SameEa(Indexed(c, base, index, bytes), Indexed(d, base, index, bytes))
<1> DEFINE ea == U16(base + index)
           cross == Hi(base) # Hi(U16(base + index))
           e == SetsEa(c, bytes, ea)
           f == SetsEa(d, bytes, ea)
           penalty == e.penaltyaddr \/ cross
<1>1. SameEa(e, f)
  BY SkipAgree
<1>2. /\ Indexed(c, base, index, bytes) = [e EXCEPT !.penaltyaddr = penalty]
      /\ Indexed(d, base, index, bytes) = [f EXCEPT !.penaltyaddr = f.penaltyaddr \/ cross]
  <2> DEFINE p == Skip(c, bytes)
             q == Skip(d, bytes)
  <2>1. DOMAIN p = Members /\ DOMAIN q = Members
    BY DEF Skip, Agree
  <2> HIDE DEF p, q, ea, cross
  <2>2. /\ [p EXCEPT !.ea = ea, !.penaltyaddr = @ \/ cross]
             = [[p EXCEPT !.ea = ea] EXCEPT
                  !.penaltyaddr = [p EXCEPT !.ea = ea].penaltyaddr \/ cross]
        /\ [q EXCEPT !.ea = ea, !.penaltyaddr = @ \/ cross]
             = [[q EXCEPT !.ea = ea] EXCEPT
                  !.penaltyaddr = [q EXCEPT !.ea = ea].penaltyaddr \/ cross]
    BY <2>1 DEF Members
  <2>. QED  BY <2>2, Zenon DEF Indexed, SetsEa, p, q, ea, cross
<1>3. f.penaltyaddr = e.penaltyaddr
  BY <1>1, Zenon DEF SameEa, Agree
<1> HIDE DEF e, f, penalty
<1>4. Indexed(d, base, index, bytes) = [f EXCEPT !.penaltyaddr = penalty]
  BY <1>2, <1>3, Zenon DEF penalty
<1>5. SameEa([e EXCEPT !.penaltyaddr = penalty], [f EXCEPT !.penaltyaddr = penalty])
  BY <1>1 DEF SameEa, Agree, Members
<1>. QED  BY <1>2, <1>4, <1>5, Zenon

(* Every mode of the table, and what it sets for the instruction.            *)
LEMMA AddressAgree ==
    ASSUME NEW c, NEW d, Agree(c, d), NEW mode \in Modes, mode = m_insn[c.opcode].mode
    PROVE  /\ Agree(Address(c), Address(d))
           /\ mode \in EaModes => SameEa(Address(c), Address(d))
           /\ mode \in {"rel", "zprel"} => SameRel(Address(c), Address(d))
<1> DEFINE operand == read6502(c, c.pc)
           base == Read16(c, c.pc)
<1>1. /\ d.pc = c.pc /\ d.x = c.x /\ d.y = c.y
      /\ d.opcode = c.opcode
  BY DEF Agree
<1>2. /\ \A address : read6502(d, address) = read6502(c, address)
      /\ \A address : Read16(d, address) = Read16(c, address)
      /\ \A address : Read16Page0(d, address) = Read16Page0(c, address)
  BY ReadAgree
<1>3. /\ imm(c) = SetsEa(c, 1, c.pc) /\ imm(d) = SetsEa(d, 1, c.pc)
      /\ abso(c) = SetsEa(c, 2, base) /\ abso(d) = SetsEa(d, 2, base)
      /\ ind(c) = SetsEa(c, 2, Read16(c, base)) /\ ind(d) = SetsEa(d, 2, Read16(c, base))
      /\ ainx(c) = SetsEa(c, 2, Read16(c, U16(base + c.x)))
      /\ ainx(d) = SetsEa(d, 2, Read16(c, U16(base + c.x)))
      /\ zp(c) = SetsEa(c, 1, operand) /\ zp(d) = SetsEa(d, 1, operand)
      /\ zpx(c) = SetsEa(c, 1, U8(operand + c.x)) /\ zpx(d) = SetsEa(d, 1, U8(operand + c.x))
      /\ zpy(c) = SetsEa(c, 1, U8(operand + c.y)) /\ zpy(d) = SetsEa(d, 1, U8(operand + c.y))
      /\ indx(c) = SetsEa(c, 1, Read16(c, U8(operand + c.x)))
      /\ indx(d) = SetsEa(d, 1, Read16(c, U8(operand + c.x)))
      /\ ind0(c) = SetsEa(c, 1, Read16Page0(c, operand))
      /\ ind0(d) = SetsEa(d, 1, Read16Page0(c, operand))
  BY <1>1, <1>2 DEF SetsEa, imm, abso, ind, ainx, zp, zpx, zpy, indx, ind0
<1>4. /\ rel(c) = SetsRel(c, 1, SignExtend(operand))
      /\ rel(d) = SetsRel(d, 1, SignExtend(operand))
      /\ zprel(c) = SetsBoth(c, 2, operand, SignExtend(read6502(c, c.pc + 1)))
      /\ zprel(d) = SetsBoth(d, 2, operand, SignExtend(read6502(c, c.pc + 1)))
  BY <1>1, <1>2 DEF SetsRel, SetsBoth, rel, zprel
<1>5. /\ SameEa(absx(c), absx(d)) /\ SameEa(absy(c), absy(d)) /\ SameEa(indy(c), indy(d))
  <2>1. /\ absx(d) = Indexed(d, base, c.x, 2) /\ absy(d) = Indexed(d, base, c.y, 2)
        /\ indy(d) = Indexed(d, Read16Page0(c, operand), c.y, 1)
    BY <1>1, <1>2 DEF absx, absy, indy
  <2>. QED  BY <2>1, IndexedAgree, Zenon DEF absx, absy, indy
<1> HIDE DEF operand, base
<1>6. /\ SameEa(imm(c), imm(d)) /\ SameEa(abso(c), abso(d)) /\ SameEa(ind(c), ind(d))
      /\ SameEa(ainx(c), ainx(d)) /\ SameEa(zp(c), zp(d)) /\ SameEa(zpx(c), zpx(d))
      /\ SameEa(zpy(c), zpy(d)) /\ SameEa(indx(c), indx(d)) /\ SameEa(ind0(c), ind0(d))
  BY <1>3, SkipAgree, Zenon
<1>7. SameRel(rel(c), rel(d)) /\ SameEa(zprel(c), zprel(d)) /\ SameRel(zprel(c), zprel(d))
  BY <1>4, SkipAgree, Zenon
<1> DEFINE e == Address(c)
           f == Address(d)
<1>8. CASE mode \in {"acc", "imp"}
  <2>1. e = c /\ f = d
    BY <1>1, <1>8, ZenonT(60) DEF Address, acc, imp
  <2>. QED  BY <1>8, <2>1 DEF EaModes
<1>9. CASE mode = "rel"
  <2>1. e = rel(c) /\ f = rel(d)
    BY <1>1, <1>9, ZenonT(60) DEF Address
  <2>. QED  BY <1>7, <1>9, <2>1 DEF EaModes, SameRel
<1>10. CASE mode = "zprel"
  <2>1. e = zprel(c) /\ f = zprel(d)
    BY <1>1, <1>10, ZenonT(60) DEF Address
  <2>. QED  BY <1>7, <1>10, <2>1 DEF EaModes, SameRel
<1>11. CASE mode \in {"imm", "abso", "absx", "absy", "ind", "ainx", "zp", "zpx", "zpy",
                      "indx", "ind0", "indy"}
  <2>1. ASSUME NEW g, m_insn[g.opcode].mode = mode
        PROVE
          /\ mode = "imm" => Address(g) = imm(g)
          /\ mode = "abso" => Address(g) = abso(g)
          /\ mode = "absx" => Address(g) = absx(g)
          /\ mode = "absy" => Address(g) = absy(g)
          /\ mode = "ind" => Address(g) = ind(g)
          /\ mode = "ainx" => Address(g) = ainx(g)
          /\ mode = "zp" => Address(g) = zp(g)
          /\ mode = "zpx" => Address(g) = zpx(g)
          /\ mode = "zpy" => Address(g) = zpy(g)
          /\ mode = "indx" => Address(g) = indx(g)
          /\ mode = "ind0" => Address(g) = ind0(g)
          /\ mode = "indy" => Address(g) = indy(g)
    BY <2>1, ZenonT(60) DEF Address
  <2>2. /\ mode = "imm" => SameEa(e, f)
        /\ mode = "abso" => SameEa(e, f)
        /\ mode = "absx" => SameEa(e, f)
        /\ mode = "absy" => SameEa(e, f)
        /\ mode = "ind" => SameEa(e, f)
        /\ mode = "ainx" => SameEa(e, f)
        /\ mode = "zp" => SameEa(e, f)
        /\ mode = "zpx" => SameEa(e, f)
        /\ mode = "zpy" => SameEa(e, f)
        /\ mode = "indx" => SameEa(e, f)
        /\ mode = "ind0" => SameEa(e, f)
        /\ mode = "indy" => SameEa(e, f)
    <3>1. m_insn[c.opcode].mode = mode /\ m_insn[d.opcode].mode = mode
      BY <1>1
    <3>2.
          /\ mode = "imm" => Address(c) = imm(c)
          /\ mode = "abso" => Address(c) = abso(c)
          /\ mode = "absx" => Address(c) = absx(c)
          /\ mode = "absy" => Address(c) = absy(c)
          /\ mode = "ind" => Address(c) = ind(c)
          /\ mode = "ainx" => Address(c) = ainx(c)
          /\ mode = "zp" => Address(c) = zp(c)
          /\ mode = "zpx" => Address(c) = zpx(c)
          /\ mode = "zpy" => Address(c) = zpy(c)
          /\ mode = "indx" => Address(c) = indx(c)
          /\ mode = "ind0" => Address(c) = ind0(c)
          /\ mode = "indy" => Address(c) = indy(c)
      BY <2>1, <3>1, Zenon
    <3>3.
          /\ mode = "imm" => Address(d) = imm(d)
          /\ mode = "abso" => Address(d) = abso(d)
          /\ mode = "absx" => Address(d) = absx(d)
          /\ mode = "absy" => Address(d) = absy(d)
          /\ mode = "ind" => Address(d) = ind(d)
          /\ mode = "ainx" => Address(d) = ainx(d)
          /\ mode = "zp" => Address(d) = zp(d)
          /\ mode = "zpx" => Address(d) = zpx(d)
          /\ mode = "zpy" => Address(d) = zpy(d)
          /\ mode = "indx" => Address(d) = indx(d)
          /\ mode = "ind0" => Address(d) = ind0(d)
          /\ mode = "indy" => Address(d) = indy(d)
      BY <2>1, <3>1, Zenon
    <3>. QED  BY <1>5, <1>6, <3>2, <3>3, Zenon
  <2>3. mode \notin {"rel", "zprel"}
    BY <1>11
  <2>4. SameEa(e, f)
    BY <1>11, <2>2
  <2>. QED  BY <2>3, <2>4, Zenon DEF SameEa
<1>. QED  BY <1>8, <1>9, <1>10, <1>11 DEF Modes

(* Every instruction reads of ea and reladdr only what its mode has set.     *)
LEMMA ExecuteAgree ==
    ASSUME NEW c, NEW d, Agree(c, d), NEW insn \in Insns, insn = m_insn[c.opcode].insn,
           insn \in Operate \union Bbrs \union Bbss => Ready(c, d),
           insn \in {"jmp", "jsr"} => d.ea = c.ea,
           insn \in Relative => d.reladdr = c.reladdr
    PROVE  Agree(Execute(c), Execute(d))
<1> DEFINE e == Execute(c)
           f == Execute(d)
<1>0. insn = m_insn[d.opcode].insn
  BY DEF Agree
<1>1. ASSUME insn \in LoadOps \union Adds \union Compares \union Stores PROVE Agree(e, f)
  <2>1. Ready(c, d)
    BY <1>1 DEF Operate
  <2>2. /\ insn = "lda" => e = lda(c) /\ f = lda(d)
        /\ insn = "ldx" => e = ldx(c) /\ f = ldx(d)
        /\ insn = "ldy" => e = ldy(c) /\ f = ldy(d)
        /\ insn = "And" => e = And(c) /\ f = And(d)
        /\ insn = "ora" => e = ora(c) /\ f = ora(d)
        /\ insn = "eor" => e = eor(c) /\ f = eor(d)
        /\ insn = "cmp" => e = cmp(c) /\ f = cmp(d)
        /\ insn = "cpx" => e = cpx(c) /\ f = cpx(d)
        /\ insn = "cpy" => e = cpy(c) /\ f = cpy(d)
        /\ insn = "adc" => e = adc(c) /\ f = adc(d)
        /\ insn = "sbc" => e = sbc(c) /\ f = sbc(d)
        /\ insn = "bit" => e = bit(c) /\ f = bit(d)
        /\ insn = "sta" => e = sta(c) /\ f = sta(d)
        /\ insn = "stx" => e = stx(c) /\ f = stx(d)
        /\ insn = "sty" => e = sty(c) /\ f = sty(d)
        /\ insn = "stz" => e = stz(c) /\ f = stz(d)
    BY <1>0, <1>1, ZenonT(90) DEF Execute, LoadOps, Adds, Compares, Stores
  <2> HIDE DEF e, f
  <2>. QED  BY <1>1, <2>1, <2>2, OperateAgree DEF LoadOps, Adds, Compares, Stores
<1>2. ASSUME insn \in Modifies PROVE Agree(e, f)
  <2>1. Ready(c, d)
    BY <1>2 DEF Operate
  <2>2. /\ insn = "inc" => e = inc(c) /\ f = inc(d)
        /\ insn = "dec" => e = dec(c) /\ f = dec(d)
        /\ insn = "asl" => e = asl(c) /\ f = asl(d)
        /\ insn = "rol" => e = rol(c) /\ f = rol(d)
        /\ insn = "lsr" => e = lsr(c) /\ f = lsr(d)
        /\ insn = "ror" => e = ror(c) /\ f = ror(d)
        /\ insn = "tsb" => e = tsb(c) /\ f = tsb(d)
        /\ insn = "trb" => e = trb(c) /\ f = trb(d)
    BY <1>0, <1>2, ZenonT(90) DEF Execute, Modifies
  <2> HIDE DEF e, f
  <2>. QED  BY <1>2, <2>1, <2>2, ModifyAgree DEF Modifies
<1>3. ASSUME insn \in Rmbs \union Smbs \union Bbrs \union Bbss PROVE Agree(e, f)
  <2> DEFINE bitmask == BitMask[insn]
  <2>1. Ready(c, d) /\ (insn \in Bbrs \union Bbss => d.reladdr = c.reladdr)
    BY <1>3 DEF Operate, Relative
  <2>2. /\ insn \in Rmbs => e = rmb(c, bitmask) /\ f = rmb(d, bitmask)
        /\ insn \in Smbs => e = smb(c, bitmask) /\ f = smb(d, bitmask)
        /\ insn \in Bbrs => e = bbr(c, bitmask) /\ f = bbr(d, bitmask)
        /\ insn \in Bbss => e = bbs(c, bitmask) /\ f = bbs(d, bitmask)
    BY <1>0, <1>3, ZenonT(90) DEF Execute, Rmbs, Smbs, Bbrs, Bbss
  <2> HIDE DEF e, f, bitmask
  <2>. QED  BY <1>3, <2>1, <2>2, ModifyAgree
<1>4. ASSUME insn \in Branches PROVE Agree(e, f)
  <2>1. d.reladdr = c.reladdr
    BY <1>4 DEF Relative
  <2>2. /\ insn = "bra" => e = bra(c) /\ f = bra(d)
        /\ insn = "bcc" => e = bcc(c) /\ f = bcc(d)
        /\ insn = "bcs" => e = bcs(c) /\ f = bcs(d)
        /\ insn = "bne" => e = bne(c) /\ f = bne(d)
        /\ insn = "beq" => e = beq(c) /\ f = beq(d)
        /\ insn = "bpl" => e = bpl(c) /\ f = bpl(d)
        /\ insn = "bmi" => e = bmi(c) /\ f = bmi(d)
        /\ insn = "bvc" => e = bvc(c) /\ f = bvc(d)
        /\ insn = "bvs" => e = bvs(c) /\ f = bvs(d)
    BY <1>0, <1>4, ZenonT(90) DEF Execute, Branches
  <2> HIDE DEF e, f
  <2>. QED  BY <1>4, <2>1, <2>2, BranchesAgree DEF Branches
<1>5. ASSUME insn \in Transfers \union Marks PROVE Agree(e, f)
  <2>1. /\ insn = "tax" => e = tax(c) /\ f = tax(d)
        /\ insn = "tay" => e = tay(c) /\ f = tay(d)
        /\ insn = "txa" => e = txa(c) /\ f = txa(d)
        /\ insn = "tya" => e = tya(c) /\ f = tya(d)
        /\ insn = "tsx" => e = tsx(c) /\ f = tsx(d)
        /\ insn = "txs" => e = txs(c) /\ f = txs(d)
        /\ insn = "inx" => e = inx(c) /\ f = inx(d)
        /\ insn = "iny" => e = iny(c) /\ f = iny(d)
        /\ insn = "dex" => e = dex(c) /\ f = dex(d)
        /\ insn = "dey" => e = dey(c) /\ f = dey(d)
        /\ insn = "clc" => e = clc(c) /\ f = clc(d)
        /\ insn = "cld" => e = cld(c) /\ f = cld(d)
        /\ insn = "cli" => e = cli(c) /\ f = cli(d)
        /\ insn = "clv" => e = clv(c) /\ f = clv(d)
        /\ insn = "sec" => e = sec(c) /\ f = sec(d)
        /\ insn = "sed" => e = sed(c) /\ f = sed(d)
        /\ insn = "sei" => e = sei(c) /\ f = sei(d)
        /\ insn = "nop" => e = nop(c) /\ f = nop(d)
    BY <1>0, <1>5, ZenonT(90) DEF Execute, Transfers, Marks
  <2> HIDE DEF e, f
  <2>. QED  BY <1>5, <2>1, ImpliedAgree DEF Transfers, Marks
<1>6. ASSUME insn \in Pushes \union Pulls \union Halts PROVE Agree(e, f)
  <2>1. /\ insn = "pha" => e = pha(c) /\ f = pha(d)
        /\ insn = "phx" => e = phx(c) /\ f = phx(d)
        /\ insn = "phy" => e = phy(c) /\ f = phy(d)
        /\ insn = "php" => e = php(c) /\ f = php(d)
        /\ insn = "pla" => e = pla(c) /\ f = pla(d)
        /\ insn = "plx" => e = plx(c) /\ f = plx(d)
        /\ insn = "ply" => e = ply(c) /\ f = ply(d)
        /\ insn = "plp" => e = plp(c) /\ f = plp(d)
        /\ insn = "stp" => e = stp(c) /\ f = stp(d)
        /\ insn = "wai" => e = wai(c) /\ f = wai(d)
    BY <1>0, <1>6, ZenonT(90) DEF Execute, Pushes, Pulls, Halts
  <2> HIDE DEF e, f
  <2>. QED  BY <1>6, <2>1, ImpliedAgree DEF Pushes, Pulls, Halts
<1>7. ASSUME insn \in Jumps PROVE Agree(e, f)
  <2>1. /\ insn = "jmp" => e = jmp(c) /\ f = jmp(d)
        /\ insn = "jsr" => e = jsr(c) /\ f = jsr(d)
        /\ insn = "rts" => e = rts(c) /\ f = rts(d)
        /\ insn = "rti" => e = rti(c) /\ f = rti(d)
        /\ insn = "brk" => e = brk(c) /\ f = brk(d)
    BY <1>0, <1>7, ZenonT(90) DEF Execute, Jumps
  <2> HIDE DEF e, f
  <2>. QED  BY <1>7, <2>1, JumpsAgree DEF Jumps
<1> HIDE DEF e, f
<1>8. Agree(e, f)
  BY <1>1, <1>2, <1>3, <1>4, <1>5, <1>6, <1>7 DEF Insns, Operate, Relative, Implied
<1>. QED  BY <1>8 DEF e, f

(* Two CPUs that agree on all but the members that Scratch() sets.           *)
Alike(c, d) ==
    /\ d.hasMem = c.hasMem /\ d.mem = c.mem
    /\ d.pc = c.pc /\ d.sp = c.sp /\ d.a = c.a /\ d.x = c.x /\ d.y = c.y
    /\ d.status = c.status
    /\ d.waiting = c.waiting /\ d.stopped = c.stopped
    /\ d.ticks = c.ticks

(* They are equal once those members are put aside.                          *)
LEMMA SettledAlike ==
    ASSUME NEW Contents, NEW c \in Cpus(Contents), NEW d \in Cpus(Contents), Alike(c, d)
    PROVE  Settled(c) = Settled(d)
<1> DEFINE s == Settled(c)
           t == Settled(d)
<1>1. DOMAIN c = Members /\ DOMAIN d = Members
  BY DEF Cpus, Members
<1>2. /\ s = [c EXCEPT !.ea = 0, !.reladdr = 0, !.opcode = 0,
                     !.penaltyop = FALSE, !.penaltyaddr = FALSE]
      /\ t = [d EXCEPT !.ea = 0, !.reladdr = 0, !.opcode = 0,
                     !.penaltyop = FALSE, !.penaltyaddr = FALSE]
  BY Zenon DEF Settled, Scratch
<1>3. s = [m \in Members |-> s[m]] /\ t = [m \in Members |-> t[m]]
  BY <1>1, <1>2
<1>4. /\ s.ea = t.ea /\ s.reladdr = t.reladdr /\ s.opcode = t.opcode
      /\ s.mem = t.mem /\ s.pc = t.pc /\ s.sp = t.sp
      /\ s.a = t.a /\ s.x = t.x /\ s.y = t.y /\ s.status = t.status /\ s.ticks = t.ticks
  BY <1>1, <1>2 DEF Alike, Members
<1>5. s.hasMem = t.hasMem /\ s.waiting = t.waiting /\ s.stopped = t.stopped
  BY <1>1, <1>2 DEF Alike, Members
<1>6. s.penaltyop = t.penaltyop /\ s.penaltyaddr = t.penaltyaddr
  BY <1>1, <1>2 DEF Members
<1> HIDE DEF s, t
<1>7. \A m \in Members : s[m] = t[m]
  BY <1>4, <1>5, <1>6 DEF Members
<1>8. s = t
  BY <1>3, <1>7
<1>. QED  BY <1>8 DEF s, t

(* Scratch() makes such a CPU.                                               *)
LEMMA ScratchAlike ==
    ASSUME NEW Contents, NEW c \in Cpus(Contents), NEW ea \in Word, NEW reladdr \in Word,
           NEW opcode \in Byte, NEW penalty \in BOOLEAN
    PROVE  LET d == Scratch(c, ea, reladdr, opcode, penalty)
           IN  d \in Cpus(Contents) /\ Alike(c, d)
<1> DEFINE g == [c EXCEPT !.ea = ea, !.reladdr = reladdr, !.opcode = opcode]
           d == Scratch(c, ea, reladdr, opcode, penalty)
<1>1. g \in Cpus(Contents) /\ Alike(c, g)
  BY DEF Cpus, Alike
<1>2. d = [g EXCEPT !.penaltyop = penalty, !.penaltyaddr = penalty]
  BY DEF Scratch, Cpus
<1> HIDE DEF g, d
<1>3. d \in Cpus(Contents) /\ Alike(c, d)
  BY <1>1, <1>2 DEF Cpus, Alike
<1>. QED  BY <1>3 DEF d

(* Fetching overwrites opcode and penalties, so that only ea and reladdr still differ.*)
LEMMA FetchAgree ==
    ASSUME NEW Contents, HoldsBytes(Contents), NEW c \in Cpus(Contents),
           NEW d \in Cpus(Contents), Alike(c, d)
    PROVE  /\ Agree(Fetch(c), Fetch(d))
           /\ FetchedInsn(d) = FetchedInsn(c)
<1>1. /\ Fetch(c) \in Cpus(Contents) /\ Fetch(d) \in Cpus(Contents)
  BY FetchType
<1>2. d.hasMem = c.hasMem /\ d.mem = c.mem /\ d.pc = c.pc
  BY Zenon DEF Alike
<1>3. read6502(d, d.pc) = read6502(c, c.pc)
  BY <1>2, Zenon DEF read6502
<1> DEFINE pc == U16(c.pc + 1)
           opcode == read6502(c, c.pc)
           status == c.status \union {"One"}
<1>4. /\ Fetch(c) = [c EXCEPT !.pc = pc, !.opcode = opcode, !.status = status,
                              !.penaltyop = FALSE, !.penaltyaddr = FALSE, !.ticks = 0]
      /\ Fetch(d) = [d EXCEPT !.pc = pc, !.opcode = opcode, !.status = status,
                              !.penaltyop = FALSE, !.penaltyaddr = FALSE, !.ticks = 0]
  BY <1>3 DEF Fetch, Skip, Cpus, Alike
<1> HIDE DEF pc, opcode, status
<1>5. Agree(Fetch(c), Fetch(d))
  BY <1>4 DEF Agree, Alike, Members, Cpus
<1>. QED  BY <1>3, <1>5, Zenon DEF FetchedInsn

(* A whole instruction: addressing overwrites what the instruction then reads.*)
LEMMA StepAlike ==
    ASSUME NEW Contents, HoldsBytes(Contents), NEW c \in Cpus(Contents),
           NEW d \in Cpus(Contents), Alike(c, d)
    PROVE  Alike(stepInstruction(c), stepInstruction(d))
<1> DEFINE insn == FetchedInsn(c)
           s == stepInstruction(c)
           t == stepInstruction(d)
           e == Fetch(c)
           f == Fetch(d)
<1>1. Agree(e, f) /\ FetchedInsn(d) = insn
  BY FetchAgree
<1>2. d.stopped = c.stopped /\ d.pc = c.pc
  BY Zenon DEF Alike
<1>3. ASSUME c.stopped PROVE Alike(s, t)
  <2>1. s = c /\ t = d
    BY <1>2, <1>3, Zenon DEF stepInstruction
  <2>. QED  BY <2>1
<1>4. ASSUME ~c.stopped, insn = "ill" PROVE Alike(s, t)
  <2> DEFINE pc == c.pc
  <2>1. s = [e EXCEPT !.pc = pc, !.stopped = TRUE] /\ t = [f EXCEPT !.pc = pc, !.stopped = TRUE]
    BY <1>1, <1>2, <1>4, Zenon DEF stepInstruction
  <2> HIDE DEF s, t, e, f, pc
  <2>. QED  BY <1>1, <2>1 DEF Alike, Agree, Members
<1>5. ASSUME ~c.stopped, insn # "ill" PROVE Alike(s, t)
  <2> DEFINE a == Address(e)
             b == Address(f)
             x == Execute(a)
             y == Execute(b)
             mode == m_insn[e.opcode].mode
  <2>1. s = Charged(x) /\ t = Charged(y)
    BY <1>1, <1>2, <1>5, Zenon DEF stepInstruction
  <2>2. e.opcode \in Byte /\ m_insn[e.opcode].insn = insn /\ e \in Cpus(Contents)
    <3>1. e \in Cpus(Contents) /\ m_insn[e.opcode].insn = insn
      BY FetchType
    <3> HIDE DEF e
    <3>. QED  BY <3>1 DEF Cpus
  <2>3. EntryOK(insn, mode, m_insn[e.opcode].ticks)
    BY <2>2, Table
  <2> HIDE DEF s, t, e, f, insn
  <2>4. insn \in Insns /\ mode \in Modes
    BY <1>5, <2>3, Zenon DEF EntryOK
  <2>5. /\ Agree(a, b)
        /\ mode \in EaModes => b.ea = a.ea
        /\ mode \in {"rel", "zprel"} => b.reladdr = a.reladdr
    BY <1>1, <2>4, AddressAgree DEF SameEa, SameRel
  <2>6. a.opcode = e.opcode
    BY <2>2, AddressType DEF Addressed, Quiet, Kept, Cpus
  <2> HIDE DEF a, b
  <2>7. UsesAccumulator(a) = (mode = "acc")
    BY <2>6, Zenon DEF UsesAccumulator
  <2>8. insn = m_insn[a.opcode].insn
    BY <2>2, <2>6
  <2> HIDE DEF mode
  <2>9. insn \in Operate \union Bbrs \union Bbss => Ready(a, b)
    <3>1. insn \in Operate \union Bbrs \union Bbss => mode = "acc" \/ mode \in EaModes
      BY <2>3 DEF EntryOK, EaModes, Modes
    <3>. QED  BY <2>5, <2>7, <3>1, Zenon DEF Ready
  <2>10. /\ insn \in {"jmp", "jsr"} => b.ea = a.ea
         /\ insn \in Relative => b.reladdr = a.reladdr
    BY <2>3, <2>5 DEF EntryOK, Relative
  <2>11. Agree(x, y)
    BY <2>4, <2>5, <2>8, <2>9, <2>10, ExecuteAgree
  <2> HIDE DEF x, y
  <2>12. Alike(Charged(x), Charged(y))
    <3> DEFINE ticks == x.ticks + m_insn[x.opcode].ticks
                          + IF x.penaltyop /\ x.penaltyaddr THEN 1 ELSE 0
    <3>1. Charged(x) = [x EXCEPT !.ticks = ticks] /\ Charged(y) = [y EXCEPT !.ticks = ticks]
      <4>1. /\ y.ticks = x.ticks /\ y.opcode = x.opcode
            /\ y.penaltyop = x.penaltyop /\ y.penaltyaddr = x.penaltyaddr
        BY <2>11, Zenon DEF Agree
      <4>. QED  BY <4>1, Zenon DEF Charged
    <3> HIDE DEF ticks
    <3>. QED  BY <2>11, <3>1 DEF Alike, Agree, Members
  <2>. QED  BY <2>1, <2>12, Zenon
<1> HIDE DEF s, t
<1>6. Alike(s, t)
  BY <1>3, <1>4, <1>5
<1>. QED  BY <1>6 DEF s, t
=============================================================================
