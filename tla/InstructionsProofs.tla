------------------------- MODULE InstructionsProofs -------------------------
(* What runs check of the instructions from a few thousand CPU states, proved *)
(* for all of them, for any memory behind the controller.                    *)
EXTENDS Instructions, CpuProofs

(* The CPU states are legal ones, with contents that the controller may hold. *)
Legal(Contents) == HoldsBytes(Contents) /\ Starts \union PairStarts \subseteq Cpus(Contents)

CpuInv(Contents) == c \in Cpus(Contents)

(* They stay legal.                                                          *)
LEMMA LegalInv ==
    ASSUME NEW Contents, Legal(Contents)
    PROVE  Spec => []CpuInv(Contents)
<1>1. Init => CpuInv(Contents)
  BY DEF Init, Legal, CpuInv
<1>2. CpuInv(Contents) /\ [Next]_vars => CpuInv(Contents)'
  <2> SUFFICES ASSUME c \in Cpus(Contents), [Next]_vars PROVE c' \in Cpus(Contents)
    BY DEF CpuInv
  <2>1. c' = stepInstruction(c) \/ c' = c
    BY DEF Next, Step, vars
  <2>2. stepInstruction(c) \in Cpus(Contents)
    BY StepType DEF Legal
  <2>. QED  BY <2>1, <2>2
<1>. QED  BY <1>1, <1>2, PTL DEF Spec

(* Every opcode, from every legal state, leaves registers and operands in    *)
(* their width and bytes in memory.                                          *)
THEOREM RegistersTyped ==
    ASSUME NEW Contents, Legal(Contents)
    PROVE  Spec => []TypeOK
<1>1. c \in Cpus(Contents) => TypeOK
  BY WatchedAssumption DEF Legal, HoldsBytes, TypeOK, Cpus
<1>. QED  BY <1>1, LegalInv, PTL DEF CpuInv

(* And takes 2 to 7 ticks, but for STP, WAI, and what does not run.          *)
THEOREM CostsHold ==
    ASSUME NEW Contents, Legal(Contents)
    PROVE  Spec => []CostBounded
<1>1. c \in Cpus(Contents) => CostBounded
  <2> SUFFICES ASSUME c \in Cpus(Contents) PROVE CostBounded
    OBVIOUS
  <2> DEFINE z == [c EXCEPT !.ticks = 0]
             d == stepInstruction(z)
  <2>1. z \in Cpus(Contents) /\ z.ticks = 0
    BY DEF Cpus
  <2>2. RunsValid(z) = RunsValid(c) /\ FetchedInsn(z) = FetchedInsn(c)
    <3>1. z.stopped = c.stopped
      BY DEF Cpus
    <3>2. z.hasMem = c.hasMem /\ z.mem = c.mem /\ z.pc = c.pc
      BY DEF Cpus
    <3> HIDE DEF z
    <3>3. FetchedInsn(z) = FetchedInsn(c)
      BY <3>2, Zenon DEF FetchedInsn, read6502
    <3>. QED  BY <3>1, <3>3, Zenon DEF RunsValid
  <2> HIDE DEF z
  <2>3. /\ z.stopped => d = z
        /\ ~z.stopped /\ ~RunsValid(z) => d.ticks = 0
        /\ RunsValid(z) => FetchedInsn(z) \in Insns /\ StepEffect(FetchedInsn(z), z, d)
    BY <2>1, StepType DEF Legal
  <2> HIDE DEF d
  <2>4. ~RunsValid(c) => d.ticks = 0
    BY <2>1, <2>2, <2>3
  <2>5. RunsValid(c) => d.ticks \in Cost(FetchedInsn(c))
    BY <2>2, <2>3 DEF StepEffect
  <2>6. d.ticks = stepInstruction([c EXCEPT !.ticks = 0]).ticks
    BY DEF d, z
  <2>. QED  BY <2>4, <2>5, <2>6 DEF CostBounded, Cost
<1>. QED  BY <1>1, LegalInv, PTL DEF CpuInv

(* Pointers of (zp) and (zp),Y wrap within page zero.                        *)
THEOREM PointersWrap ==
    ASSUME NEW Contents, Legal(Contents)
    PROVE  Spec => []PointersInPageZero
<1>1. c \in Cpus(Contents) => PointersInPageZero
  <2> DEFINE f == Fetch(c)
             mode == m_insn[read6502(c, c.pc)].mode
             low == read6502(c, c.pc + 1)
             high == IF low = 255 THEN 0 ELSE low + 1
             base == read6502(c, low) + 256 * read6502(c, high)
             index == IF mode = "indy" THEN c.y ELSE 0
  <2> SUFFICES ASSUME c \in Cpus(Contents), mode \in {"ind0", "indy"}
               PROVE  Address(f).ea = (base + index) % 65536
    BY DEF PointersInPageZero
  <2>1. /\ f \in Cpus(Contents)
        /\ f.opcode = read6502(c, c.pc)
    BY FetchType DEF Legal
  <2>2. f.hasMem = c.hasMem /\ f.mem = c.mem /\ f.pc = U16(c.pc + 1) /\ f.y = c.y
    BY DEF Fetch, Skip, Cpus
  <2>3. c.pc \in Int /\ c.y \in Byte
    BY WordRange DEF Cpus
  <2>4. \A address : read6502(f, address) = read6502(c, address)
    BY <2>2, Zenon DEF read6502
  <2> HIDE DEF f
  <2>5. read6502(f, f.pc) = low
    <3>1. PICK next \in Word : next = U16(c.pc + 1)
      BY <2>3, U16Type
    <3>2. U16(next) = next
      BY WordRange, U16Type
    <3>. QED  BY <2>2, <3>1, <3>2, Zenon DEF read6502
  <2>6. low \in Byte
    BY <2>3, ReadType DEF Legal
  <2>7. high = U8(low + 1) /\ high \in Int /\ low \in Int
    BY <2>6, ByteRange, SMT DEF U8
  <2>8. Read16Page0(f, low) = base
    <3> HIDE DEF low, high
    <3>. QED  BY <2>4, <2>7 DEF Read16Page0, Word16
  <2>9. base \in Word
    BY <2>1, <2>7, <2>8, Read16Type DEF Legal
  <2> HIDE DEF base, low
  <2>10. CASE mode = "ind0"
    <3>1. Address(f) = ind0(f)
      BY <2>1, <2>10, ZenonT(60) DEF Address
    <3>2. ind0(f).ea = Read16Page0(f, low)
      BY <2>1, <2>5 DEF ind0, Skip, Cpus
    <3>3. index = 0
      BY <2>10
    <3> HIDE DEF index
    <3>4. (base + index) % 65536 = base
      BY <2>9, <3>3, WordRange, SMT
    <3>. QED  BY <2>8, <3>1, <3>2, <3>4
  <2>11. CASE mode = "indy"
    <3>1. Address(f) = indy(f)
      BY <2>1, <2>11, ZenonT(60) DEF Address
    <3>2. indy(f).ea = U16(Read16Page0(f, low) + f.y)
      BY <2>1, <2>5 DEF indy, Indexed, Skip, Cpus
    <3>3. index = f.y
      BY <2>2, <2>11
    <3> HIDE DEF index
    <3>. QED  BY <2>8, <3>1, <3>2, <3>3 DEF U16
  <2>. QED  BY <2>10, <2>11
<1>. QED  BY <1>1, LegalInv, PTL DEF CpuInv

(* What one instruction leaves in ea, reladdr, opcode and the penalties has   *)
(* no effect on the next, whatever the opcode and its mode.                  *)
THEOREM ScratchIsForgotten ==
    ASSUME NEW Contents, Legal(Contents)
    PROVE  Spec => []ScratchIsDead
<1>1. c \in Cpus(Contents) => ScratchIsDead
  <2> SUFFICES ASSUME c \in Cpus(Contents) PROVE ScratchIsDead
    OBVIOUS
  <2>1. 0 \in Word /\ 511 \in Word /\ 165 \in Byte
    BY WordRange, ByteRange, SMT
  <2>2. ASSUME NEW penalty \in BOOLEAN, NEW left \in {0, 511}
        PROVE  Settled(stepInstruction(Scratch(c, left, left, 165, penalty)))
                 = Settled(stepInstruction(c))
    <3> DEFINE opcode == 165
               d == Scratch(c, left, left, opcode, penalty)
               s == stepInstruction(c)
               t == stepInstruction(d)
    <3>1. left \in Word /\ opcode \in Byte
      BY <2>1, <2>2
    <3> HIDE DEF opcode
    <3>2. d \in Cpus(Contents) /\ Alike(c, d)
      BY <3>1, ScratchAlike
    <3> HIDE DEF d
    <3>3. Alike(s, t)
      BY <3>2, StepAlike DEF Legal
    <3>4. s \in Cpus(Contents) /\ t \in Cpus(Contents)
      BY <3>2, StepType DEF Legal
    <3> HIDE DEF s, t
    <3>5. Settled(s) = Settled(t)
      BY <3>3, <3>4, SettledAlike
    <3>. QED  BY <3>5 DEF s, t, d, opcode
  <2>. QED  BY <2>2 DEF ScratchIsDead
<1>. QED  BY <1>1, LegalInv, PTL DEF CpuInv

-----------------------------------------------------------------------------
(* Pairs of instructions that undo each other. *)

(* What a pair may leave different is on the stack page.                     *)
OffStack == Word \ (256..511)

(* A byte stored on the stack changes nothing off it.                        *)
LEMMA StackedOffStack ==
    ASSUME NEW Contents, LowRam(Contents), NEW mem \in Contents, NEW sp \in Byte,
           NEW value \in Byte
    PROVE  \A address \in OffStack :
             ReadMem(WriteMem(mem, Stack(sp), value), address) = ReadMem(mem, address)
<1>1. sp \in Nat /\ sp < 256
  BY ByteRange
<1>2. Stack(sp) \in LowPages /\ Stack(sp) \in 256..511
  BY <1>1, SMT DEF Stack, LowPages
<1> DEFINE at == Stack(sp)
<1> HIDE DEF at
<1>3. \A address \in OffStack : address # at /\ address \in Word
  BY <1>2, Zenon DEF OffStack, at
<1>. QED  BY <1>2, <1>3 DEF LowRam, at

(* Flags that are not the result of an operation on data.                    *)
SameControl(status, other) ==
    status \ {"N", "Z", "B", "One"} = other \ {"N", "Z", "B", "One"}

(* The second instruction of a pair runs.                                    *)
LEMMA PairRuns ==
    ASSUME NEW Contents, HoldsBytes(Contents), NEW s \in Cpus(Contents), AtPair(s)
    PROVE  LET d == stepInstruction(s)
           IN  /\ s.hasMem = TRUE /\ RunsValid(s)
               /\ d \in Cpus(Contents) /\ d.hasMem = TRUE /\ RunsValid(d)
<1> DEFINE d == stepInstruction(s)
           i == FetchedInsn(s)
           j == FetchedInsn(d)
<1>1. s.hasMem /\ ~s.stopped /\ s.hasMem \in BOOLEAN
  BY DEF AtPair, Cpus
<1>2. <<i, j>> \in StackPairs \union RegisterPairs \union {<<"jsr", "rts">>} \union OperandPairs
  BY DEF AtPair
<1> HIDE DEF i, j
<1>3. i # "ill" /\ i # "stp" /\ j # "ill"
  BY <1>2 DEF StackPairs, RegisterPairs, OperandPairs
<1>4. RunsValid(s)
  BY <1>1, <1>3 DEF RunsValid, i
<1>5. d \in Cpus(Contents) /\ d.hasMem = s.hasMem /\ StepEffect(FetchedInsn(s), s, d)
  BY <1>4, StepType
<1> HIDE DEF d
<1>6. ~d.stopped
  BY <1>3, <1>5 DEF StepEffect, i
<1>7. RunsValid(d)
  BY <1>3, <1>6 DEF RunsValid, j
<1>. QED  BY <1>1, <1>4, <1>5, <1>7 DEF d

(* INX, DEX, INY and DEY.                                                    *)
LEMMA CountStep ==
    ASSUME NEW Contents, HoldsBytes(Contents), NEW s \in Cpus(Contents), RunsValid(s),
           FetchedInsn(s) \in {"inx", "dex", "iny", "dey"}
    PROVE  LET d == stepInstruction(s)
               insn == FetchedInsn(s)
           IN  /\ d.mem = s.mem /\ d.sp = s.sp /\ d.a = s.a
               /\ SameControl(d.status, s.status)
               /\ d.x = IF insn = "inx" THEN U8(s.x + 1)
                        ELSE IF insn = "dex" THEN U8(s.x - 1) ELSE s.x
               /\ d.y = IF insn = "iny" THEN U8(s.y + 1)
                        ELSE IF insn = "dey" THEN U8(s.y - 1) ELSE s.y
<1> DEFINE f == Fetch(s)
           d == stepInstruction(s)
           insn == FetchedInsn(s)
<1>1. /\ f \in Cpus(Contents) /\ m_insn[f.opcode].insn = insn
      /\ SameProgram(Execute(f), d)
  BY ImpliedStep DEF Alone, Transfers
<1>2. /\ f.mem = s.mem /\ f.sp = s.sp /\ f.a = s.a /\ f.x = s.x /\ f.y = s.y
      /\ f.status = s.status \union {"One"}
  BY FetchKeeps
<1> HIDE DEF f, d, insn
<1>3. /\ insn = "inx" => Execute(f) = inx(f)
      /\ insn = "dex" => Execute(f) = dex(f)
      /\ insn = "iny" => Execute(f) = iny(f)
      /\ insn = "dey" => Execute(f) = dey(f)
  BY <1>1, ZenonT(60) DEF Execute
<1>4. ASSUME NEW value
      PROVE  LET e == LoadX(f, value)
             IN  /\ e.mem = s.mem /\ e.sp = s.sp /\ e.a = s.a /\ e.x = value /\ e.y = s.y
                 /\ SameControl(e.status, s.status)
  BY <1>1, <1>2 DEF LoadX, Cpus, SameControl, ZeroSign, signcalc, zerocalc, SetFlag
<1>5. ASSUME NEW value
      PROVE  LET e == LoadY(f, value)
             IN  /\ e.mem = s.mem /\ e.sp = s.sp /\ e.a = s.a /\ e.x = s.x /\ e.y = value
                 /\ SameControl(e.status, s.status)
  BY <1>1, <1>2 DEF LoadY, Cpus, SameControl, ZeroSign, signcalc, zerocalc, SetFlag
<1>6. insn \in {"inx", "dex", "iny", "dey"}
  BY DEF insn
<1> DEFINE e == Execute(f)
<1>7. /\ e.mem = s.mem /\ e.sp = s.sp /\ e.a = s.a /\ SameControl(e.status, s.status)
      /\ e.x = IF insn = "inx" THEN U8(s.x + 1) ELSE IF insn = "dex" THEN U8(s.x - 1) ELSE s.x
      /\ e.y = IF insn = "iny" THEN U8(s.y + 1) ELSE IF insn = "dey" THEN U8(s.y - 1) ELSE s.y
  <2>1. CASE insn \in {"inx", "dex"}
    BY <1>2, <1>3, <1>4, <2>1 DEF inx, dex
  <2>2. CASE insn \in {"iny", "dey"}
    BY <1>2, <1>3, <1>5, <2>2 DEF iny, dey
  <2>. QED  BY <1>6, <2>1, <2>2
<1> HIDE DEF e
<1>8. SameProgram(e, d)
  BY <1>1 DEF e
<1>. QED  BY <1>7, <1>8 DEF SameProgram, d, insn

(* Everything that a pair gives back.                                        *)
Undone(s, e) ==
    /\ e.a = s.a /\ e.x = s.x /\ e.y = s.y /\ e.sp = s.sp
    /\ SameControl(e.status, s.status)
    /\ \A address \in OffStack : ReadMem(e.mem, address) = ReadMem(s.mem, address)

(* A register counted there and back, from 0 and from 255 too.               *)
LEMMA RegisterPairUndoes ==
    ASSUME NEW Contents, HoldsBytes(Contents), NEW s \in Cpus(Contents), AtPair(s),
           <<FetchedInsn(s), FetchedInsn(stepInstruction(s))>> \in RegisterPairs
    PROVE  Undone(s, stepInstruction(stepInstruction(s)))
<1> DEFINE d == stepInstruction(s)
           e == stepInstruction(d)
           i == FetchedInsn(s)
           j == FetchedInsn(d)
<1>1. RunsValid(s) /\ d \in Cpus(Contents) /\ RunsValid(d)
  BY PairRuns
<1>2. <<i, j>> \in RegisterPairs
  OBVIOUS
<1>3. FetchedInsn(s) = i
  OBVIOUS
<1> HIDE DEF d, i
<1>4. FetchedInsn(d) = j
  OBVIOUS
<1> HIDE DEF e, j
<1>5. i \in {"inx", "dex", "iny", "dey"} /\ j \in {"inx", "dex", "iny", "dey"}
  BY <1>2 DEF RegisterPairs
<1>6. /\ d.mem = s.mem /\ d.sp = s.sp /\ d.a = s.a
      /\ SameControl(d.status, s.status)
      /\ d.x = IF i = "inx" THEN U8(s.x + 1) ELSE IF i = "dex" THEN U8(s.x - 1) ELSE s.x
      /\ d.y = IF i = "iny" THEN U8(s.y + 1) ELSE IF i = "dey" THEN U8(s.y - 1) ELSE s.y
  BY <1>1, <1>3, <1>5, CountStep DEF d
<1>7. /\ e.mem = d.mem /\ e.sp = d.sp /\ e.a = d.a
      /\ SameControl(e.status, d.status)
      /\ e.x = IF j = "inx" THEN U8(d.x + 1) ELSE IF j = "dex" THEN U8(d.x - 1) ELSE d.x
      /\ e.y = IF j = "iny" THEN U8(d.y + 1) ELSE IF j = "dey" THEN U8(d.y - 1) ELSE d.y
  BY <1>1, <1>4, <1>5, CountStep DEF e
<1>8. ASSUME NEW n \in Byte
      PROVE  U8(U8(n + 1) - 1) = n /\ U8(U8(n - 1) + 1) = n
  <2>1. n \in Nat /\ n < 256
    BY ByteRange
  <2>. QED  BY <2>1, SMT DEF U8
<1>9. e.x = s.x /\ e.y = s.y
  BY <1>2, <1>6, <1>7, <1>8 DEF RegisterPairs, Cpus
<1>10. SameControl(e.status, s.status)
  BY <1>6, <1>7, Zenon DEF SameControl
<1>. QED  BY <1>6, <1>7, <1>9, <1>10 DEF Undone, d, e

(* What the pushes push.                                                     *)
Pushed(insn, s) ==
    IF insn = "pha" THEN s.a
    ELSE IF insn = "phx" THEN s.x
    ELSE IF insn = "phy" THEN s.y
    ELSE StatusByte(s.status \union {"One", "B"})

(* PHA, PHX, PHY and PHP.                                                    *)
LEMMA PushStep ==
    ASSUME NEW Contents, HoldsBytes(Contents), LowRam(Contents), NEW s \in Cpus(Contents),
           s.hasMem = TRUE, RunsValid(s), FetchedInsn(s) \in Pushes
    PROVE  LET d == stepInstruction(s)
           IN  /\ d.sp = U8(s.sp - 1) /\ d.a = s.a /\ d.x = s.x /\ d.y = s.y
               /\ d.status = s.status \union {"One"}
               /\ ReadMem(d.mem, Stack(s.sp)) = Pushed(FetchedInsn(s), s)
               /\ \A address \in OffStack : ReadMem(d.mem, address) = ReadMem(s.mem, address)
<1> DEFINE f == Fetch(s)
           d == stepInstruction(s)
           insn == FetchedInsn(s)
           value == Pushed(insn, s)
           e == Execute(f)
<1>1. /\ f \in Cpus(Contents) /\ m_insn[f.opcode].insn = insn
      /\ SameProgram(e, d)
  BY ImpliedStep DEF Alone
<1>2. /\ f.hasMem = TRUE /\ f.mem = s.mem /\ f.sp = s.sp
      /\ f.a = s.a /\ f.x = s.x /\ f.y = s.y
      /\ f.status = s.status \union {"One"}
  BY FetchKeeps
<1>3. insn \in Pushes
  OBVIOUS
<1> HIDE DEF f, d, insn
<1>4. e = push8(f, value)
  <2>1. /\ insn = "pha" => e = pha(f)
        /\ insn = "phx" => e = phx(f)
        /\ insn = "phy" => e = phy(f)
        /\ insn = "php" => e = php(f)
    BY <1>1, ZenonT(60) DEF Execute
  <2>2. f.status \union {"B"} = s.status \union {"One", "B"}
    BY <1>2
  <2> HIDE DEF e
  <2>. QED  BY <1>2, <1>3, <2>1, <2>2 DEF Pushes, Pushed, pha, phx, phy, php
<1>5. value \in Byte
  BY StatusType DEF Pushed, Cpus
<1> DEFINE mem == WriteMem(s.mem, Stack(s.sp), value)
           sp == U8(s.sp - 1)
<1> HIDE DEF e, value
<1>6. e = [f EXCEPT !.mem = mem, !.sp = sp]
  <2>1. U16(Stack(s.sp)) = Stack(s.sp)
    BY StackAddress DEF Cpus
  <2>2. write6502(f, Stack(f.sp), value) = [f EXCEPT !.mem = mem]
    BY <1>2, <2>1 DEF write6502
  <2> HIDE DEF mem
  <2>. QED  BY <1>1, <1>2, <1>4, <2>2 DEF push8, Cpus
<1>7. /\ ReadMem(mem, Stack(s.sp)) = value
      /\ \A address \in OffStack : ReadMem(mem, address) = ReadMem(s.mem, address)
  <2>1. s.mem \in Contents /\ s.sp \in Byte
    BY DEF Cpus
  <2>2. KeepsStack(Contents)
    BY LowRamKeepsStack
  <2>3. ReadMem(mem, Stack(s.sp)) = value
    BY <1>5, <2>1, <2>2 DEF KeepsStack
  <2>. QED  BY <1>5, <2>1, <2>3, StackedOffStack
<1> HIDE DEF mem, sp
<1>8. /\ e.mem = mem /\ e.sp = sp /\ e.a = s.a /\ e.x = s.x /\ e.y = s.y
      /\ e.status = s.status \union {"One"}
  BY <1>1, <1>2, <1>6 DEF Cpus
<1>. QED  BY <1>1, <1>7, <1>8 DEF SameProgram, d, sp, value, insn

(* PLA, PLX, PLY and PLP.                                                    *)
LEMMA PullStep ==
    ASSUME NEW Contents, HoldsBytes(Contents), NEW s \in Cpus(Contents),
           s.hasMem = TRUE, RunsValid(s), FetchedInsn(s) \in Pulls,
           NEW sp \in Byte, s.sp = U8(sp - 1)
    PROVE  LET d == stepInstruction(s)
               insn == FetchedInsn(s)
               value == ReadMem(s.mem, Stack(sp))
           IN  /\ d.sp = sp /\ d.mem = s.mem
               /\ d.a = IF insn = "pla" THEN value ELSE s.a
               /\ d.x = IF insn = "plx" THEN value ELSE s.x
               /\ d.y = IF insn = "ply" THEN value ELSE s.y
               /\ insn = "plp" => d.status = StatusOf(value) \union {"One"}
               /\ insn # "plp" => SameControl(d.status, s.status)
<1> DEFINE f == Fetch(s)
           d == stepInstruction(s)
           insn == FetchedInsn(s)
           value == ReadMem(s.mem, Stack(sp))
           e == Execute(f)
           p == Pull(f, 1)
<1>1. /\ f \in Cpus(Contents) /\ m_insn[f.opcode].insn = insn
      /\ SameProgram(e, d)
  BY ImpliedStep DEF Alone
<1>2. /\ f.hasMem = TRUE /\ f.mem = s.mem /\ f.sp = s.sp
      /\ f.a = s.a /\ f.x = s.x /\ f.y = s.y
      /\ f.status = s.status \union {"One"}
  BY FetchKeeps
<1>3. insn \in Pulls
  OBVIOUS
<1>4. U8(s.sp + 1) = sp
  BY StackPointers
<1> HIDE DEF f, d, insn, e
<1>5. Pulled8(f) = value
  <2>1. U16(Stack(sp)) = Stack(sp)
    BY StackAddress
  <2>. QED  BY <1>2, <1>4, <2>1 DEF Pulled8, read6502
<1>6. p = [f EXCEPT !.sp = sp]
  BY <1>2, <1>4 DEF Pull
<1>7. /\ p.mem = s.mem /\ p.sp = sp /\ p.a = s.a /\ p.x = s.x /\ p.y = s.y
      /\ SameControl(p.status, s.status) /\ p \in Cpus(Contents)
  BY <1>1, <1>2, <1>6 DEF Cpus, SameControl
<1>8. /\ insn = "pla" => e = LoadA(p, value)
      /\ insn = "plx" => e = LoadX(p, value)
      /\ insn = "ply" => e = LoadY(p, value)
      /\ insn = "plp" => e = [p EXCEPT !.status = StatusOf(value) \union {"One"}]
  <2>1. /\ insn = "pla" => e = pla(f)
        /\ insn = "plx" => e = plx(f)
        /\ insn = "ply" => e = ply(f)
        /\ insn = "plp" => e = plp(f)
    BY <1>1, ZenonT(60) DEF Execute, e
  <2> HIDE DEF value, p
  <2>. QED  BY <1>5, <2>1, Zenon DEF pla, plx, ply, plp, p
<1> HIDE DEF p, value
<1>9. ASSUME NEW status, SameControl(status, s.status)
      PROVE  SameControl(ZeroSign(status, value), s.status)
  BY <1>9 DEF SameControl, ZeroSign, signcalc, zerocalc, SetFlag
<1>10. SameControl(ZeroSign(p.status, value), s.status)
  BY <1>7, <1>9
<1>11. CASE insn = "pla"
  <2>1. /\ e.mem = s.mem /\ e.sp = sp /\ e.a = value /\ e.x = s.x /\ e.y = s.y
        /\ SameControl(e.status, s.status)
    BY <1>7, <1>8, <1>10, <1>11 DEF LoadA, Cpus
  <2>. QED  BY <1>1, <1>11, <2>1 DEF SameProgram, d, insn, value
<1>12. CASE insn = "plx"
  <2>1. /\ e.mem = s.mem /\ e.sp = sp /\ e.a = s.a /\ e.x = value /\ e.y = s.y
        /\ SameControl(e.status, s.status)
    BY <1>7, <1>8, <1>10, <1>12 DEF LoadX, Cpus
  <2>. QED  BY <1>1, <1>12, <2>1 DEF SameProgram, d, insn, value
<1>13. CASE insn = "ply"
  <2>1. /\ e.mem = s.mem /\ e.sp = sp /\ e.a = s.a /\ e.x = s.x /\ e.y = value
        /\ SameControl(e.status, s.status)
    BY <1>7, <1>8, <1>10, <1>13 DEF LoadY, Cpus
  <2>. QED  BY <1>1, <1>13, <2>1 DEF SameProgram, d, insn, value
<1>14. CASE insn = "plp"
  <2>1. /\ e.mem = s.mem /\ e.sp = sp /\ e.a = s.a /\ e.x = s.x /\ e.y = s.y
        /\ e.status = StatusOf(value) \union {"One"}
    BY <1>7, <1>8, <1>14 DEF Cpus
  <2>. QED  BY <1>1, <1>14, <2>1 DEF SameProgram, d, insn, value
<1>. QED  BY <1>3, <1>11, <1>12, <1>13, <1>14 DEF Pulls

(* What is pushed is pulled, wherever the stack pointer wraps.               *)
LEMMA StackPairUndoes ==
    ASSUME NEW Contents, HoldsBytes(Contents), LowRam(Contents), NEW s \in Cpus(Contents),
           AtPair(s), <<FetchedInsn(s), FetchedInsn(stepInstruction(s))>> \in StackPairs
    PROVE  Undone(s, stepInstruction(stepInstruction(s)))
<1> DEFINE d == stepInstruction(s)
           e == stepInstruction(d)
           i == FetchedInsn(s)
           j == FetchedInsn(d)
           value == ReadMem(d.mem, Stack(s.sp))
<1>1. /\ s.hasMem = TRUE /\ RunsValid(s)
      /\ d \in Cpus(Contents) /\ d.hasMem = TRUE /\ RunsValid(d)
  BY PairRuns
<1>2. <<i, j>> \in StackPairs /\ FetchedInsn(s) = i
  OBVIOUS
<1> HIDE DEF d, i
<1>3. FetchedInsn(d) = j
  OBVIOUS
<1> HIDE DEF e, j
<1>4. i \in Pushes /\ j \in Pulls
  BY <1>2 DEF StackPairs, Pushes, Pulls
<1>5. /\ d.sp = U8(s.sp - 1) /\ d.a = s.a /\ d.x = s.x /\ d.y = s.y
      /\ d.status = s.status \union {"One"}
      /\ value = Pushed(i, s)
      /\ \A address \in OffStack : ReadMem(d.mem, address) = ReadMem(s.mem, address)
  BY <1>1, <1>2, <1>4, PushStep DEF d
<1>6. s.sp \in Byte
  BY DEF Cpus
<1>7. /\ e.sp = s.sp /\ e.mem = d.mem
      /\ e.a = IF j = "pla" THEN value ELSE d.a
      /\ e.x = IF j = "plx" THEN value ELSE d.x
      /\ e.y = IF j = "ply" THEN value ELSE d.y
      /\ j = "plp" => e.status = StatusOf(value) \union {"One"}
      /\ j # "plp" => SameControl(e.status, d.status)
  BY <1>1, <1>3, <1>4, <1>5, <1>6, PullStep DEF e
<1> HIDE DEF value
<1>8. e.a = s.a /\ e.x = s.x /\ e.y = s.y
  BY <1>2, <1>5, <1>7 DEF StackPairs, Pushed
<1>9. SameControl(e.status, s.status)
  <2>1. CASE j = "plp"
    <3>1. value = StatusByte(s.status \union {"One", "B"})
      BY <1>2, <1>5, <2>1 DEF StackPairs, Pushed
    <3>2. s.status \union {"One", "B"} \in SUBSET Flags
      BY DEF Cpus, Flags
    <3>3. StatusOf(value) = s.status \union {"One", "B"}
      BY <3>1, <3>2, StatusRound
    <3>. QED  BY <1>7, <2>1, <3>3 DEF SameControl
  <2>2. CASE j # "plp"
    BY <1>5, <1>7, <2>2 DEF SameControl
  <2>. QED  BY <2>1, <2>2
<1>. QED  BY <1>5, <1>7, <1>8, <1>9 DEF Undone, d, e

(* A call that returns at once.                                              *)
LEMMA CallUndoes ==
    ASSUME NEW Contents, HoldsBytes(Contents), LowRam(Contents), NEW s \in Cpus(Contents),
           AtPair(s), <<FetchedInsn(s), FetchedInsn(stepInstruction(s))>> = <<"jsr", "rts">>
    PROVE  Undone(s, stepInstruction(stepInstruction(s)))
<1> DEFINE d == stepInstruction(s)
           e == stepInstruction(d)
<1>1. /\ s.hasMem = TRUE /\ RunsValid(s)
      /\ d \in Cpus(Contents) /\ d.hasMem = TRUE /\ RunsValid(d)
      /\ KeepsStack(Contents)
  BY PairRuns, LowRamKeepsStack
<1>2. FetchedInsn(s) = "jsr" /\ FetchedInsn(d) = "rts"
  OBVIOUS
<1> HIDE DEF d
<1>3. /\ s.status \union {"One"} = Fetch(s).status
      /\ d.status \union {"One"} = Fetch(d).status
  BY <1>1, FetchKeeps
<1>4. /\ s.sp \in Byte /\ U8(s.sp - 1) \in Byte /\ s.mem \in Contents
  BY StackPointers DEF Cpus
<1>5. /\ d.sp = U8(s.sp - 2) /\ d.a = s.a /\ d.x = s.x /\ d.y = s.y
      /\ d.status = s.status \union {"One"}
      /\ \E high \in Byte, low \in Byte :
           d.mem = WriteMem(WriteMem(s.mem, Stack(s.sp), high), Stack(U8(s.sp - 1)), low)
  <2>1. LET a == AfterStep(s)
        IN  /\ a.sp = U8(s.sp - 2) /\ a.a = s.a /\ a.x = s.x /\ a.y = s.y
            /\ a.status = Fetch(s).status
            /\ \E high \in Byte, low \in Byte :
                 a.mem = WriteMem(WriteMem(s.mem, Stack(s.sp), high), Stack(U8(s.sp - 1)), low)
            /\ SameProgram(a, stepInstruction(s))
    BY <1>1, <1>2, JsrPushes
  <2>. QED  BY <1>3, <2>1 DEF SameProgram, d
<1>6. /\ e.mem = d.mem /\ e.sp = s.sp /\ e.a = d.a /\ e.x = d.x /\ e.y = d.y
      /\ e.status = d.status \union {"One"}
  <2>1. LET a == AfterStep(d)
        IN  /\ a.mem = d.mem /\ a.sp = s.sp /\ a.a = d.a /\ a.x = d.x /\ a.y = d.y
            /\ a.status = Fetch(d).status
            /\ SameProgram(a, stepInstruction(d))
    BY <1>1, <1>2, <1>4, <1>5, RtsPulls
  <2>. QED  BY <1>3, <2>1 DEF SameProgram
<1> HIDE DEF e
<1>7. \A address \in OffStack : ReadMem(d.mem, address) = ReadMem(s.mem, address)
  <2>1. PICK high \in Byte, low \in Byte :
          d.mem = WriteMem(WriteMem(s.mem, Stack(s.sp), high), Stack(U8(s.sp - 1)), low)
    BY <1>5
  <2> DEFINE first == WriteMem(s.mem, Stack(s.sp), high)
  <2>2. first \in Contents
    <3>1. Stack(s.sp) \in Word
      BY <1>4, StackAddress
    <3>. QED  BY <1>4, <3>1 DEF HoldsBytes
  <2>3. \A address \in OffStack : ReadMem(first, address) = ReadMem(s.mem, address)
    BY <1>4, StackedOffStack
  <2> HIDE DEF first
  <2>4. d.mem = WriteMem(first, Stack(U8(s.sp - 1)), low)
    BY <2>1 DEF first
  <2>5. \A address \in OffStack : ReadMem(d.mem, address) = ReadMem(first, address)
    BY <1>4, <2>2, <2>4, StackedOffStack
  <2>. QED  BY <2>3, <2>5
<1>8. SameControl(e.status, s.status)
  BY <1>5, <1>6 DEF SameControl
<1>. QED  BY <1>5, <1>6, <1>7, <1>8 DEF Undone, d, e

(* What INC, DEC, ROL and ROR make of a byte and of the carry.               *)
Result(insn, value, status) ==
    IF insn = "inc" THEN value + 1
    ELSE IF insn = "dec" THEN U16(value - 1)
    ELSE IF insn = "rol" THEN 2 * value + Carry(status)
    ELSE value \div 2 + 128 * Carry(status)

Rotated(insn, value, status) ==
    IF insn = "rol" THEN carrycalc(status, Result(insn, value, status))
    ELSE IF insn = "ror" THEN SetFlag(status, "C", BitSet(value, 1))
    ELSE status

StatusAfter(insn, value, status) ==
    ZeroSign(Rotated(insn, value, status), Result(insn, value, status))

(* Z and N follow the result, C and the rest do not.                         *)
LEMMA ControlAfter ==
    ASSUME NEW insn, NEW value, NEW status
    PROVE  /\ StatusAfter(insn, value, status) \ {"N", "Z", "B", "One"}
                = Rotated(insn, value, status) \ {"N", "Z", "B", "One"}
           /\ "C" \in StatusAfter(insn, value, status) <=> "C" \in Rotated(insn, value, status)
BY DEF StatusAfter, ZeroSign, signcalc, zerocalc, SetFlag

(* The second of a pair makes of the first's byte and carry what they were.  *)
LEMMA OperandRestored ==
    ASSUME NEW i, NEW j, <<i, j>> \in OperandPairs, NEW value \in Byte, NEW status, NEW next,
           next = StatusAfter(i, value, status) \union {"One"},
           NEW byte, byte = U8(Result(i, value, status))
    PROVE  /\ byte \in Byte
           /\ U8(Result(j, byte, next)) = value
           /\ SameControl(StatusAfter(j, byte, next), status)
<1>1. PICK carry \in 0..1 : carry = Carry(status)
  BY CarryType
<1>2. value \in Nat /\ value < 256
  BY ByteRange
<1>3. "C" \in status <=> carry = 1
  BY <1>1 DEF Carry
<1>4. /\ "C" \in next <=> "C" \in Rotated(i, value, status)
      /\ SameControl(next, Rotated(i, value, status))
      /\ SameControl(StatusAfter(j, byte, next), Rotated(j, byte, next))
  BY ControlAfter DEF SameControl
<1>5. CASE <<i, j>> = <<"inc", "dec">>
  <2>1. byte = U8(value + 1)
    BY <1>5 DEF Result
  <2>2. byte \in Byte /\ U8(U16(byte - 1)) = value
    <3>1. U8(value + 1) \in Byte /\ U8(U16(U8(value + 1) - 1)) = value
      BY <1>2, ByteRange, SMT DEF U8, U16
    <3>. QED  BY <2>1, <3>1
  <2>3. Result(j, byte, next) = U16(byte - 1)
    BY <1>5 DEF Result
  <2>4. Rotated(i, value, status) = status /\ Rotated(j, byte, next) = next
    BY <1>5 DEF Rotated
  <2>. QED  BY <1>4, <2>2, <2>3, <2>4 DEF SameControl
<1>6. CASE <<i, j>> = <<"dec", "inc">>
  <2>1. byte = U8(U16(value - 1))
    BY <1>6 DEF Result
  <2>2. byte \in Byte /\ U8(byte + 1) = value
    <3>1. U8(U16(value - 1)) \in Byte /\ U8(U8(U16(value - 1)) + 1) = value
      BY <1>2, ByteRange, SMT DEF U8, U16
    <3>. QED  BY <2>1, <3>1
  <2>3. Result(j, byte, next) = byte + 1
    BY <1>6 DEF Result
  <2>4. Rotated(i, value, status) = status /\ Rotated(j, byte, next) = next
    BY <1>6 DEF Rotated
  <2>. QED  BY <1>4, <2>2, <2>3, <2>4 DEF SameControl
<1>7. CASE <<i, j>> = <<"rol", "ror">>
  <2> DEFINE result == 2 * value + carry
  <2>1. /\ Result(i, value, status) = result
        /\ Rotated(i, value, status) = SetFlag(status, "C", result > 255)
    BY <1>1, <1>7 DEF Result, Rotated, carrycalc
  <2>2. PICK out \in 0..1 : out = Carry(next)
    BY CarryType
  <2>3. result > 255 <=> out = 1
    <3> HIDE DEF result
    <3>1. "C" \in next <=> result > 255
      BY <1>4, <2>1 DEF SetFlag
    <3>. QED  BY <2>2, <3>1 DEF Carry
  <2>4. byte = U8(result)
    BY <2>1
  <2>5. byte \in Byte /\ byte = result - 256 * out
    BY <1>1, <1>2, <2>2, <2>3, <2>4, ByteRange, SMT DEF U8
  <2>6. byte \div 2 + 128 * out = value /\ (BitSet(byte, 1) <=> carry = 1)
    <3>1. \A half \in Int : /\ (2 * half + carry) \div 2 = half
                            /\ (((2 * half + carry) \div 1) % 2 = 1 <=> carry = 1)
      BY <1>1, SMT
    <3>2. value - 128 * out \in Int /\ byte = 2 * (value - 128 * out) + carry
      BY <1>1, <1>2, <2>2, <2>5, SMT
    <3>3. byte \div 2 = value - 128 * out /\ ((byte \div 1) % 2 = 1 <=> carry = 1)
      BY <3>1, <3>2, Zenon
    <3>. QED  BY <1>2, <2>2, <3>3, SMT DEF BitSet
  <2>7. Result(j, byte, next) = value
    BY <1>7, <2>2, <2>6 DEF Result
  <2>8. Rotated(j, byte, next) = SetFlag(next, "C", "C" \in status)
    BY <1>3, <1>7, <2>6 DEF Rotated, SetFlag
  <2>9. SameControl(Rotated(j, byte, next), status)
    BY <1>4, <2>1, <2>8 DEF SameControl, SetFlag
  <2>10. U8(value) = value
    BY <1>2, U8Type
  <2>. QED  BY <1>4, <2>5, <2>7, <2>9, <2>10 DEF SameControl
<1>8. CASE <<i, j>> = <<"ror", "rol">>
  <2> DEFINE result == value \div 2 + 128 * carry
             out == value % 2
  <2>1. /\ Result(i, value, status) = result
        /\ Rotated(i, value, status) = SetFlag(status, "C", BitSet(value, 1))
    BY <1>1, <1>8 DEF Result, Rotated
  <2>2. out \in 0..1 /\ (BitSet(value, 1) <=> out = 1)
    BY <1>2, SMT DEF BitSet
  <2>3. "C" \in next <=> out = 1
    <3> HIDE DEF out, result
    <3>. QED  BY <1>4, <2>1, <2>2 DEF SetFlag
  <2>4. Carry(next) = out
    <3> HIDE DEF out
    <3>. QED  BY <2>2, <2>3 DEF Carry
  <2>5. byte = U8(result)
    BY <2>1
  <2>6. byte \in Byte /\ byte = result
    BY <1>1, <1>2, <2>5, ByteRange, SMT DEF U8
  <2>7. 2 * byte + out = value + 256 * carry
    BY <1>1, <1>2, <2>6, SMT
  <2> HIDE DEF out, result
  <2>8. Result(j, byte, next) = value + 256 * carry
    BY <1>8, <2>4, <2>7 DEF Result
  <2>9. U8(value + 256 * carry) = value /\ (value + 256 * carry > 255 <=> carry = 1)
    BY <1>1, <1>2, SMT DEF U8
  <2>10. Rotated(j, byte, next) = SetFlag(next, "C", "C" \in status)
    BY <1>3, <1>8, <2>8, <2>9 DEF Rotated, carrycalc, SetFlag
  <2>11. SameControl(Rotated(j, byte, next), status)
    BY <1>4, <2>1, <2>10 DEF SameControl, SetFlag
  <2>. QED  BY <1>4, <2>6, <2>8, <2>9, <2>11 DEF SameControl
<1>. QED  BY <1>5, <1>6, <1>7, <1>8 DEF OperandPairs

(* INC, DEC, ROL and ROR, of the accumulator or of a byte of RAM.            *)
LEMMA ModifyStep ==
    ASSUME NEW Contents, HoldsBytes(Contents), NEW s \in Cpus(Contents), s.hasMem = TRUE,
           RunsValid(s), FetchedInsn(s) \in {"inc", "dec", "rol", "ror"},
           NEW g, g = Address(Fetch(s)), NEW value, value = getvalue(g)
    PROVE  LET d == stepInstruction(s)
               insn == FetchedInsn(s)
               status == s.status \union {"One"}
               byte == U8(Result(insn, value, status))
           IN  /\ value \in Byte
               /\ value = IF UsesAccumulator(g) THEN s.a ELSE ReadMem(s.mem, g.ea)
               /\ d.sp = s.sp /\ d.x = s.x /\ d.y = s.y
               /\ d.status = StatusAfter(insn, value, status)
               /\ UsesAccumulator(g) => d.a = byte /\ d.mem = s.mem
               /\ ~UsesAccumulator(g) => d.a = s.a /\ d.mem = WriteMem(s.mem, g.ea, byte)
<1> DEFINE f == Fetch(s)
           d == stepInstruction(s)
           insn == FetchedInsn(s)
           status == s.status \union {"One"}
           result == Result(insn, value, status)
           byte == U8(result)
           after == StatusAfter(insn, value, status)
           e == Execute(g)
<1>1. /\ f \in Cpus(Contents) /\ g \in Cpus(Contents)
      /\ m_insn[g.opcode].insn = insn
      /\ e \in Cpus(Contents)
      /\ SameProgram(e, d)
  BY StepRuns
<1>2. /\ f.hasMem = TRUE /\ f.mem = s.mem /\ f.sp = s.sp
      /\ f.a = s.a /\ f.x = s.x /\ f.y = s.y
      /\ f.status = status
  BY FetchKeeps
<1>3. Addressed(f, g)
  BY <1>1, AddressType
<1> HIDE DEF f
<1>4. /\ g.hasMem = TRUE /\ g.mem = s.mem /\ g.sp = s.sp
      /\ g.a = s.a /\ g.x = s.x /\ g.y = s.y
      /\ g.status = status
  BY <1>2, <1>3 DEF Addressed, Quiet, Kept, Cpus
<1>5. insn \in {"inc", "dec", "rol", "ror"}
  OBVIOUS
<1>6. value \in Byte
  BY <1>1, OperandType
<1>7. g.ea \in Word /\ U16(g.ea) = g.ea
  BY <1>1, U16Type, WordRange DEF Cpus
<1>8. value = IF UsesAccumulator(g) THEN s.a ELSE ReadMem(s.mem, g.ea)
  BY <1>4, <1>7, Zenon DEF getvalue, read6502
<1> HIDE DEF d, insn, status, e
<1>9. e = putvalue([g EXCEPT !.status = after], result)
  <2>1. /\ insn = "inc" => e = inc(g)
        /\ insn = "dec" => e = dec(g)
        /\ insn = "rol" => e = rol(g)
        /\ insn = "ror" => e = ror(g)
    BY <1>1, ZenonT(60) DEF Execute, e
  <2>2. getvalue(g) = value /\ g.status = status
    BY <1>4
  <2>3. CASE insn = "inc"
    BY <2>1, <2>2, <2>3 DEF inc, Modify, Result, Rotated, StatusAfter
  <2>4. CASE insn = "dec"
    BY <2>1, <2>2, <2>4 DEF dec, Modify, Result, Rotated, StatusAfter
  <2>5. CASE insn = "rol"
    BY <2>1, <2>2, <2>5 DEF rol, Modify, Result, Rotated, StatusAfter
  <2>6. CASE insn = "ror"
    BY <2>1, <2>2, <2>6 DEF ror, Modify, Result, Rotated, StatusAfter
  <2>. QED  BY <1>5, <2>3, <2>4, <2>5, <2>6
<1> DEFINE h == [g EXCEPT !.status = after]
<1> HIDE DEF result, after
<1>10. /\ h.hasMem = TRUE /\ h.mem = s.mem /\ h.sp = s.sp /\ h.ea = g.ea
       /\ h.a = s.a /\ h.x = s.x /\ h.y = s.y
       /\ h.status = after /\ h.opcode = g.opcode
       /\ DOMAIN h = DOMAIN g
  BY <1>1, <1>4 DEF Cpus
<1>11. UsesAccumulator(h) <=> UsesAccumulator(g)
  BY <1>10, Zenon DEF UsesAccumulator
<1>12. e = putvalue(h, result)
  BY <1>9
<1>13. DOMAIN h = Members
  BY <1>1, <1>10 DEF Cpus, Members
<1> HIDE DEF h, byte
<1>14. CASE UsesAccumulator(g)
  <2>1. e = [h EXCEPT !.a = byte]
    BY <1>11, <1>12, <1>14 DEF putvalue, byte
  <2>2. /\ e.sp = s.sp /\ e.x = s.x /\ e.y = s.y /\ e.status = after
        /\ e.a = byte /\ e.mem = s.mem
    BY <1>10, <1>13, <2>1 DEF Members
  <2>. QED  BY <1>1, <1>6, <1>8, <1>14, <2>2
            DEF SameProgram, d, byte, after, result, status, insn
<1>15. CASE ~UsesAccumulator(g)
  <2> DEFINE mem == WriteMem(s.mem, g.ea, byte)
  <2>1. e = write6502(h, h.ea, byte)
    BY <1>11, <1>12, <1>15, Zenon DEF putvalue, byte
  <2>2. e = [h EXCEPT !.mem = mem]
    BY <1>7, <1>10, <2>1 DEF write6502
  <2> HIDE DEF mem
  <2>3. /\ e.sp = s.sp /\ e.x = s.x /\ e.y = s.y /\ e.status = after
        /\ e.a = s.a /\ e.mem = mem
    BY <1>10, <1>13, <2>2 DEF Members
  <2>. QED  BY <1>1, <1>6, <1>8, <1>15, <2>3
            DEF SameProgram, d, byte, after, result, status, insn, mem
<1>. QED  BY <1>14, <1>15

(* An operand counted or rotated there and back, in every mode.              *)
LEMMA OperandPairUndoes ==
    ASSUME NEW Contents, HoldsBytes(Contents), LowRam(Contents), NEW s \in Cpus(Contents),
           AtPair(s), <<FetchedInsn(s), FetchedInsn(stepInstruction(s))>> \in OperandPairs,
           SameOperand(s, stepInstruction(s))
    PROVE  Undone(s, stepInstruction(stepInstruction(s)))
<1> DEFINE d == stepInstruction(s)
           e == stepInstruction(d)
           i == FetchedInsn(s)
           j == FetchedInsn(d)
           g == Address(Fetch(s))
           h == Address(Fetch(d))
           value == getvalue(g)
           other == getvalue(h)
           status == s.status \union {"One"}
           next == d.status \union {"One"}
           byte == U8(Result(i, value, status))
           back == U8(Result(j, other, next))
<1>1. /\ s.hasMem = TRUE /\ RunsValid(s)
      /\ d \in Cpus(Contents) /\ d.hasMem = TRUE /\ RunsValid(d)
  BY PairRuns
<1>2. <<i, j>> \in OperandPairs /\ FetchedInsn(s) = i
  OBVIOUS
<1>3. i \in {"inc", "dec", "rol", "ror"} /\ j \in {"inc", "dec", "rol", "ror"}
  BY <1>2 DEF OperandPairs
<1>4. /\ UsesAccumulator(g) <=> UsesAccumulator(h)
      /\ UsesAccumulator(g) \/ (g.ea = h.ea /\ g.ea < 512)
  BY DEF SameOperand
<1>5. g \in Cpus(Contents)
  BY <1>1, StepRuns
<1>6. /\ value \in Byte
      /\ value = IF UsesAccumulator(g) THEN s.a ELSE ReadMem(s.mem, g.ea)
      /\ d.sp = s.sp /\ d.x = s.x /\ d.y = s.y
      /\ d.status = StatusAfter(i, value, status)
      /\ UsesAccumulator(g) => d.a = byte /\ d.mem = s.mem
      /\ ~UsesAccumulator(g) => d.a = s.a /\ d.mem = WriteMem(s.mem, g.ea, byte)
  BY <1>1, <1>3, ModifyStep
<1> HIDE DEF d, i, g
<1>7. /\ other \in Byte
      /\ other = IF UsesAccumulator(h) THEN d.a ELSE ReadMem(d.mem, h.ea)
      /\ e.sp = d.sp /\ e.x = d.x /\ e.y = d.y
      /\ e.status = StatusAfter(j, other, next)
      /\ UsesAccumulator(h) => e.a = back /\ e.mem = d.mem
      /\ ~UsesAccumulator(h) => e.a = d.a /\ e.mem = WriteMem(d.mem, h.ea, back)
  BY <1>1, <1>3, ModifyStep
<1> HIDE DEF e, j, h, value, other
<1>8. /\ next = StatusAfter(i, value, status) \union {"One"}
      /\ byte = U8(Result(i, value, status))
  BY <1>6
<1>9. SameControl(status, s.status)
  BY DEF SameControl
<1> HIDE DEF next, byte, status
<1>10. /\ byte \in Byte
       /\ U8(Result(j, byte, next)) = value
       /\ SameControl(StatusAfter(j, byte, next), status)
  BY <1>2, <1>6, <1>8, OperandRestored
<1>11. /\ other = byte => back = value /\ SameControl(e.status, s.status)
  BY <1>7, <1>9, <1>10 DEF SameControl, back
<1> HIDE DEF back
<1>12. CASE UsesAccumulator(g)
  <2>1. other = byte
    BY <1>4, <1>6, <1>7, <1>12
  <2>2. e.a = s.a /\ e.mem = s.mem
    BY <1>4, <1>6, <1>7, <1>11, <1>12, <2>1
  <2>. QED  BY <1>6, <1>7, <1>11, <2>1, <2>2 DEF Undone, d, e
<1>13. CASE ~UsesAccumulator(g)
  <2> DEFINE at == g.ea
  <2>1. at \in LowPages /\ at \in Word /\ h.ea = at
    BY <1>4, <1>5, <1>13, WordRange, SMT DEF LowPages, Cpus
  <2> HIDE DEF at
  <2>2. /\ ~UsesAccumulator(h)
        /\ d.mem = WriteMem(s.mem, at, byte) /\ value = ReadMem(s.mem, at)
        /\ other = ReadMem(d.mem, at) /\ e.mem = WriteMem(d.mem, at, back)
        /\ e.a = s.a
    BY <1>4, <1>6, <1>7, <1>13, <2>1 DEF at
  <2>3. s.mem \in Contents /\ d.mem \in Contents
    BY <1>1 DEF Cpus
  <2>4. other = byte
    BY <1>10, <2>1, <2>2, <2>3 DEF LowRam
  <2>5. back = value /\ value \in Byte
    BY <1>6, <1>11, <2>4
  <2>6. ASSUME NEW address \in OffStack
        PROVE  ReadMem(e.mem, address) = ReadMem(s.mem, address)
    <3>1. address \in Word
      BY DEF OffStack
    <3>2. ReadMem(e.mem, address) = IF address = at THEN value ELSE ReadMem(d.mem, address)
      BY <2>1, <2>2, <2>3, <2>5, <3>1 DEF LowRam
    <3>3. ReadMem(d.mem, address) = IF address = at THEN byte ELSE ReadMem(s.mem, address)
      BY <1>10, <2>1, <2>2, <2>3, <3>1 DEF LowRam
    <3>. QED  BY <2>2, <3>2, <3>3
  <2>. QED  BY <1>6, <1>7, <1>11, <2>2, <2>4, <2>6 DEF Undone, d, e
<1>. QED  BY <1>12, <1>13

(* The CPU is where the instructions that were stepped lead from the start.  *)
StepsTaken ==
    /\ start \in Starts \union PairStarts
    /\ pair => start \in PairStarts
    /\ done \in 0..2
    /\ done = 0 => c = start
    /\ done = 1 => c = stepInstruction(start)
    /\ done = 2 => c = stepInstruction(stepInstruction(start))

(* Stepping counts.                                                          *)
LEMMA StepsInvariant == Spec => []StepsTaken
<1>1. Init => StepsTaken
  BY DEF Init, StepsTaken
<1>2. StepsTaken /\ [Next]_vars => StepsTaken'
  <2> SUFFICES ASSUME StepsTaken, [Next]_vars PROVE StepsTaken'
    OBVIOUS
  <2>1. CASE UNCHANGED vars
    BY <2>1 DEF StepsTaken, vars
  <2>2. CASE Step
    <3>1. done \in {0, 1} /\ done' = done + 1
      BY <2>2 DEF Step, StepsTaken
    <3>2. start' = start /\ pair' = pair /\ c' = stepInstruction(c)
      BY <2>2 DEF Step
    <3>. QED  BY <3>1, <3>2 DEF StepsTaken
  <2>. QED  BY <2>1, <2>2 DEF Next
<1>. QED  BY <1>1, <1>2, PTL DEF Spec

(* Every pair gives back what it took: for every CPU state, every value of   *)
(* the registers and the operand, wherever the stack pointer wraps.          *)
THEOREM PairsUndo ==
    ASSUME NEW Contents, Legal(Contents), LowRam(Contents)
    PROVE  Spec => []PairUndoes
<1>1. StepsTaken => PairUndoes
  <2> SUFFICES ASSUME StepsTaken, done = 2, pair PROVE PairUndoes
    BY DEF PairUndoes
  <2>1. start \in PairStarts /\ c = stepInstruction(stepInstruction(start))
    BY DEF StepsTaken
  <2>2. start \in Cpus(Contents) /\ HoldsBytes(Contents) /\ AtPair(start)
    BY <2>1, PairAssumption DEF Legal
  <2> DEFINE i == FetchedInsn(start)
             j == FetchedInsn(stepInstruction(start))
  <2>3. \/ <<i, j>> \in StackPairs
        \/ <<i, j>> \in RegisterPairs
        \/ <<i, j>> = <<"jsr", "rts">>
        \/ <<i, j>> \in OperandPairs /\ SameOperand(start, stepInstruction(start))
    BY <2>2 DEF AtPair
  <2>4. Undone(start, stepInstruction(stepInstruction(start)))
    BY <2>2, <2>3, StackPairUndoes, RegisterPairUndoes, CallUndoes, OperandPairUndoes
  <2>5. Undone(start, c)
    BY <2>1, <2>4
  <2>6. \A address \in Watched : address \in OffStack
    BY WatchedAssumption DEF OffStack
  <2>. QED  BY <2>5, <2>6 DEF Undone, SameControl, PairUndoes
<1>. QED  BY <1>1, StepsInvariant, PTL
=============================================================================
