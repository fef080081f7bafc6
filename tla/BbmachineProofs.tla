--------------------------- MODULE BbmachineProofs ---------------------------
(* The bbmachine's memory and console keep the CPU's promises about memory,   *)
(* so that the lemmas of CpuProofs.tla hold of any program file it runs.     *)
EXTENDS Bbmachine, CpuProofs

(* The controller is the Memory4816 object, and files hold bytes.            *)
RunsOnMemory4816 ==
    /\ \A m, address : ReadMem(m, address) = readMem(m, address)
    /\ \A m, address, value : WriteMem(m, address, value) = writeMem(m, address, value)

FilesHoldBytes ==
    \A file \in Files :
        /\ FileSize(file) \in Nat
        /\ \A address \in Word : address < FileSize(file) => Image(file, address) \in Byte

-----------------------------------------------------------------------------
(* The object                                                                *)

Ram == 0..ramEnd
Rams == UNION {[written -> Byte] : written \in SUBSET Ram}
Buffers == [0..(BufSize - 1) -> Byte]

(* A line of stdout is the text that was in the buffer.                      *)
Text(buf) == [i \in 1..FirstZero(buf) |-> buf[i - 1]]
Texts == {Text(buf) : buf \in Buffers}

(* Its members: bytes below ROM, and an index with room for a zero behind.   *)
Objects ==
    [file : Files, m_mem : Rams, m_buf : Buffers, m_idx : 0..(BufSize - 2),
     printed : Seq(Texts)]

(* A new object, with a program file in it.                                  *)
LEMMA LoadedObject == ASSUME NEW file \in Files PROVE fillMem(file) \in Objects
<1> DEFINE none == [address \in {} |-> 0]
           zeros == [i \in 0..(BufSize - 1) |-> 0]
<1>1. 0 \in Byte
  BY ByteRange, SMT
<1>2. zeros \in Buffers
  BY <1>1 DEF Buffers
<1>3. none \in Rams
  BY <1>1 DEF Rams
<1>4. 0 \in 0..(BufSize - 2)
  BY BufSizeAssumption
<1>5. fillMem(file) = [file |-> file, m_mem |-> none, m_buf |-> zeros, m_idx |-> 0,
                       printed |-> <<>>]
  BY Zenon DEF fillMem
<1> HIDE DEF none, zeros
<1>. QED  BY <1>2, <1>3, <1>4, <1>5 DEF Objects

(* A read gives a byte, of RAM, of the file, or of the NOPs behind it.       *)
LEMMA ReadsByte ==
    ASSUME FilesHoldBytes, NEW m \in Objects, NEW address \in Word
    PROVE  readMem(m, address) \in Byte
<1>1. m.file \in Files /\ m.m_mem \in Rams
  BY DEF Objects
<1>2. CASE address \in DOMAIN m.m_mem
  BY <1>1, <1>2 DEF readMem, Rams
<1>3. CASE address \notin DOMAIN m.m_mem
  <2>1. NOP \in Byte
    BY ByteRange, SMT DEF NOP
  <2>2. address < FileSize(m.file) => Image(m.file, address) \in Byte
    BY <1>1 DEF FilesHoldBytes
  <2>. QED  BY <1>3, <2>1, <2>2, Zenon DEF readMem
<1>. QED  BY <1>2, <1>3

(* A byte stored in RAM.                                                     *)
LEMMA StoresByte ==
    ASSUME NEW m \in Objects, NEW address \in Ram, NEW value \in Byte
    PROVE  Stored(m, address, value) \in Objects
<1> DEFINE written == DOMAIN m.m_mem \union {address}
           after == [at \in written |-> IF at = address THEN value ELSE m.m_mem[at]]
<1>1. PICK before \in SUBSET Ram : m.m_mem \in [before -> Byte]
  BY DEF Objects, Rams
<1>2. written \in SUBSET Ram
  BY <1>1
<1>3. after \in [written -> Byte]
  BY <1>1
<1>4. after \in Rams
  BY <1>2, <1>3, Zenon DEF Rams
<1>5. Stored(m, address, value) = [m EXCEPT !.m_mem = after]
  BY DEF Stored
<1> HIDE DEF after
<1>. QED  BY <1>4, <1>5 DEF Objects

(* Console::write() keeps the index inside of the buffer.                    *)
LEMMA ConsoleKeeps ==
    ASSUME FilesHoldBytes, NEW m \in Objects
    PROVE  print(m) \in Objects /\ clear(m) \in Objects /\ flush(m) \in Objects
<1>1. /\ m.m_idx \in Int /\ 0 <= m.m_idx /\ m.m_idx <= BufSize - 2
      /\ m.m_buf \in Buffers
  BY BufSizeAssumption DEF Objects
<1>2. 0 \in Byte /\ CONS_DATA1 \in Word
  BY ByteRange, WordRange, SMT DEF CONS_DATA1
<1>3. ASSUME NEW buf \in Buffers, NEW idx \in 0..(BufSize - 2)
      PROVE  [m EXCEPT !.m_buf = buf, !.m_idx = idx] \in Objects
  BY <1>3 DEF Objects
<1>4. print(m) \in Objects
  <2> DEFINE next == m.m_idx + 1
             byte == readMem(m, CONS_DATA1)
             buf == [m.m_buf EXCEPT ![m.m_idx] = byte, ![next] = 0]
             idx == IF next = BufSize - 1 THEN next - 1 ELSE next
  <2>1. byte \in Byte
    BY <1>2, ReadsByte
  <2>2. idx \in 0..(BufSize - 2)
    BY <1>1, BufSizeAssumption
  <2>3. print(m) = [m EXCEPT !.m_buf = buf, !.m_idx = idx]
    BY Zenon DEF print
  <2> HIDE DEF byte, next
  <2>4. buf \in Buffers
    BY <1>1, <1>2, <2>1 DEF Buffers
  <2> HIDE DEF buf, idx
  <2>. QED  BY <1>3, <2>2, <2>3, <2>4, Zenon
<1>5. ASSUME NEW o \in Objects PROVE clear(o) \in Objects
  <2> DEFINE buf == [o.m_buf EXCEPT ![0] = 0]
             start == 0
  <2>1. buf \in Buffers
    BY <1>2, <1>5 DEF Objects, Buffers
  <2>2. start \in 0..(BufSize - 2)
    BY BufSizeAssumption
  <2>3. clear(o) = [o EXCEPT !.m_buf = buf, !.m_idx = start]
    BY <1>5 DEF clear, Objects
  <2> HIDE DEF buf, start
  <2>. QED  BY <1>5, <2>1, <2>2, <2>3 DEF Objects
<1>6. flush(m) \in Objects
  <2> DEFINE text == Text(m.m_buf)
             lines == Append(m.printed, text)
  <2>1. text \in Texts
    BY <1>1 DEF Texts
  <2>2. m.printed \in Seq(Texts)
    BY DEF Objects
  <2> HIDE DEF text
  <2>3. lines \in Seq(Texts)
    BY <2>1, <2>2
  <2>4. flush(m) = clear([m EXCEPT !.printed = lines])
    BY Zenon DEF flush, text, Text
  <2> HIDE DEF lines
  <2>5. [m EXCEPT !.printed = lines] \in Objects
    BY <2>3 DEF Objects
  <2>. QED  BY <1>5, <2>4, <2>5
<1>. QED  BY <1>4, <1>5, <1>6

(* What the declarations of IMemoryController promise holds of Memory4816.   *)
LEMMA Memory4816HoldsBytes ==
    ASSUME RunsOnMemory4816, FilesHoldBytes
    PROVE  HoldsBytes(Objects)
<1>1. ASSUME NEW m \in Objects, NEW address \in Word PROVE ReadMem(m, address) \in Byte
  BY ReadsByte DEF RunsOnMemory4816
<1>2. ASSUME NEW m \in Objects, NEW address \in Word, NEW value \in Byte
      PROVE  WriteMem(m, address, value) \in Objects
  <2>1. CONS_CTRL \in Ram /\ CONS_DATA1 \in Ram
    BY SMT DEF CONS_CTRL, CONS_DATA1, Ram, ramEnd
  <2>2. CASE address \in {CONS_CTRL, CONS_DATA1}
    <3> DEFINE o == Stored(m, address, value)
    <3>1. o \in Objects
      BY <2>1, <2>2, StoresByte
    <3>2. writeMem(m, address, value) = write(o, address)
      BY <2>2, Zenon DEF writeMem
    <3> HIDE DEF o
    <3>3. write(o, address) \in {o, print(o), flush(o), clear(o)}
      BY Zenon DEF write
    <3>. QED  BY <3>1, <3>2, <3>3, ConsoleKeeps DEF RunsOnMemory4816
  <2>3. CASE address \notin {CONS_CTRL, CONS_DATA1} /\ address <= ramEnd
    <3>1. address \in Ram
      <4> DEFINE top == ramEnd
      <4>1. top \in Nat
        BY SMT DEF ramEnd
      <4>2. address \in Nat /\ address <= top
        BY <2>3, WordRange
      <4> HIDE DEF top
      <4>3. address \in 0..top
        BY <4>1, <4>2, SMT
      <4>. QED  BY <4>3, Zenon DEF Ram, top
    <3>2. writeMem(m, address, value) = Stored(m, address, value)
      BY <2>3, Zenon DEF writeMem
    <3>. QED  BY <3>1, <3>2, StoresByte DEF RunsOnMemory4816
  <2>4. CASE address \notin {CONS_CTRL, CONS_DATA1} /\ ~(address <= ramEnd)
    <3>1. writeMem(m, address, value) = m
      BY <2>4, Zenon DEF writeMem
    <3>. QED  BY <3>1 DEF RunsOnMemory4816
  <2>. QED  BY <2>2, <2>3, <2>4
<1>. QED  BY <1>1, <1>2 DEF HoldsBytes

(* The first two pages are RAM, and not the console's.                       *)
LEMMA Memory4816LowRam ==
    ASSUME RunsOnMemory4816
    PROVE  LowRam(Objects)
<1> SUFFICES ASSUME NEW mem \in Objects, NEW at \in LowPages, NEW value \in Byte,
                    NEW address \in Word
             PROVE  readMem(writeMem(mem, at, value), address)
                      = IF address = at THEN value ELSE readMem(mem, address)
  BY DEF LowRam, RunsOnMemory4816
<1>1. at <= ramEnd /\ at \notin {CONS_CTRL, CONS_DATA1}
  BY SMT DEF LowPages, ramEnd, CONS_CTRL, CONS_DATA1
<1> DEFINE before == mem.m_mem
           after == [a \in DOMAIN before \union {at} |-> IF a = at THEN value ELSE before[a]]
           m == [mem EXCEPT !.m_mem = after]
<1>2. writeMem(mem, at, value) = m
  BY <1>1, Zenon DEF writeMem, Stored
<1>3. m.m_mem = after /\ m.file = mem.file
  BY DEF Objects
<1> HIDE DEF m
<1>4. CASE address = at
  <2>1. readMem(m, address) = value
    BY <1>3, <1>4 DEF readMem
  <2>. QED  BY <1>2, <1>4, <2>1
<1>5. CASE address # at
  <2>1. /\ address \in DOMAIN m.m_mem <=> address \in DOMAIN mem.m_mem
        /\ address \in DOMAIN mem.m_mem => m.m_mem[address] = mem.m_mem[address]
    BY <1>3, <1>5
  <2>2. readMem(m, address) = readMem(mem, address)
    BY <1>3, <2>1, Zenon DEF readMem
  <2>. QED  BY <1>2, <1>5, <2>2
<1>. QED  BY <1>4, <1>5

(* The stack page is the second of them.                                     *)
LEMMA Memory4816KeepsStack ==
    ASSUME RunsOnMemory4816
    PROVE  KeepsStack(Objects)
BY Memory4816LowRam, LowRamKeepsStack

-----------------------------------------------------------------------------
(* runBinary()                                                               *)

CpuInv == c \in Cpus(Objects)

(* From the constructed CPU on, through reset() and every step.              *)
LEMMA CpuInvariant ==
    ASSUME RunsOnMemory4816, FilesHoldBytes
    PROVE  Spec => []CpuInv
<1>0. HoldsBytes(Objects)
  BY Memory4816HoldsBytes
<1>1. Init => CpuInv
  <2> SUFFICES ASSUME NEW file \in Files, c = [init(fillMem(file)) EXCEPT !.hasMem = FALSE]
               PROVE  CpuInv
    BY DEF Init
  <2> DEFINE new == init(fillMem(file))
  <2>1. new \in Cpus(Objects)
    BY LoadedObject, InitCpu
  <2> HIDE DEF new
  <2>2. [new EXCEPT !.hasMem = FALSE] \in Cpus(Objects)
    BY <2>1 DEF Cpus
  <2>. QED  BY <2>2, Zenon DEF CpuInv, new
<1>2. CpuInv /\ [Next]_vars => CpuInv'
  <2> SUFFICES ASSUME c \in Cpus(Objects), [Next]_vars PROVE c' \in Cpus(Objects)
    BY DEF CpuInv
  <2>1. CASE Load \/ UNCHANGED vars
    BY <2>1 DEF Load, vars
  <2>2. CASE ResetAndStart
    <3> DEFINE with == [c EXCEPT !.hasMem = TRUE]
               d == reset(with)
    <3>1. with \in Cpus(Objects)
      BY DEF Cpus
    <3> HIDE DEF with
    <3>2. d \in Cpus(Objects)
      BY <1>0, <3>1, ResetType
    <3>3. startAddr \in Word
      BY WordRange, SMT DEF startAddr
    <3>4. c' = [d EXCEPT !.pc = startAddr]
      BY <2>2, Zenon DEF ResetAndStart, with
    <3> HIDE DEF d
    <3>. QED  BY <3>2, <3>3, <3>4 DEF Cpus
  <2>3. CASE Step
    <3> DEFINE d == stepInstruction(c)
    <3>1. c' = c \/ c' = [Settled(d) EXCEPT !.ticks = 0]
      BY <2>3, Zenon DEF Step, Stepped
    <3>2. d \in Cpus(Objects)
      BY <1>0, StepType
    <3> HIDE DEF d
    <3>3. [Settled(d) EXCEPT !.ticks = 0] \in Cpus(Objects)
      BY <3>2, SettledType
    <3>. QED  BY <3>1, <3>3
  <2>. QED  BY <2>1, <2>2, <2>3 DEF Next
<1>. QED  BY <1>1, <1>2, PTL DEF Spec

(* Whatever the program file does, registers keep their width, RAM holds     *)
(* bytes and ROM is not written, and the console stays inside of its buffer. *)
THEOREM MachineHolds ==
    ASSUME RunsOnMemory4816, FilesHoldBytes
    PROVE  Spec => []TypeOK
<1>1. CpuInv => TypeOK
  <2> SUFFICES ASSUME c \in Cpus(Objects) PROVE TypeOK
    BY DEF CpuInv
  <2>1. /\ c.pc \in Word /\ c.sp \in Byte /\ c.a \in Byte /\ c.x \in Byte /\ c.y \in Byte
        /\ c.status \subseteq Flags /\ c.mem \in Objects
    BY DEF Cpus
  <2>2. c.mem.m_idx \in 0..(BufSize - 2) /\ c.mem.m_mem \in Rams
    BY <2>1 DEF Objects
  <2>3. \A address \in DOMAIN c.mem.m_mem :
          address <= ramEnd /\ c.mem.m_mem[address] \in Byte
    <3>1. PICK written \in SUBSET Ram : c.mem.m_mem \in [written -> Byte]
      BY <2>2 DEF Rams
    <3> DEFINE top == ramEnd
    <3>2. top \in Nat
      BY SMT DEF ramEnd
    <3>3. Ram = 0..top
      BY DEF Ram
    <3> HIDE DEF top
    <3>4. \A address \in Ram : address <= top
      BY <3>2, <3>3
    <3>. QED  BY <3>1, <3>4 DEF top
  <2>. QED  BY <2>1, <2>2, <2>3 DEF TypeOK
<1>. QED  BY <1>1, CpuInvariant, PTL

-----------------------------------------------------------------------------
(* Subroutines                                                               *)

(* A call in progress.                                                       *)
Calls == [routine : Word, pc : Word, sp : Byte, x : Byte, y : Byte]

(* What RTS finds on the stack is the address that JSR pushed; the CPU that  *)
(* executes them has its memory.                                             *)
CallsInv ==
    /\ CpuInv
    /\ phase = "running" => c.hasMem
    /\ calls \in Seq(Calls)
    /\ ReturnsKept

(* Runs(insn) of the CPU that is stepped.                                    *)
LEMMA RunsStep ==
    ASSUME NEW insn, Runs(insn), Step
    PROVE  RunsValid(c) /\ FetchedInsn(c) = insn /\ c' = AfterStep(c)
BY Zenon DEF Runs, Step, Stepped, AfterStep

(* JSR adds a call, RTS ends the last, and nothing else changes them.        *)
LEMMA StepKeepsReturns ==
    ASSUME RunsOnMemory4816, FilesHoldBytes, CallsInv, Step, RoutineBehaves
    PROVE  calls' \in Seq(Calls) /\ ReturnsKept'
<1>0. /\ HoldsBytes(Objects) /\ KeepsStack(Objects)
      /\ c \in Cpus(Objects) /\ c.hasMem
      /\ calls \in Seq(Calls) /\ ReturnsKept
  BY Memory4816HoldsBytes, Memory4816KeepsStack DEF CallsInv, CpuInv, Step
<1>1. \A n \in DOMAIN calls :
        ReturnAddress(c'.mem, calls[n].sp) = ReturnAddress(c.mem, calls[n].sp)
  BY DEF RoutineBehaves
<1>2. \A n \in DOMAIN calls : U16(ReturnAddress(c'.mem, calls[n].sp) + 1) = calls[n].pc
  BY <1>0, <1>1, Zenon DEF ReturnsKept
<1>3. c' \in Cpus(Objects)
  BY <1>0, StepType, SettledType, Zenon DEF Step, Stepped
<1>4. CASE Runs("jsr")
  <2> DEFINE call == [routine |-> c'.pc, pc |-> U16(c.pc + 3), sp |-> c.sp,
                      x |-> c.x, y |-> c.y]
  <2>1. RunsValid(c) /\ FetchedInsn(c) = "jsr" /\ c' = AfterStep(c)
    BY <1>4, RunsStep
  <2>2. ReturnAddress(c'.mem, c.sp) = U16(c.pc + 2)
    BY <1>0, <2>1, JsrPushes
  <2>3. U16(U16(c.pc + 2) + 1) = U16(c.pc + 3) /\ U16(c.pc + 3) \in Word
    <3>1. c.pc \in Nat /\ c.pc < 65536
      BY <1>0, WordRange DEF Cpus
    <3>2. U16(U16(c.pc + 2) + 1) = U16(c.pc + 3)
      BY <3>1, SMT DEF U16
    <3>. QED  BY <3>1, <3>2, U16Type
  <2>4. call \in Calls
    BY <1>0, <1>3, <2>3 DEF Calls, Cpus
  <2>5. U16(ReturnAddress(c'.mem, call.sp) + 1) = call.pc
    BY <2>2, <2>3
  <2>6. calls' = <<call>> \o calls
    BY <1>4, Zenon DEF Step
  <2> HIDE DEF call
  <2>7. calls' \in Seq(Calls)
    BY <1>0, <2>4, <2>6
  <2>8. ASSUME NEW n \in DOMAIN calls'
        PROVE  calls'[n] = call \/ \E m \in DOMAIN calls : calls'[n] = calls[m]
    BY <1>0, <2>4, <2>6, <2>8
  <2>. QED  BY <1>2, <2>5, <2>7, <2>8 DEF ReturnsKept
<1>5. CASE Runs("rts")
  <2>1. calls' = Tail(calls)
    <3>1. ~Runs("jsr")
      BY <1>5 DEF Runs
    <3>. QED  BY <1>5, <3>1, Zenon DEF Step
  <2>2. calls # <<>>
    BY <1>5, Zenon DEF RoutineBehaves, Step
  <2>3. calls' \in Seq(Calls)
    BY <1>0, <2>1, <2>2
  <2>4. ASSUME NEW n \in DOMAIN calls' PROVE n + 1 \in DOMAIN calls /\ calls'[n] = calls[n + 1]
    BY <1>0, <2>1, <2>2, <2>4
  <2>. QED  BY <1>2, <2>3, <2>4 DEF ReturnsKept
<1>6. CASE ~Runs("jsr") /\ ~Runs("rts")
  <2>1. calls' = calls
    BY <1>6, Zenon DEF Step
  <2>. QED  BY <1>0, <1>2, <2>1 DEF ReturnsKept
<1>. QED  BY <1>4, <1>5, <1>6

(* The invariant holds as long as the routines behave.                       *)
LEMMA CallsNext ==
    ASSUME RunsOnMemory4816, FilesHoldBytes, CallsInv, CpuInv', [Next]_vars,
           [RoutineBehaves]_vars
    PROVE  CallsInv'
<1>0. CpuInv /\ (phase = "running" => c.hasMem) /\ calls \in Seq(Calls) /\ ReturnsKept
  BY DEF CallsInv
<1>1. CASE UNCHANGED vars
  BY <1>0, <1>1 DEF CallsInv, vars, ReturnsKept
<1>2. ASSUME ~UNCHANGED vars, Load PROVE CallsInv'
  BY <1>0, <1>2 DEF Load, CallsInv, ReturnsKept
<1>3. ASSUME ~UNCHANGED vars, RoutineBehaves, ResetAndStart PROVE CallsInv'
  <2>1. calls' = calls
    BY <1>3 DEF ResetAndStart
  <2>2. \A n \in DOMAIN calls : U16(ReturnAddress(c'.mem, calls[n].sp) + 1) = calls[n].pc
    BY <1>0, <1>3, Zenon DEF ReturnsKept, RoutineBehaves
  <2> DEFINE with == [c EXCEPT !.hasMem = TRUE]
             d == reset(with)
  <2>3. with \in Cpus(Objects) /\ with.hasMem
    BY <1>0 DEF CpuInv, Cpus
  <2>4. c' = [d EXCEPT !.pc = startAddr]
    BY <1>3, Zenon DEF ResetAndStart
  <2> HIDE DEF with
  <2>5. d \in Cpus(Objects) /\ d.hasMem
    BY <2>3, Memory4816HoldsBytes, ResetType
  <2> HIDE DEF d
  <2>6. c'.hasMem
    BY <2>4, <2>5 DEF Cpus
  <2>. QED  BY <1>0, <2>1, <2>2, <2>6 DEF CallsInv, ReturnsKept
<1>4. ASSUME ~UNCHANGED vars, RoutineBehaves, Step PROVE CallsInv'
  <2>1. c'.hasMem
    <3>1. c \in Cpus(Objects) /\ c.hasMem /\ HoldsBytes(Objects)
      BY <1>0, <1>4, Memory4816HoldsBytes DEF Step, CpuInv
    <3> DEFINE d == stepInstruction(c)
    <3>2. d \in Cpus(Objects) /\ d.hasMem
      BY <3>1, StepType
    <3> HIDE DEF d
    <3>3. [Settled(d) EXCEPT !.ticks = 0].hasMem
      BY <3>2, SettledType
    <3>. QED  BY <1>4, <3>1, <3>3, Zenon DEF Step, Stepped, d
  <2>2. calls' \in Seq(Calls) /\ ReturnsKept'
    BY <1>4, StepKeepsReturns
  <2>. QED  BY <2>1, <2>2 DEF CallsInv
<1>. QED  BY <1>1, <1>2, <1>3, <1>4 DEF Next

(* From the loaded program on.                                               *)
LEMMA CallsInvariant ==
    ASSUME RunsOnMemory4816, FilesHoldBytes
    PROVE  Spec /\ RoutinesBehave => []CallsInv
<1>1. CpuInv /\ Init => CallsInv
  BY DEF Init, CallsInv, ReturnsKept
<1>2. CallsInv /\ CpuInv' /\ [Next]_vars /\ [RoutineBehaves]_vars => CallsInv'
  BY CallsNext
<1>. QED  BY <1>1, <1>2, CpuInvariant, PTL DEF Spec, RoutinesBehave

(* Nothing writes over the return address of a call in progress, at any      *)
(* depth of calls and wherever the stack pointer wraps.                      *)
THEOREM ReturnsStay ==
    ASSUME RunsOnMemory4816, FilesHoldBytes
    PROVE  Spec /\ RoutinesBehave => []ReturnsKept
<1>1. CallsInv => ReturnsKept
  BY DEF CallsInv
<1>. QED  BY <1>1, CallsInvariant, PTL

(* RTS goes on behind the JSR, with the stack pointer that JSR found and     *)
(* with the registers that the routine owes its caller.                      *)
THEOREM RoutinesGoBack ==
    ASSUME RunsOnMemory4816, FilesHoldBytes
    PROVE  Spec /\ RoutinesBehave => RoutinesReturn
<1> DEFINE Returns ==
             phase = "running" /\ Runs("rts")
               => LET call == Head(calls)
                  IN  /\ c'.pc = call.pc
                      /\ c'.sp = call.sp
                      /\ c'.x = call.x
                      /\ call.routine \in KeepsY => c'.y = call.y
<1>1. CallsInv /\ [Next]_vars /\ [RoutineBehaves]_vars => [Returns]_vars
  <2> SUFFICES ASSUME CallsInv, Next, RoutineBehaves, phase = "running", Runs("rts")
               PROVE  LET call == Head(calls)
                      IN  /\ c'.pc = call.pc
                          /\ c'.sp = call.sp
                          /\ c'.x = call.x
                          /\ call.routine \in KeepsY => c'.y = call.y
    BY Zenon
  <2> DEFINE call == Head(calls)
  <2>1. /\ c \in Cpus(Objects) /\ c.hasMem
        /\ calls \in Seq(Calls) /\ ReturnsKept /\ HoldsBytes(Objects)
    BY Memory4816HoldsBytes DEF CallsInv, CpuInv
  <2>2. /\ calls # <<>> /\ c.sp = U8(call.sp - 2) /\ c.x = call.x
        /\ call.routine \in KeepsY => c.y = call.y
    BY Zenon DEF RoutineBehaves
  <2>3. call \in Calls /\ call = calls[1] /\ 1 \in DOMAIN calls
    BY <2>1, <2>2
  <2>4. U16(ReturnAddress(c.mem, call.sp) + 1) = call.pc /\ call.sp \in Byte
    BY <2>1, <2>3 DEF ReturnsKept, Calls
  <2>5. Step
    BY DEF Next, Load, ResetAndStart
  <2>6. RunsValid(c) /\ FetchedInsn(c) = "rts" /\ c' = AfterStep(c)
    BY <2>5, RunsStep
  <2> HIDE DEF call
  <2>7. /\ c'.pc = U16(ReturnAddress(c.mem, call.sp) + 1)
        /\ c'.sp = call.sp /\ c'.x = c.x /\ c'.y = c.y
    BY <2>1, <2>2, <2>4, <2>6, RtsPulls
  <2>. QED  BY <2>2, <2>4, <2>7 DEF call
<1>. QED  BY <1>1, CallsInvariant, PTL DEF Spec, RoutinesBehave, RoutinesReturn
=============================================================================
