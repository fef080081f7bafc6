------------------------------ MODULE Bbmachine ------------------------------
(* runBinary() of src/bbmachine/main.cpp: load a program file, reset the     *)
(* CPU of Cpu.tla and step it until it has stopped, on the memory and the    *)
(* console of Console.tla. The clock, which nothing here depends on, is      *)
(* RunControl's and left out.                                                *)
EXTENDS Cpu, Console

CONSTANTS
    Files,          \* the program files
    Output(_),      \* the lines that a file's program is written to print
    KeepsY          \* the routines that leave Y alone, at their addresses

VARIABLES
    phase,     \* where runBinary() is
    c,         \* the CPU; c.mem is the Memory4816 object
    calls      \* history: where the subroutine calls in progress return to

vars == <<phase, c, calls>>

startAddr == 1024    \* $0400

Init ==
    /\ phase = "load"
    /\ \E file \in Files : c = [init(fillMem(file)) EXCEPT !.hasMem = FALSE]
    /\ calls = <<>>

Load ==
    /\ phase = "load"
    /\ phase' = IF Loads(c.mem.file) THEN "reset" ELSE "failed"
    /\ UNCHANGED <<c, calls>>

(* setMemoryController(), reset() and setPC()                               *)
ResetAndStart ==
    /\ phase = "reset"
    /\ phase' = "running"
    /\ c' = [reset([c EXCEPT !.hasMem = TRUE]) EXCEPT !.pc = startAddr]
    /\ UNCHANGED calls

Runs(insn) == ~c.waiting /\ RunsValid(c) /\ FetchedInsn(c) = insn

Stepped == IF c.waiting THEN c ELSE [Settled(stepInstruction(c)) EXCEPT !.ticks = 0]

(* step(), which only waits once WAI has been run, and isStopped()          *)
Step ==
    /\ phase = "running"
    /\ c' = Stepped
    /\ phase' = IF c'.stopped THEN "stopped" ELSE "running"
    /\ calls' = IF Runs("jsr")
                  THEN <<[routine |-> c'.pc, pc |-> U16(c.pc + 3),
                          sp |-> c.sp, x |-> c.x, y |-> c.y]>> \o calls
                ELSE IF Runs("rts") THEN Tail(calls)
                ELSE calls

Next == Load \/ ResetAndStart \/ Step

(* runBinary() is sequential code: it goes on as long as it can. The last   *)
(* conjunct is WF_vars(Step), with ENABLED <<Step>>_vars written out for TLC. *)
Fairness ==
    /\ WF_vars(Load)
    /\ WF_vars(ResetAndStart)
    /\ <>[](phase = "running" /\ Stepped # c) => []<><<Step>>_vars

Spec == Init /\ [][Next]_vars /\ Fairness

-----------------------------------------------------------------------------

(* Registers and memory hold what fits, whatever the program stores and     *)
(* however long a line it prints.                                           *)
TypeOK ==
    /\ c.pc \in Word
    /\ c.sp \in Byte /\ c.a \in Byte /\ c.x \in Byte /\ c.y \in Byte
    /\ c.status \subseteq Flags
    /\ \A address \in DOMAIN c.mem.m_mem :
         address <= ramEnd /\ c.mem.m_mem[address] \in Byte
    /\ c.mem.m_idx \in 0..(BufSize - 2)

(* Program, ROM routines, CPU and console together: what stdout has when    *)
(* the program stops is what it was written to print, line by line. This    *)
(* takes the product of mult8x8, the digits of printhexbyte, lines up to    *)
(* the longest that Y can index, and a ROM that stores do not change.       *)
PrintsItsOutput ==
    phase = "stopped" => c.mem.printed = Output(c.mem.file)

(* A subroutine returns to the instruction behind its call, with the stack  *)
(* and X as they were, and Y too unless it is one of those that index a     *)
(* string with it (rom.s: "Uses A,Y", against "Uses A").                    *)
RoutinesReturn ==
    [][ phase = "running" /\ Runs("rts")
          => LET call == Head(calls)
             IN  /\ c'.pc = call.pc
                 /\ c'.sp = call.sp
                 /\ c'.x = call.x
                 /\ call.routine \in KeepsY => c'.y = call.y ]_vars

(* The stack below a call holds its return address until it returns: no     *)
(* store, push or other call of the program reaches it.                     *)
ReturnsKept ==
    \A n \in DOMAIN calls : U16(ReturnAddress(c.mem, calls[n].sp) + 1) = calls[n].pc

(* What the calls in progress owe their callers, one step at a time: no     *)
(* step writes over a return address, and a routine that ends has taken off *)
(* the stack what it put there and holds in X and Y what it was called with. *)
RoutineBehaves ==
    /\ \A n \in DOMAIN calls :
         ReturnAddress(c'.mem, calls[n].sp) = ReturnAddress(c.mem, calls[n].sp)
    /\ phase = "running" /\ Runs("rts")
         => /\ calls # <<>>
            /\ c.sp = U8(Head(calls).sp - 2)
            /\ c.x = Head(calls).x
            /\ Head(calls).routine \in KeepsY => c.y = Head(calls).y

RoutinesBehave == [][RoutineBehaves]_vars

(* runBinary() returns, unless the program waits: nothing in the bbmachine  *)
(* interrupts it, and its loop spins for ever.                              *)
Ends == phase = "load" ~> phase \in {"stopped", "failed"} \/ c.waiting
=============================================================================
