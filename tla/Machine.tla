------------------------------- MODULE Machine -------------------------------
(* The whole of six5c02::CPU: the instructions of Cpu.tla under the run      *)
(* control of six5c02.cpp, executing a program from memory while clients     *)
(* call step(), exec(), irq(), nmi() and reset(), from outside or from the   *)
(* loop callback. It implements RunControl.tla, which knows of instructions  *)
(* only what they cost.                                                      *)
EXTENDS Cpu

CONSTANTS
    Memories,        \* what the memory controller may hold at first
    Entries,         \* the addresses clients pass to setPC()
    ClockMod,        \* clockticks, clockgoal and instructions count modulo this
    Budgets,         \* the tickcount arguments clients pass to exec()
    MaxNesting,      \* bound: calls that may be in progress at once
    MaxClock,        \* bound: clients make no call that sets the clock or the goal beyond
    MaxSignals       \* bound: calls of irq(), nmi(), reset() and setPC() in all

ASSUME MachineAssumption ==
    /\ Entries \subseteq Word
    /\ ClockMod \in Nat \ {0}
    /\ Budgets \subseteq 0..(ClockMod - 1)
    /\ MaxNesting \in Nat
    /\ MaxClock \in Nat

VARIABLES
    c,               \* the CPU record of Cpu.tla
    hasCallback, clockticks, clockgoal, instructions,
    frames,          \* the calls in progress, as in RunControl.tla
    interrupted,     \* history: the contexts that running handlers return to
    signals          \* calls of irq(), nmi(), reset() and setPC() so far

client == <<hasCallback, clockgoal, frames>>
vars == <<c, hasCallback, clockticks, clockgoal, instructions, frames, interrupted,
          signals>>

Init ==
    /\ \E mem \in Memories : c = [init(mem) EXCEPT !.hasMem = FALSE]
    /\ hasCallback = FALSE
    /\ clockticks = 0
    /\ clockgoal = 0
    /\ instructions = 0
    /\ frames = <<>>
    /\ interrupted = <<>>
    /\ signals = 0

-----------------------------------------------------------------------------
(* stepInstruction() and the interrupts                                      *)

Advance(clock, ticks) == (clock + ticks) % ClockMod

(* What an interrupted program finds again when its handler returns. B is   *)
(* left out: it tells BRK from irq() in the pushed status.                  *)
Context(cpu, pc) ==
    [hasMem |-> cpu.hasMem, pc |-> pc, sp |-> cpu.sp, a |-> cpu.a, x |-> cpu.x, y |-> cpu.y,
     status |-> cpu.status \ {"B"}]

Runs(insn) == RunsValid(c) /\ FetchedInsn(c) = insn

StepInstruction(valid) ==
    /\ valid = RunsValid(c)
    /\ c' = [Settled(stepInstruction(c)) EXCEPT !.ticks = 0]
    /\ clockticks' = Advance(clockticks, stepInstruction(c).ticks)
    /\ instructions' = Advance(instructions, IF valid THEN 1 ELSE 0)
    /\ interrupted' =
         IF Runs("brk") THEN <<Context(Fetch(c), U16(c.pc + 2))>> \o interrupted
         ELSE IF Runs("rti") /\ interrupted # <<>> THEN Tail(interrupted)
         ELSE interrupted

ClientHasControl == frames # <<>> => Head(frames).at = "callback"

Interrupt ==
    /\ ClientHasControl
    /\ signals < MaxSignals
    /\ signals' = signals + 1
    /\ c' \in {irq(c), nmi(c)}
    /\ interrupted' = <<Context(c, c.pc)>> \o interrupted
    /\ UNCHANGED <<client, clockticks, instructions>>

(* reset() abandons whatever was running, but not the calls in progress.    *)
Reset ==
    /\ ClientHasControl
    /\ c.hasMem
    /\ signals < MaxSignals
    /\ signals' = signals + 1
    /\ c' = reset(c)
    /\ interrupted' = <<>>
    /\ UNCHANGED <<client, clockticks, instructions>>

(* So does setPC(), which leaves the registers and the stack as they are.   *)
SetPC ==
    /\ ClientHasControl
    /\ signals < MaxSignals
    /\ signals' = signals + 1
    /\ \E addr \in Entries : c' = [c EXCEPT !.pc = addr]
    /\ interrupted' = <<>>
    /\ UNCHANGED <<client, clockticks, instructions>>

(* Clients provide a controller; RunControl.tla also lets them remove it.   *)
SetMemoryController ==
    /\ ClientHasControl
    /\ c' = [c EXCEPT !.hasMem = TRUE]
    /\ UNCHANGED <<client, clockticks, instructions, interrupted, signals>>

SetLoopCallback ==
    /\ ClientHasControl
    /\ hasCallback' \in BOOLEAN
    /\ UNCHANGED <<c, clockticks, clockgoal, instructions, frames, interrupted, signals>>

-----------------------------------------------------------------------------
(* step() and exec()                                                         *)

Disturbed == IF frames = <<>> THEN frames ELSE [frames EXCEPT ![1].alone = FALSE]

Enter(fn, at, valid, due) ==
    /\ Len(frames) < MaxNesting
    /\ frames' = <<[fn |-> fn, at |-> at, valid |-> valid, due |-> due,
                    ran |-> FALSE, alone |-> TRUE]>> \o Disturbed

(* Either call while WAI waits: time passes.                                *)
Wait(tickcount) ==
    /\ ClientHasControl
    /\ c.waiting
    /\ clockticks + tickcount <= MaxClock
    /\ clockticks' = Advance(clockticks, tickcount)
    /\ clockgoal' = clockticks'
    /\ frames' = Disturbed
    /\ UNCHANGED <<c, hasCallback, instructions, interrupted, signals>>

Step ==
    /\ ClientHasControl
    /\ ~c.waiting
    /\ clockticks < MaxClock
    /\ \E valid \in BOOLEAN :
         /\ StepInstruction(valid)
         /\ IF hasCallback
              THEN Enter("step", "callback", valid, clockticks)
              ELSE frames' = Disturbed
    /\ clockgoal' = clockticks'
    /\ UNCHANGED <<hasCallback, signals>>

\* Slip: the budget is not added to the goal.
ExecCall_GoalKept(tickcount) ==
    /\ ClientHasControl
    /\ ~c.waiting
    /\ clockgoal + tickcount <= MaxClock
    /\ Enter("exec", "loop", TRUE, clockticks + tickcount)
    /\ UNCHANGED <<c, hasCallback, clockticks, clockgoal, instructions, interrupted, signals>>

ExecCall(tickcount) ==
    /\ ClientHasControl
    /\ ~c.waiting
    /\ clockgoal + tickcount <= MaxClock
    /\ clockgoal' = Advance(clockgoal, tickcount)
    /\ Enter("exec", "loop", TRUE, clockticks + tickcount)
    /\ UNCHANGED <<c, hasCallback, clockticks, instructions, interrupted, signals>>

InExecLoop == frames # <<>> /\ Head(frames).fn = "exec" /\ Head(frames).at = "loop"
LoopCondition == Head(frames).valid /\ ~c.stopped /\ clockticks < clockgoal

ExecIterate ==
    /\ InExecLoop
    /\ LoopCondition
    /\ \E valid \in BOOLEAN :
         /\ StepInstruction(valid)
         /\ frames' = [frames EXCEPT
              ![1].valid = valid,
              ![1].ran = @ \/ valid,
              ![1].at = IF valid /\ hasCallback THEN "callback" ELSE "loop"]
    /\ UNCHANGED <<hasCallback, clockgoal, signals>>

ExecReturn ==
    /\ InExecLoop
    /\ ~LoopCondition
    /\ frames' = Tail(frames)
    /\ UNCHANGED <<c, hasCallback, clockticks, clockgoal, instructions, interrupted, signals>>

CallbackReturn ==
    /\ frames # <<>>
    /\ Head(frames).at = "callback"
    /\ frames' = IF Head(frames).fn = "exec"
                   THEN [frames EXCEPT ![1].at = "loop"]
                   ELSE Tail(frames)
    /\ UNCHANGED <<c, hasCallback, clockticks, clockgoal, instructions, interrupted, signals>>

Next ==
    \/ SetMemoryController
    \/ SetLoopCallback
    \/ Reset
    \/ SetPC
    \/ Interrupt
    \/ Step
    \/ \E tickcount \in Budgets \union {1} : Wait(tickcount)
    \/ \E tickcount \in Budgets : ExecCall(tickcount)
    \/ ExecIterate
    \/ ExecReturn
    \/ CallbackReturn

Spec == Init /\ [][Next]_vars

-----------------------------------------------------------------------------
(* Properties                                                                *)

(* Registers keep their C++ width through every instruction, stack          *)
(* operation and interrupt, and the clock its 32 bits.                       *)
TypeOK ==
    /\ c.pc \in Word
    /\ c.sp \in Byte /\ c.a \in Byte /\ c.x \in Byte /\ c.y \in Byte
    /\ c.status \subseteq Flags
    /\ c.waiting \in BOOLEAN /\ c.stopped \in BOOLEAN
    /\ clockticks \in 0..(ClockMod - 1)
    /\ instructions \in 0..(ClockMod - 1)

(* The run control of RunControl.tla: each program step costs what an       *)
(* instruction may cost there, and changes waiting, stopped and the I flag  *)
(* as it may there. STP and WAI aside, instructions take 2 to 7 ticks.      *)
RC == INSTANCE RunControl WITH
        hasMem <- c.hasMem, waiting <- c.waiting, stopped <- c.stopped,
        interrupt <- "I" \in c.status,
        InsnTicks <- 2..7, WaiTicks <- 3, StpTicks <- 1, MaxTicks <- 7

ImplementsRunControl == RC!Spec

(* A handler that keeps the registers it uses is invisible: RTI takes the   *)
(* program back to the context that irq(), nmi() or BRK interrupted,        *)
(* wherever the interrupt fell, however handlers nest and also when the     *)
(* stack wraps, provided there was a memory to push it to.                  *)
HandlerReturns ==
    /\ Runs("rti")
    /\ instructions' # instructions
    /\ interrupted # <<>>
    /\ Head(interrupted).hasMem

HandlersAreInvisible ==
    [][ HandlerReturns => Context(c', c'.pc) = Head(interrupted) ]_vars

(* The return address and the status of a context, in its frame on the stack. *)
Holds(mem, context) ==
    LET frame == Frame(mem, context.sp)
    IN  /\ Word16(frame[2], frame[1]) = context.pc
        /\ StatusOf(frame[3]) \ {"B"} = context.status

(* However handlers nest, and also where the stack wraps within a frame,    *)
(* what each of them has to return to is on the stack until it returns: the *)
(* bytes of push16() and push8(), B aside.                                  *)
FramesKept ==
    \A n \in DOMAIN interrupted :
        interrupted[n].hasMem => c.hasMem /\ Holds(c.mem, interrupted[n])

(* What the programmer of a handler owes: nothing overwrites the frame of a *)
(* handler in progress, and RTI is run with the registers as they were      *)
(* found and the stack pointer right below the frame.                       *)
HandlerBehaves ==
    /\ \A n \in DOMAIN interrupted :
         interrupted[n].hasMem =>
           Frame(c'.mem, interrupted[n].sp) = Frame(c.mem, interrupted[n].sp)
    /\ HandlerReturns =>
         LET found == Head(interrupted)
         IN  /\ c.sp = U8(found.sp - 3)
             /\ c.a = found.a /\ c.x = found.x /\ c.y = found.y

(* The emulated handlers keep to it: every push and pull moves the stack    *)
(* pointer by what it has moved, so that PHA and PLA, PHX and PLX balance   *)
(* around every interrupt, and none reaches into a frame.                   *)
HandlersBehave == [][HandlerBehaves]_vars
=============================================================================
