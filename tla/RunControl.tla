----------------------------- MODULE RunControl -----------------------------
(* The run control of six5c02::CPU (src/src/six5c02.cpp): when an           *)
(* instruction runs, what a call to step() or exec() costs on the clock,    *)
(* and how WAI, STP, an illegal opcode, irq(), nmi(), reset() and a loop    *)
(* callback that calls back into the CPU change that.                       *)
(*                                                                          *)
(* What an instruction does to registers and memory is left to Cpu.tla;     *)
(* here it has a cost in clock ticks and an effect on the I flag.           *)
(* Everything is single threaded: the interleaving comes from callbacks,    *)
(* which is why the C++ call stack is part of the state.                    *)
EXTENDS Integers, Sequences

CONSTANTS
    ClockMod,     \* clockticks, clockgoal and instructions count modulo this (2^32)
    InsnTicks,    \* what an instruction other than WAI and STP may cost
    WaiTicks,     \* the table's ticks of WAI
    StpTicks,     \* the table's ticks of STP
    MaxTicks,     \* no instruction costs more (7 in the code)
    Budgets,      \* the tickcount arguments clients pass to exec()
    MaxNesting,   \* bound: calls that may be in progress at once
    MaxClock      \* bound: clients make no call that sets the clock or the goal beyond

ASSUME TicksAssumption ==
    /\ MaxTicks \in Nat
    /\ InsnTicks \subseteq 1..MaxTicks
    /\ InsnTicks # {}
    /\ WaiTicks \in 1..MaxTicks
    /\ StpTicks \in 1..MaxTicks

ASSUME ClockAssumption ==
    /\ ClockMod \in Nat \ {0}
    /\ MaxNesting \in Nat
    /\ MaxClock \in Nat
    /\ Budgets \subseteq 0..(ClockMod - 1)

VARIABLES
    hasMem,        \* m_memCtrl is set
    hasCallback,   \* m_loopCallback is set
    waiting, stopped,
    interrupt,     \* FLAG_INTERRUPT of status
    clockticks, clockgoal, instructions,
    frames         \* the calls in progress, innermost first

config == <<hasMem, hasCallback>>
vars == <<hasMem, hasCallback, waiting, stopped, interrupt,
          clockticks, clockgoal, instructions, frames>>

(* A call in progress: of exec(), about to test its loop condition ("loop") *)
(* or inside the callback, with its local isValid; or of step(), inside the *)
(* callback. The rest is history: due, the clock at which the call's budget *)
(* is used up; ran, whether it has run a valid instruction; and alone, that *)
(* its callback has not called step() or exec() so far.                     *)
Frame == [fn : {"step", "exec"}, at : {"loop", "callback"}, valid : BOOLEAN,
          due : Nat, ran : BOOLEAN, alone : BOOLEAN]

Init ==
    /\ hasMem = FALSE
    /\ hasCallback = FALSE
    /\ waiting = FALSE
    /\ stopped = FALSE
    /\ interrupt = FALSE
    /\ clockticks = 0
    /\ clockgoal = 0
    /\ instructions = 0
    /\ frames = <<>>

-----------------------------------------------------------------------------
(* stepInstruction()                                                        *)

Advance(clock, ticks) == (clock + ticks) % ClockMod

\* Slip: the table's ticks are not added.
Retire_NoTicks(ticks) ==
    /\ UNCHANGED clockticks
    /\ instructions' = Advance(instructions, 1)

Retire(ticks) ==
    /\ clockticks' = Advance(clockticks, ticks)
    /\ instructions' = Advance(instructions, 1)

(* Any instruction but WAI and STP. With no memory controller every fetch   *)
(* is 0xFF, a BBS7 that always branches and never touches the I flag.       *)
Insn ==
    /\ \E ticks \in InsnTicks : Retire(ticks)
    /\ interrupt' \in IF hasMem THEN BOOLEAN ELSE {interrupt}
    /\ UNCHANGED <<waiting, stopped>>

Wai ==
    /\ hasMem
    /\ Retire(WaiTicks)
    /\ waiting' = (waiting \/ ~interrupt)
    /\ UNCHANGED <<stopped, interrupt>>

Stp ==
    /\ hasMem
    /\ Retire(StpTicks)
    /\ stopped' = TRUE
    /\ UNCHANGED <<waiting, interrupt>>

Ill ==
    /\ hasMem
    /\ stopped' = TRUE
    /\ UNCHANGED <<waiting, interrupt, clockticks, instructions>>

\* Slip: the test of stopped is left to exec()'s loop.
StepInstruction_StopIgnored(valid) == IF valid THEN Insn \/ Wai \/ Stp ELSE Ill

StepInstruction(valid) ==
    \/ /\ stopped
       /\ ~valid
       /\ UNCHANGED <<waiting, stopped, interrupt, clockticks, instructions>>
    \/ /\ ~stopped
       /\ valid
       /\ Insn \/ Wai \/ Stp
    \/ /\ ~stopped
       /\ ~valid
       /\ Ill

-----------------------------------------------------------------------------
(* Calls a client makes, from outside or from the loop callback             *)

ClientHasControl == frames # <<>> => Head(frames).at = "callback"

(* The calls in progress once the innermost one's callback calls step() or  *)
(* exec().                                                                  *)
Disturbed == IF frames = <<>> THEN frames ELSE [frames EXCEPT ![1].alone = FALSE]

Enter(fn, at, valid, due) ==
    /\ Len(frames) < MaxNesting
    /\ frames' = <<[fn |-> fn, at |-> at, valid |-> valid, due |-> due,
                    ran |-> FALSE, alone |-> TRUE]>> \o Disturbed

SetMemoryController ==
    /\ ClientHasControl
    /\ hasMem' \in BOOLEAN
    /\ UNCHANGED <<hasCallback, waiting, stopped, interrupt, clockticks, clockgoal,
                   instructions, frames>>

SetLoopCallback ==
    /\ ClientHasControl
    /\ hasCallback' \in BOOLEAN
    /\ UNCHANGED <<hasMem, waiting, stopped, interrupt, clockticks, clockgoal,
                   instructions, frames>>

\* Slip: reset() restarts the clock, and only the clock.
Reset_ClearsClock ==
    /\ ClientHasControl
    /\ hasMem
    /\ stopped' = FALSE
    /\ clockticks' = 0
    /\ UNCHANGED <<config, waiting, interrupt, clockgoal, instructions, frames>>

\* Slip: reset() restarts the clock and takes what is left of the goal, wider than 32 bits.
Reset_RebasesGoal ==
    /\ ClientHasControl
    /\ hasMem
    /\ stopped' = FALSE
    /\ clockticks' = 0
    /\ clockgoal' = clockgoal - clockticks
    /\ UNCHANGED <<config, waiting, interrupt, instructions, frames>>

Reset ==
    /\ ClientHasControl
    /\ hasMem
    /\ stopped' = FALSE
    /\ UNCHANGED <<config, waiting, interrupt, clockticks, clockgoal, instructions, frames>>

(* irq() and nmi() differ only in what they push and in the vector they     *)
(* take, which Cpu.tla models. Neither of them tests the I flag.            *)
Interrupt ==
    /\ ClientHasControl
    /\ interrupt' = TRUE
    /\ waiting' = FALSE
    /\ UNCHANGED <<config, stopped, clockticks, clockgoal, instructions, frames>>

\* Slip: step() while waiting leaves the goal behind.
StepWaiting_GoalLeft ==
    /\ ClientHasControl
    /\ waiting
    /\ clockticks < MaxClock
    /\ clockticks' = Advance(clockticks, 1)
    /\ frames' = Disturbed
    /\ UNCHANGED <<config, waiting, stopped, interrupt, clockgoal, instructions>>

(* step() while WAI waits: the clock advances by one tick.                  *)
StepWaiting ==
    /\ ClientHasControl
    /\ waiting
    /\ clockticks < MaxClock
    /\ clockticks' = Advance(clockticks, 1)
    /\ clockgoal' = clockticks'
    /\ frames' = Disturbed
    /\ UNCHANGED <<config, waiting, stopped, interrupt, instructions>>

(* step() runs one instruction and then the callback, valid or not.         *)
Step ==
    /\ ClientHasControl
    /\ ~waiting
    /\ clockticks < MaxClock
    /\ \E valid \in BOOLEAN :
         /\ StepInstruction(valid)
         /\ IF hasCallback
              THEN Enter("step", "callback", valid, clockticks)
              ELSE frames' = Disturbed
    /\ clockgoal' = clockticks'
    /\ UNCHANGED config

(* exec(tickcount) while WAI waits: the whole budget passes.                *)
ExecWaiting(tickcount) ==
    /\ ClientHasControl
    /\ waiting
    /\ clockticks + tickcount <= MaxClock
    /\ clockticks' = Advance(clockticks, tickcount)
    /\ clockgoal' = clockticks'
    /\ frames' = Disturbed
    /\ UNCHANGED <<config, waiting, stopped, interrupt, instructions>>

ExecCall(tickcount) ==
    /\ ClientHasControl
    /\ ~waiting
    /\ clockgoal + tickcount <= MaxClock
    /\ clockgoal' = Advance(clockgoal, tickcount)
    /\ Enter("exec", "loop", TRUE, clockticks + tickcount)
    /\ UNCHANGED <<config, waiting, stopped, interrupt, clockticks, instructions>>

-----------------------------------------------------------------------------
(* The loop of exec(), and the return of a callback                         *)

InExecLoop == frames # <<>> /\ Head(frames).fn = "exec" /\ Head(frames).at = "loop"

\* Slip: the loop also ends when WAI has been run.
LoopCondition_EndsOnWai ==
    Head(frames).valid /\ ~stopped /\ ~waiting /\ clockticks < clockgoal

LoopCondition == Head(frames).valid /\ ~stopped /\ clockticks < clockgoal

ExecIterate ==
    /\ InExecLoop
    /\ LoopCondition
    /\ \E valid \in BOOLEAN :
         /\ StepInstruction(valid)
         /\ frames' = [frames EXCEPT
              ![1].valid = valid,
              ![1].ran = @ \/ valid,
              ![1].at = IF valid /\ hasCallback THEN "callback" ELSE "loop"]
    /\ UNCHANGED <<config, clockgoal>>

ExecReturn ==
    /\ InExecLoop
    /\ ~LoopCondition
    /\ frames' = Tail(frames)
    /\ UNCHANGED <<config, waiting, stopped, interrupt, clockticks, clockgoal, instructions>>

(* The callback returns: into exec()'s loop, or through step() to its caller. *)
CallbackReturn ==
    /\ frames # <<>>
    /\ Head(frames).at = "callback"
    /\ frames' = IF Head(frames).fn = "exec"
                   THEN [frames EXCEPT ![1].at = "loop"]
                   ELSE Tail(frames)
    /\ UNCHANGED <<config, waiting, stopped, interrupt, clockticks, clockgoal, instructions>>

ClientCall ==
    \/ SetMemoryController
    \/ SetLoopCallback
    \/ Reset
    \/ Interrupt
    \/ StepWaiting
    \/ Step
    \/ \E tickcount \in Budgets : ExecWaiting(tickcount) \/ ExecCall(tickcount)

Next == ClientCall \/ ExecIterate \/ ExecReturn \/ CallbackReturn

Spec == Init /\ [][Next]_vars

(* A C++ loop that can go on does, and a callback is client code that makes *)
(* finitely many calls and returns, at whatever depth it runs.              *)
Fairness ==
    /\ WF_vars(ExecIterate)
    /\ WF_vars(ExecReturn)
    /\ \A depth \in 1..MaxNesting : SF_vars(Len(frames) = depth /\ CallbackReturn)

FairSpec == Spec /\ Fairness

-----------------------------------------------------------------------------
(* Properties                                                               *)

(* The 32-bit counters stay in their width, and the C++ call stack within   *)
(* its bound: every wrap-around of stepInstruction(), exec() and step().    *)
TypeOK ==
    /\ hasMem \in BOOLEAN
    /\ hasCallback \in BOOLEAN
    /\ waiting \in BOOLEAN
    /\ stopped \in BOOLEAN
    /\ interrupt \in BOOLEAN
    /\ clockticks \in 0..(ClockMod - 1)
    /\ clockgoal \in 0..(ClockMod - 1)
    /\ instructions \in 0..(ClockMod - 1)
    /\ frames \in Seq(Frame)
    /\ Len(frames) <= MaxNesting

(* The clients' calls keep the 32-bit clock from wrapping.                  *)
NoWrap == MaxClock + MaxTicks <= ClockMod

(* The clock never runs further past the goal than one instruction, however *)
(* calls nest: exec() tests the clock before each instruction, and whatever *)
(* else moves the clock moves the goal with it.                             *)
Overshoot == clockticks < clockgoal + MaxTicks

(* Unless a callback of its own calls step() or exec(), an exec() call that *)
(* is not stopped spends its budget, but for the one instruction by which   *)
(* an earlier call may have run over.                                       *)
ExecSpendsBudget ==
    [][ ExecReturn /\ Head(frames).alone
          => stopped \/ Head(frames).due < clockticks + MaxTicks ]_vars

NoExecInProgress == \A i \in 1..Len(frames) : frames[i].fn # "exec"
Surplus == NoExecInProgress /\ clockticks < clockgoal

(* exec() runs an instruction if it has the budget for one and the CPU is   *)
(* not stopped.                                                             *)
ExecRuns ==
    [][ ExecReturn /\ ~Head(frames).ran
          => stopped \/ Head(frames).due < clockticks + MaxTicks ]_vars

(* Budget is carried from one exec() to a later call only when the CPU      *)
(* stopped in the middle of it: any other call spends what it was given.    *)
SurplusOnlyFromStop == [][ Surplus' /\ ~Surplus => stopped ]_vars

(* A stopped CPU runs nothing and, unless WAI also waits, its clock stands  *)
(* still, whichever of step(), exec() and the callbacks is used.            *)
StoppedRunsNothing ==
    [][ stopped => /\ instructions' = instructions
                   /\ waiting \/ clockticks' = clockticks ]_vars

(* A call made from outside comes back: exec() ends for every program, with *)
(* every callback that itself returns.                                      *)
ExecReturns == frames # <<>> ~> frames = <<>>

(* An exec() whose callback does not call step() or exec() spends no more   *)
(* than one instruction beyond its budget.                                  *)
ExecKeepsBudget ==
    [][ ExecReturn /\ Head(frames).ran /\ Head(frames).alone
          => clockticks < Head(frames).due + MaxTicks ]_vars

(* WAI waits: while waiting, no instruction runs.                           *)
WaitHolds == [][ waiting => instructions' = instructions ]_vars

(* A reset() that reports success leaves a CPU that will run.               *)
ResetWorks == [][ Reset => ~stopped' /\ ~waiting' ]_vars
=============================================================================
