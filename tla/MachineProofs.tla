---------------------------- MODULE MachineProofs ----------------------------
(* Proofs about the machine, for any memory controller that keeps to its     *)
(* interface, any program in it, any budgets, any nesting and any width of   *)
(* the clock: its registers keep their widths, and it implements the run     *)
(* control of RunControl.tla, step by step. Then about the test harness that *)
(* drives it, for any test programs, limits and slices: how far a test may   *)
(* run over its limit, and that no test is called trapped because a slice    *)
(* ran nothing.                                                              *)
EXTENDS Harness, CpuProofs

(* The inductive invariant: TypeOK with the members it does not mention. The *)
(* instruction's own count of ticks is 0 between instructions, so that what  *)
(* a stopped CPU adds to the clock is nothing.                               *)
MachineInv(Contents) ==
    /\ c \in Cpus(Contents)
    /\ c.ticks = 0
    /\ clockticks \in 0..(ClockMod - 1)
    /\ clockgoal \in 0..(ClockMod - 1)
    /\ instructions \in 0..(ClockMod - 1)

(* The counters wrap into their width, and stand still when nothing is added. *)
LEMMA AdvanceType ==
    ASSUME NEW clock \in 0..(ClockMod - 1), NEW ticks \in Nat
    PROVE  /\ Advance(clock, ticks) \in 0..(ClockMod - 1)
           /\ ticks = 0 => Advance(clock, ticks) = clock
BY MachineAssumption DEF Advance

(* The CPU as constructed.                                                   *)
LEMMA InitInv ==
    ASSUME NEW Contents, Memories \subseteq Contents, Init
    PROVE  MachineInv(Contents)
<1>1. PICK mem \in Memories : c = [init(mem) EXCEPT !.hasMem = FALSE]
  BY DEF Init
<1> DEFINE i == init(mem)
<1>2. i \in Cpus(Contents) /\ i.ticks = 0
  BY InitCpu DEF init
<1> HIDE DEF i
<1>3. c \in Cpus(Contents) /\ c.ticks = 0
  BY <1>1, <1>2 DEF Cpus, i
<1>4. 0 \in 0..(ClockMod - 1)
  BY MachineAssumption
<1>. QED  BY <1>3, <1>4 DEF Init, MachineInv

(* A program step, seen from the run control.                                *)
LEMMA StepRefines ==
    ASSUME NEW Contents, HoldsBytes(Contents), MachineInv(Contents),
           NEW valid \in BOOLEAN, StepInstruction(valid)
    PROVE  /\ c' \in Cpus(Contents) /\ c'.ticks = 0 /\ c'.hasMem = c.hasMem
           /\ clockticks' \in 0..(ClockMod - 1)
           /\ instructions' \in 0..(ClockMod - 1)
           /\ RC!StepInstruction(valid)
<1> DEFINE d == stepInstruction(c)
           insn == FetchedInsn(c)
<1>1. /\ c \in Cpus(Contents) /\ c.ticks = 0
      /\ clockticks \in 0..(ClockMod - 1) /\ instructions \in 0..(ClockMod - 1)
  BY DEF MachineInv
<1>2. /\ d \in Cpus(Contents)
      /\ d.hasMem = c.hasMem
      /\ c.stopped => d = c
      /\ ~c.stopped /\ ~RunsValid(c) =>
           /\ c.hasMem
           /\ d.stopped /\ d.waiting = c.waiting
           /\ d.status = c.status \union {"One"}
           /\ d.ticks = 0
      /\ RunsValid(c) => insn \in Insns /\ StepEffect(insn, c, d)
      /\ ~c.hasMem => insn = "bbs7"
  BY <1>1, StepType
<1>3. /\ valid = RunsValid(c)
      /\ c' = [Settled(d) EXCEPT !.ticks = 0]
      /\ clockticks' = Advance(clockticks, d.ticks)
      /\ instructions' = Advance(instructions, IF valid THEN 1 ELSE 0)
  BY DEF StepInstruction
<1> HIDE DEF d, insn
<1>4. /\ c' \in Cpus(Contents) /\ c'.ticks = 0
      /\ c'.hasMem = c.hasMem /\ c'.status = d.status
      /\ c'.waiting = d.waiting /\ c'.stopped = d.stopped
  BY <1>2, <1>3, SettledType
<1>5. d.ticks \in Nat
  BY <1>2 DEF Cpus
<1>6. clockticks' \in 0..(ClockMod - 1) /\ instructions' \in 0..(ClockMod - 1)
  BY <1>1, <1>3, <1>5, AdvanceType
<1>7. CASE c.stopped
  <2>1. ~valid
    BY <1>3, <1>7 DEF RunsValid
  <2>2. clockticks' = clockticks /\ instructions' = instructions
    BY <1>1, <1>2, <1>3, <1>7, <2>1, AdvanceType
  <2>3. UNCHANGED <<c.waiting, c.stopped, "I" \in c.status, clockticks, instructions>>
    BY <1>2, <1>4, <1>7, <2>2
  <2>4. RC!StepInstruction(valid)
    BY <1>7, <2>1, <2>3, Zenon DEF RC!StepInstruction
  <2>. QED  BY <1>4, <1>6, <2>4
<1>8. CASE ~c.stopped /\ ~valid
  <2>1. ~RunsValid(c)
    BY <1>3, <1>8
  <2>2. clockticks' = clockticks /\ instructions' = instructions
    BY <1>1, <1>2, <1>3, <1>8, <2>1, AdvanceType
  <2>3. c'.stopped = TRUE /\ c'.waiting = c.waiting /\ c.hasMem
    BY <1>2, <1>4, <1>8, <2>1 DEF Cpus
  <2>4. ("I" \in c'.status) = ("I" \in c.status)
    BY <1>2, <1>4, <1>8, <2>1
  <2>5. RC!Ill
    BY <2>2, <2>3, <2>4, Zenon DEF RC!Ill
  <2>6. RC!StepInstruction(valid)
    BY <1>8, <2>5, Zenon DEF RC!StepInstruction
  <2>. QED  BY <1>4, <1>6, <2>6
<1>9. CASE ~c.stopped /\ valid
  <2>1. insn \in Insns /\ StepEffect(insn, c, d)
    BY <1>2, <1>3, <1>9
  <2>2. /\ instructions' = RC!Advance(instructions, 1)
        /\ clockticks' = RC!Advance(clockticks, d.ticks)
    BY <1>3, <1>9 DEF Advance, RC!Advance
  <2>3. RC!Retire(d.ticks)
    BY <2>2 DEF RC!Retire
  <2>4. CASE insn = "stp"
    <3>1. d.ticks = 1 /\ c.hasMem
      BY <1>1, <1>2, <2>1, <2>4 DEF StepEffect, Cost, Cpus
    <3>2. c'.stopped = TRUE /\ c'.waiting = c.waiting
      BY <1>1, <1>4, <2>1, <2>4, Zenon DEF StepEffect, Cpus
    <3>3. ("I" \in c'.status) = ("I" \in c.status)
      BY <1>4, <2>1, <2>4 DEF StepEffect, Halts
    <3>4. RC!Stp
      BY <2>3, <3>1, <3>2, <3>3 DEF RC!Stp
    <3>5. RC!StepInstruction(valid)
      BY <1>9, <3>4, Zenon DEF RC!StepInstruction
    <3>. QED  BY <1>4, <1>6, <3>5
  <2>5. CASE insn = "wai"
    <3>1. d.ticks = 3 /\ c.hasMem
      BY <1>1, <1>2, <2>1, <2>5 DEF StepEffect, Cost, Cpus
    <3>2. c'.stopped = c.stopped /\ c'.waiting = (c.waiting \/ ~("I" \in c.status))
      BY <1>1, <1>4, <1>9, <2>1, <2>5, Zenon DEF StepEffect, Cpus
    <3>3. ("I" \in c'.status) = ("I" \in c.status)
      BY <1>4, <2>1, <2>5 DEF StepEffect, Halts
    <3>4. RC!Wai
      BY <2>3, <3>1, <3>2, <3>3 DEF RC!Wai
    <3>5. RC!StepInstruction(valid)
      BY <1>9, <3>4, Zenon DEF RC!StepInstruction
    <3>. QED  BY <1>4, <1>6, <3>5
  <2>6. CASE insn # "stp" /\ insn # "wai"
    <3>1. d.ticks \in 2..7
      BY <2>1, <2>6 DEF StepEffect, Cost
    <3>2. c'.stopped = c.stopped /\ c'.waiting = c.waiting
      BY <1>1, <1>4, <1>9, <2>1, <2>6, Zenon DEF StepEffect, Cpus
    <3>3. ~c.hasMem => ("I" \in c'.status) = ("I" \in c.status)
      BY <1>2, <1>4, <2>1 DEF StepEffect, Relative, Bbss
    <3>4. ("I" \in c'.status) \in IF c.hasMem THEN BOOLEAN ELSE {"I" \in c.status}
      <4>1. CASE c.hasMem
        BY <4>1
      <4>2. CASE ~c.hasMem
        BY <3>3, <4>2, Zenon
      <4>. QED  BY <4>1, <4>2
    <3>5. RC!Insn
      BY <2>3, <3>1, <3>2, <3>4, Zenon DEF RC!Insn
    <3>6. RC!StepInstruction(valid)
      BY <1>9, <3>5, Zenon DEF RC!StepInstruction
    <3>. QED  BY <1>4, <1>6, <3>6
  <2>. QED  BY <1>4, <1>6, <2>4, <2>5, <2>6
<1>. QED  BY <1>7, <1>8, <1>9

(* So does every action of it, but for setPC(), which the run control does   *)
(* not see.                                                                  *)
LEMMA NextRefines ==
    ASSUME NEW Contents, HoldsBytes(Contents), MachineInv(Contents), [Next]_vars
    PROVE  MachineInv(Contents)' /\ [RC!Next]_(RC!vars)
<1>0. /\ c \in Cpus(Contents) /\ c.ticks = 0
      /\ clockticks \in 0..(ClockMod - 1) /\ clockgoal \in 0..(ClockMod - 1)
      /\ instructions \in 0..(ClockMod - 1)
      /\ \A tickcount \in Budgets : tickcount \in Nat
  BY MachineAssumption DEF MachineInv
<1>1. CASE SetMemoryController
  <2>1. c' = [c EXCEPT !.hasMem = TRUE] /\ UNCHANGED <<client, clockticks, instructions>>
    BY <1>1 DEF SetMemoryController
  <2>2. /\ c' \in Cpus(Contents) /\ c'.ticks = 0 /\ c'.status = c.status
    BY <1>0, <2>1 DEF Cpus
  <2>3. c'.waiting = c.waiting /\ c'.stopped = c.stopped /\ c'.hasMem \in BOOLEAN
    BY <1>0, <2>1 DEF Cpus
  <2>4. MachineInv(Contents)'
    BY <1>0, <2>1, <2>2 DEF client, MachineInv
  <2>5. RC!SetMemoryController
    BY <1>1, <2>1, <2>2, <2>3, Zenon
       DEF SetMemoryController, RC!SetMemoryController, client, ClientHasControl,
           RC!ClientHasControl
  <2>. QED  BY <2>4, <2>5 DEF RC!Next, RC!ClientCall
<1>2. CASE SetLoopCallback
  <2>1. MachineInv(Contents)'
    BY <1>0, <1>2 DEF SetLoopCallback, MachineInv
  <2>2. RC!SetLoopCallback
    BY <1>2, Zenon
       DEF SetLoopCallback, RC!SetLoopCallback, ClientHasControl, RC!ClientHasControl
  <2>. QED  BY <2>1, <2>2 DEF RC!Next, RC!ClientCall
<1>3. CASE Reset
  <2>1. c' = reset(c) /\ UNCHANGED <<client, clockticks, instructions>>
    BY <1>3 DEF Reset
  <2>2. /\ c' \in Cpus(Contents) /\ c'.hasMem = c.hasMem /\ c'.stopped = FALSE
        /\ c'.waiting = c.waiting /\ c'.status = c.status \union {"One"} /\ c'.ticks = c.ticks
    BY <1>0, <2>1, ResetType
  <2>3. MachineInv(Contents)'
    BY <1>0, <2>1, <2>2 DEF client, MachineInv
  <2>4. ("I" \in c'.status) = ("I" \in c.status)
    BY <2>2
  <2>5. RC!Reset
    BY <1>3, <2>1, <2>2, <2>4, Zenon
       DEF Reset, RC!Reset, client, RC!config, ClientHasControl, RC!ClientHasControl
  <2>. QED  BY <2>3, <2>5 DEF RC!Next, RC!ClientCall
<1>4. CASE SetPC
  <2>1. PICK addr \in Entries : c' = [c EXCEPT !.pc = addr]
    BY <1>4 DEF SetPC
  <2>2. addr \in Word /\ UNCHANGED <<client, clockticks, instructions>>
    BY <1>4, MachineAssumption DEF SetPC
  <2>3. c' \in Cpus(Contents) /\ c'.ticks = 0 /\ c'.status = c.status
    BY <1>0, <2>1, <2>2 DEF Cpus
  <2>4. c'.waiting = c.waiting /\ c'.stopped = c.stopped /\ c'.hasMem = c.hasMem
    BY <1>0, <2>1 DEF Cpus
  <2>5. MachineInv(Contents)'
    BY <1>0, <2>2, <2>3 DEF client, MachineInv
  <2>6. UNCHANGED RC!vars
    BY <2>2, <2>3, <2>4, Zenon DEF client, RC!vars
  <2>. QED  BY <2>5, <2>6
<1>5. CASE Interrupt
  <2>1. c' \in {irq(c), nmi(c)} /\ UNCHANGED <<client, clockticks, instructions>>
    BY <1>5 DEF Interrupt
  <2>2. /\ c' \in Cpus(Contents) /\ c'.hasMem = c.hasMem /\ c'.stopped = c.stopped
        /\ c'.waiting = FALSE /\ "I" \in c'.status /\ c'.ticks = c.ticks
    BY <1>0, <2>1, InterruptType
  <2>3. MachineInv(Contents)'
    BY <1>0, <2>1, <2>2 DEF client, MachineInv
  <2>4. ("I" \in c'.status) = TRUE
    BY <2>2
  <2>5. RC!Interrupt
    BY <1>5, <2>1, <2>2, <2>4, Zenon
       DEF Interrupt, RC!Interrupt, client, RC!config, ClientHasControl, RC!ClientHasControl
  <2>. QED  BY <2>3, <2>5 DEF RC!Next, RC!ClientCall
<1>6. CASE Step
  <2>1. PICK valid \in BOOLEAN :
          /\ StepInstruction(valid)
          /\ IF hasCallback THEN Enter("step", "callback", valid, clockticks)
                            ELSE frames' = Disturbed
    BY <1>6 DEF Step
  <2>2. /\ c' \in Cpus(Contents) /\ c'.ticks = 0 /\ c'.hasMem = c.hasMem
        /\ clockticks' \in 0..(ClockMod - 1)
        /\ instructions' \in 0..(ClockMod - 1)
        /\ RC!StepInstruction(valid)
    BY <2>1, StepRefines
  <2>3. clockgoal' = clockticks' /\ hasCallback' = hasCallback
    BY <1>6 DEF Step
  <2>4. MachineInv(Contents)'
    BY <2>2, <2>3 DEF MachineInv
  <2>5. IF hasCallback THEN RC!Enter("step", "callback", valid, clockticks)
                       ELSE frames' = RC!Disturbed
    BY <2>1, Zenon DEF Enter, RC!Enter, Disturbed, RC!Disturbed
  <2>6. RC!Step
    BY <1>6, <2>2, <2>3, <2>5, Zenon
       DEF Step, RC!Step, RC!config, ClientHasControl, RC!ClientHasControl
  <2>. QED  BY <2>4, <2>6 DEF RC!Next, RC!ClientCall
<1>7. ASSUME NEW tickcount \in Budgets \union {1}, Wait(tickcount)
      PROVE  MachineInv(Contents)' /\ [RC!Next]_(RC!vars)
  <2>1. /\ ClientHasControl /\ c.waiting
        /\ clockticks + tickcount <= MaxClock
        /\ clockticks' = Advance(clockticks, tickcount)
        /\ clockgoal' = clockticks' /\ frames' = Disturbed
        /\ UNCHANGED <<c, hasCallback, instructions>>
    BY <1>7 DEF Wait
  <2>2. tickcount \in Nat /\ clockticks \in Nat
    BY <1>0, MachineAssumption
  <2>3. MachineInv(Contents)'
    BY <1>0, <2>1, <2>2, AdvanceType DEF MachineInv
  <2>4. /\ RC!ClientHasControl
        /\ clockticks' = RC!Advance(clockticks, tickcount)
        /\ frames' = RC!Disturbed
    BY <2>1, Zenon
       DEF ClientHasControl, RC!ClientHasControl, Advance, RC!Advance, Disturbed, RC!Disturbed
  <2>5. CASE tickcount = 1
    <3>1. clockticks < MaxClock
      BY <2>1, <2>2, <2>5, MachineAssumption
    <3>2. RC!StepWaiting
      BY <2>1, <2>4, <2>5, <3>1, Zenon DEF RC!StepWaiting, RC!config
    <3>. QED  BY <2>3, <3>2 DEF RC!Next, RC!ClientCall
  <2>6. CASE tickcount \in Budgets
    <3>1. RC!ExecWaiting(tickcount)
      BY <2>1, <2>4, Zenon DEF RC!ExecWaiting, RC!config
    <3>. QED  BY <2>3, <2>6, <3>1 DEF RC!Next, RC!ClientCall
  <2>. QED  BY <1>7, <2>5, <2>6
<1>8. ASSUME NEW tickcount \in Budgets, ExecCall(tickcount)
      PROVE  MachineInv(Contents)' /\ [RC!Next]_(RC!vars)
  <2>1. MachineInv(Contents)'
    BY <1>0, <1>8, AdvanceType DEF ExecCall, MachineInv
  <2>2. RC!ExecCall(tickcount)
    BY <1>8, Zenon
       DEF ExecCall, RC!ExecCall, RC!config, ClientHasControl, RC!ClientHasControl, Advance,
           RC!Advance, Enter, RC!Enter, Disturbed, RC!Disturbed
  <2>. QED  BY <2>1, <2>2 DEF RC!Next, RC!ClientCall
<1>9. CASE ExecIterate
  <2>1. PICK valid \in BOOLEAN :
          /\ StepInstruction(valid)
          /\ frames' = [frames EXCEPT
               ![1].valid = valid,
               ![1].ran = @ \/ valid,
               ![1].at = IF valid /\ hasCallback THEN "callback" ELSE "loop"]
    BY <1>9, Zenon DEF ExecIterate
  <2>2. /\ c' \in Cpus(Contents) /\ c'.ticks = 0 /\ c'.hasMem = c.hasMem
        /\ clockticks' \in 0..(ClockMod - 1)
        /\ instructions' \in 0..(ClockMod - 1)
        /\ RC!StepInstruction(valid)
    BY <2>1, StepRefines
  <2>3. clockgoal' = clockgoal /\ hasCallback' = hasCallback
    BY <1>9 DEF ExecIterate
  <2>4. MachineInv(Contents)'
    BY <1>0, <2>2, <2>3 DEF MachineInv
  <2>5. RC!InExecLoop /\ RC!LoopCondition
    BY <1>9, Zenon
       DEF ExecIterate, InExecLoop, RC!InExecLoop, LoopCondition, RC!LoopCondition
  <2>6. RC!ExecIterate
    BY <2>1, <2>2, <2>3, <2>5, Zenon DEF RC!ExecIterate, RC!config
  <2>. QED  BY <2>4, <2>6 DEF RC!Next
<1>10. CASE ExecReturn
  <2>1. MachineInv(Contents)'
    BY <1>0, <1>10 DEF ExecReturn, MachineInv
  <2>2. RC!ExecReturn
    BY <1>10, Zenon
       DEF ExecReturn, RC!ExecReturn, RC!config, InExecLoop, RC!InExecLoop, LoopCondition,
           RC!LoopCondition
  <2>. QED  BY <2>1, <2>2 DEF RC!Next
<1>11. CASE CallbackReturn
  <2>1. MachineInv(Contents)'
    BY <1>0, <1>11 DEF CallbackReturn, MachineInv
  <2>2. RC!CallbackReturn
    BY <1>11, Zenon DEF CallbackReturn, RC!CallbackReturn, RC!config
  <2>. QED  BY <2>1, <2>2 DEF RC!Next
<1>12. CASE UNCHANGED vars
  <2>1. UNCHANGED <<c, hasCallback, clockticks, clockgoal, instructions, frames>>
    BY <1>12 DEF vars, client
  <2>2. MachineInv(Contents)'
    BY <1>0, <2>1 DEF MachineInv
  <2>3. UNCHANGED RC!vars
    BY <2>1, Zenon DEF RC!vars
  <2>. QED  BY <2>2, <2>3
<1>. QED
  BY <1>1, <1>2, <1>3, <1>4, <1>5, <1>6, <1>7, <1>8, <1>9, <1>10, <1>11, <1>12 DEF Next

(* Registers and clock keep their widths, for every program.                 *)
THEOREM WidthsKept ==
    ASSUME NEW Contents, HoldsBytes(Contents), Memories \subseteq Contents
    PROVE  Spec => []TypeOK
<1>1. Init => MachineInv(Contents)
  BY InitInv
<1>2. MachineInv(Contents) /\ [Next]_vars => MachineInv(Contents)'
  BY NextRefines
<1>3. MachineInv(Contents) => TypeOK
  BY DEF MachineInv, TypeOK, Cpus
<1>. QED  BY <1>1, <1>2, <1>3, PTL DEF Spec

(* The CPU with all of its instructions implements the run control: whatever *)
(* is proved there of budgets, WAI and STP holds of the real opcodes.        *)
THEOREM RefinesRunControl ==
    ASSUME NEW Contents, HoldsBytes(Contents), Memories \subseteq Contents
    PROVE  Spec => ImplementsRunControl
<1>1. Init => MachineInv(Contents)
  BY InitInv
<1>2. MachineInv(Contents) /\ [Next]_vars => MachineInv(Contents)' /\ [RC!Next]_(RC!vars)
  BY NextRefines
<1>3. Init => RC!Init
  <2> SUFFICES ASSUME Init PROVE RC!Init
    OBVIOUS
  <2>1. PICK mem \in Memories : c = [init(mem) EXCEPT !.hasMem = FALSE]
    BY DEF Init
  <2>2. c.hasMem = FALSE /\ c.waiting = FALSE /\ c.stopped = FALSE /\ c.status = {}
    BY <2>1 DEF init
  <2>3. ("I" \in c.status) = FALSE
    BY <2>2
  <2>. QED  BY <2>2, <2>3, Zenon DEF Init, RC!Init
<1>. QED  BY <1>1, <1>2, <1>3, PTL DEF Spec, ImplementsRunControl, RC!Spec

-----------------------------------------------------------------------------
(* What RunControlProofs.tla proves of the run control, for the real opcodes. *)
RCP == INSTANCE RunControlProofs WITH
        hasMem <- c.hasMem, waiting <- c.waiting, stopped <- c.stopped,
        interrupt <- "I" \in c.status,
        InsnTicks <- 2..7, WaiTicks <- 3, StpTicks <- 1, MaxTicks <- 7

(* The two instances are of one and the same specification.                  *)
LEMMA SameSpec ==
    /\ RC!Init = RCP!Init
    /\ RC!Next = RCP!Next
    /\ RC!ExecReturn = RCP!ExecReturn
    /\ (UNCHANGED RC!vars) = (UNCHANGED RCP!vars)
<1>1. RC!Init = RCP!Init
  BY DEF RC!Init, RCP!Init
<1>2. (UNCHANGED RC!vars) = (UNCHANGED RCP!vars)
  BY DEF RC!vars, RCP!vars
<1> USE DEF RC!ClientHasControl, RCP!ClientHasControl, RC!config, RCP!config, RC!Disturbed,
       RCP!Disturbed, RC!Enter, RCP!Enter, RC!Advance, RCP!Advance
<1>3. RC!ExecIterate = RCP!ExecIterate
  BY Zenon DEF RC!StepInstruction, RCP!StepInstruction, RC!Insn, RCP!Insn, RC!Wai, RCP!Wai,
         RC!Stp, RCP!Stp, RC!Ill, RCP!Ill, RC!Retire, RCP!Retire,
         RC!ExecIterate, RCP!ExecIterate, RC!InExecLoop, RCP!InExecLoop,
         RC!LoopCondition, RCP!LoopCondition
<1>4. RC!ExecReturn = RCP!ExecReturn
  BY Zenon DEF RC!ExecReturn, RCP!ExecReturn, RC!InExecLoop, RCP!InExecLoop,
         RC!LoopCondition, RCP!LoopCondition
<1>5. RC!CallbackReturn = RCP!CallbackReturn
  BY Zenon DEF RC!CallbackReturn, RCP!CallbackReturn
<1>6. RC!ClientCall = RCP!ClientCall
  BY Zenon DEF RC!StepInstruction, RCP!StepInstruction, RC!Insn, RCP!Insn, RC!Wai, RCP!Wai,
         RC!Stp, RCP!Stp, RC!Ill, RCP!Ill, RC!Retire, RCP!Retire, RC!ClientCall, RCP!ClientCall,
         RC!SetMemoryController, RCP!SetMemoryController, RC!SetLoopCallback,
         RCP!SetLoopCallback, RC!Reset, RCP!Reset, RC!Interrupt, RCP!Interrupt,
         RC!StepWaiting, RCP!StepWaiting, RC!Step, RCP!Step, RC!ExecWaiting, RCP!ExecWaiting,
         RC!ExecCall, RCP!ExecCall
<1>7. RC!Next = RCP!Next
  BY <1>3, <1>4, <1>5, <1>6, Zenon DEF RC!Next, RCP!Next
<1>. QED  BY <1>1, <1>2, <1>4, <1>7

(* An exec() of real instructions runs over its goal by less than 7 ticks,   *)
(* spends its budget unless the CPU stops, carries one over only then, and   *)
(* runs nothing on a stopped CPU.                                            *)
THEOREM RunControlHolds ==
    ASSUME NEW Contents, HoldsBytes(Contents), Memories \subseteq Contents,
           MaxClock + 7 <= ClockMod
    PROVE  Spec => /\ []RC!Overshoot
                   /\ RC!ExecSpendsBudget
                   /\ RC!SurplusOnlyFromStop
                   /\ RC!StoppedRunsNothing
<1>1. RC!Spec => RCP!Spec
  <2>1. RC!Init => RCP!Init
    BY SameSpec
  <2>2. [RC!Next]_(RC!vars) => [RCP!Next]_(RCP!vars)
    BY SameSpec
  <2>. QED  BY <2>1, <2>2, PTL DEF RC!Spec, RCP!Spec
<1>2. /\ ClockMod \in Nat \ {0} /\ MaxNesting \in Nat /\ MaxClock \in Nat
      /\ Budgets \subseteq 0..(ClockMod - 1)
  BY MachineAssumption
<1>3. RCP!NoWrap
  BY DEF RCP!NoWrap
<1>4. RCP!Spec => []RCP!Overshoot
  BY <1>2, <1>3, RCP!OvershootBounded
<1>5. RCP!Overshoot => RC!Overshoot
  BY DEF RCP!Overshoot, RC!Overshoot
<1>6. RCP!Spec => RCP!ExecSpendsBudget
  BY <1>2, <1>3, RCP!BudgetSpent
<1>7. RCP!ExecSpendsBudget => RC!ExecSpendsBudget
  <2>1. [RCP!ExecReturn /\ Head(frames).alone
           => c.stopped \/ Head(frames).due < clockticks + 7]_(RCP!vars)
         => [RC!ExecReturn /\ Head(frames).alone
              => c.stopped \/ Head(frames).due < clockticks + 7]_(RC!vars)
    BY SameSpec
  <2>. QED  BY <2>1, PTL DEF RCP!ExecSpendsBudget, RC!ExecSpendsBudget
<1>8. RCP!Spec => RCP!SurplusOnlyFromStop
  BY <1>2, <1>3, RCP!OnlyStopLeavesSurplus
<1>9. RCP!SurplusOnlyFromStop => RC!SurplusOnlyFromStop
  <2>1. [RCP!Surplus' /\ ~RCP!Surplus => c.stopped]_(RCP!vars)
          => [RC!Surplus' /\ ~RC!Surplus => c.stopped]_(RC!vars)
    BY SameSpec
       DEF RCP!Surplus, RC!Surplus, RCP!NoExecInProgress, RC!NoExecInProgress
  <2>. QED  BY <2>1, PTL DEF RCP!SurplusOnlyFromStop, RC!SurplusOnlyFromStop
<1>10. RCP!Spec => RCP!StoppedRunsNothing
  BY <1>2, RCP!StoppedIsInert
<1>11. RCP!StoppedRunsNothing => RC!StoppedRunsNothing
  <2>1. [c.stopped => /\ instructions' = instructions
                      /\ c.waiting \/ clockticks' = clockticks]_(RCP!vars)
          => [c.stopped => /\ instructions' = instructions
                           /\ c.waiting \/ clockticks' = clockticks]_(RC!vars)
    BY SameSpec
  <2>. QED  BY <2>1, PTL DEF RCP!StoppedRunsNothing, RC!StoppedRunsNothing
<1>. QED
  BY RefinesRunControl, <1>1, <1>4, <1>5, <1>6, <1>7, <1>8, <1>9, <1>10, <1>11, PTL
     DEF ImplementsRunControl

-----------------------------------------------------------------------------
(* Interrupt handlers and what they return to                                *)

(* What interrupts record.                                                   *)
Contexts ==
    [hasMem : BOOLEAN, pc : Word, sp : Byte, a : Byte, x : Byte, y : Byte,
     status : SUBSET Flags]

(* The inductive invariant: the machine's, with a frame for each context.    *)
FramesInv(Contents) ==
    /\ MachineInv(Contents)
    /\ interrupted \in Seq(Contexts)
    /\ FramesKept

(* A context in front of the others.                                         *)
LEMMA Interrupting ==
    ASSUME NEW Contents, FramesInv(Contents), HandlerBehaves, NEW context \in Contexts,
           interrupted' = <<context>> \o interrupted, c'.hasMem = c.hasMem,
           context.hasMem => c.hasMem /\ Holds(c'.mem, context)
    PROVE  interrupted' \in Seq(Contexts) /\ FramesKept'
<1>1. interrupted \in Seq(Contexts)
  BY DEF FramesInv
<1>2. /\ interrupted' \in Seq(Contexts)
      /\ \A n \in DOMAIN interrupted' :
           \/ interrupted'[n] = context
           \/ \E k \in DOMAIN interrupted : interrupted'[n] = interrupted[k]
  BY <1>1
<1>3. ASSUME NEW k \in DOMAIN interrupted, interrupted[k].hasMem
      PROVE  c'.hasMem /\ Holds(c'.mem, interrupted[k])
  BY <1>3, Zenon DEF FramesInv, FramesKept, HandlerBehaves, Holds
<1>4. ASSUME NEW n \in DOMAIN interrupted', interrupted'[n].hasMem
      PROVE  c'.hasMem /\ Holds(c'.mem, interrupted'[n])
  BY <1>2, <1>3, <1>4, Zenon
<1>. QED  BY <1>2, <1>4 DEF FramesKept

(* The frames that are left, where none is added.                            *)
LEMMA NotInterrupting ==
    ASSUME NEW Contents, FramesInv(Contents), HandlerBehaves \/ c'.mem = c.mem,
           c.hasMem => c'.hasMem,
           \/ interrupted' = interrupted
           \/ interrupted' = <<>>
           \/ interrupted # <<>> /\ interrupted' = Tail(interrupted)
    PROVE  interrupted' \in Seq(Contexts) /\ FramesKept'
<1>1. interrupted \in Seq(Contexts)
  BY DEF FramesInv
<1>2. /\ interrupted' \in Seq(Contexts)
      /\ \A n \in DOMAIN interrupted' :
           \E k \in DOMAIN interrupted : interrupted'[n] = interrupted[k]
  <2>1. CASE interrupted' = interrupted
    BY <1>1, <2>1
  <2>2. CASE interrupted' = <<>>
    BY <2>2
  <2>3. CASE interrupted # <<>> /\ interrupted' = Tail(interrupted)
    BY <1>1, <2>3
  <2>. QED  BY <2>1, <2>2, <2>3
<1>3. ASSUME NEW k \in DOMAIN interrupted, interrupted[k].hasMem
      PROVE  c'.hasMem /\ Holds(c'.mem, interrupted[k])
  BY <1>3, Zenon DEF FramesInv, FramesKept, HandlerBehaves, Holds
<1>4. ASSUME NEW n \in DOMAIN interrupted', interrupted'[n].hasMem
      PROVE  c'.hasMem /\ Holds(c'.mem, interrupted'[n])
  BY <1>2, <1>3, <1>4, Zenon
<1>. QED  BY <1>2, <1>4 DEF FramesKept

(* What an interrupt records is a context.                                   *)
LEMMA ContextType ==
    ASSUME NEW Contents, NEW d \in Cpus(Contents), NEW pc \in Word
    PROVE  /\ Context(d, pc) \in Contexts
           /\ Context(d, pc).hasMem = d.hasMem /\ Context(d, pc).sp = d.sp
           /\ Context(d, pc).pc = pc /\ Context(d, pc).status = d.status \ {"B"}
BY DEF Context, Contexts, Cpus

(* A program step keeps the frames, and records one for BRK.                 *)
LEMMA StepKeepsFrames ==
    ASSUME NEW Contents, HoldsBytes(Contents), KeepsStack(Contents), FramesInv(Contents),
           HandlerBehaves, NEW valid \in BOOLEAN, StepInstruction(valid)
    PROVE  interrupted' \in Seq(Contexts) /\ FramesKept'
<1>1. c \in Cpus(Contents) /\ c'.hasMem = c.hasMem
  BY StepRefines DEF FramesInv, MachineInv
<1>2. CASE Runs("brk")
  <2> DEFINE f == Fetch(c)
             pc == U16(c.pc + 2)
             context == Context(f, pc)
  <2>1. interrupted' = <<context>> \o interrupted /\ c' = AfterStep(c)
    BY <1>2 DEF StepInstruction, AfterStep
  <2>2. f \in Cpus(Contents) /\ f.hasMem = c.hasMem /\ f.sp = c.sp
    BY <1>1, FetchType, FetchKeeps
  <2>3. pc \in Word
    <3>1. c.pc \in Int
      BY <1>1, WordRange DEF Cpus
    <3>. QED  BY <3>1, U16Type
  <2>4. c.hasMem => \E byte \in Byte :
          /\ Frame(c'.mem, c.sp) = <<Hi(pc), Lo(pc), byte>>
          /\ StatusOf(byte) \ {"B"} = f.status \ {"B"}
    BY <1>1, <1>2, <2>1, BrkPushes DEF Runs
  <2> HIDE DEF f, pc
  <2>5. /\ context \in Contexts /\ context.hasMem = c.hasMem /\ context.sp = c.sp
        /\ context.pc = pc /\ context.status = f.status \ {"B"}
    BY <2>2, <2>3, ContextType
  <2> HIDE DEF context
  <2>6. context.hasMem => c.hasMem /\ Holds(c'.mem, context)
    BY <2>3, <2>4, <2>5, BytesOfWord DEF Holds
  <2>. QED  BY <1>1, <2>1, <2>5, <2>6, Interrupting
<1>3. CASE ~Runs("brk")
  <2>1. \/ interrupted' = interrupted
        \/ interrupted # <<>> /\ interrupted' = Tail(interrupted)
    BY <1>3 DEF StepInstruction
  <2>. QED  BY <1>1, <2>1, NotInterrupting
<1>. QED  BY <1>2, <1>3

(* Every step keeps the frames.                                              *)
LEMMA FramesNext ==
    ASSUME NEW Contents, HoldsBytes(Contents), KeepsStack(Contents), FramesInv(Contents),
           [Next]_vars, [HandlerBehaves]_vars
    PROVE  FramesInv(Contents)'
<1>1. MachineInv(Contents) /\ interrupted \in Seq(Contexts) /\ FramesKept
  BY DEF FramesInv
<1>2. MachineInv(Contents)' /\ c \in Cpus(Contents)
  BY <1>1, NextRefines DEF MachineInv
<1>3. CASE UNCHANGED vars
  <2>1. interrupted' = interrupted /\ c' = c
    BY <1>3 DEF vars
  <2>. QED  BY <1>1, <1>2, <2>1, NotInterrupting DEF FramesInv
<1>4. ASSUME ~UNCHANGED vars PROVE HandlerBehaves
  BY <1>4
<1>5. ASSUME HandlerBehaves, \E valid \in BOOLEAN : StepInstruction(valid)
      PROVE  interrupted' \in Seq(Contexts) /\ FramesKept'
  BY <1>5, StepKeepsFrames
<1>6. CASE HandlerBehaves /\ Interrupt
  <2> DEFINE context == Context(c, c.pc)
  <2>1. c' \in {irq(c), nmi(c)} /\ interrupted' = <<context>> \o interrupted
    BY <1>6 DEF Interrupt
  <2>2. c'.hasMem = c.hasMem
    BY <1>2, <2>1, InterruptType
  <2>3. c.hasMem => \E byte \in Byte : /\ Frame(c'.mem, c.sp) = <<Hi(c.pc), Lo(c.pc), byte>>
                                       /\ StatusOf(byte) \ {"B"} = c.status \ {"B"}
    BY <1>2, <2>1, InterruptPushes
  <2>4. c.pc \in Word
    BY <1>2 DEF Cpus
  <2>5. /\ context \in Contexts /\ context.hasMem = c.hasMem /\ context.sp = c.sp
        /\ context.pc = c.pc /\ context.status = c.status \ {"B"}
    BY <1>2, <2>4, ContextType
  <2> HIDE DEF context
  <2>6. context.hasMem => c.hasMem /\ Holds(c'.mem, context)
    BY <2>3, <2>4, <2>5, BytesOfWord DEF Holds
  <2>7. interrupted' \in Seq(Contexts) /\ FramesKept'
    BY <1>6, <2>1, <2>2, <2>5, <2>6, Interrupting
  <2>. QED  BY <1>2, <2>7 DEF FramesInv
<1>7. CASE Reset \/ SetPC
  <2>1. interrupted' = <<>>
    BY <1>7 DEF Reset, SetPC
  <2>. QED  BY <1>2, <2>1 DEF FramesInv, FramesKept
<1>8. CASE SetMemoryController
  <2>1. c' = [c EXCEPT !.hasMem = TRUE] /\ interrupted' = interrupted
    BY <1>8 DEF SetMemoryController
  <2>2. c'.hasMem /\ c'.mem = c.mem
    BY <1>2, <2>1 DEF Cpus
  <2>. QED  BY <1>1, <1>2, <2>1, <2>2, NotInterrupting DEF FramesInv
<1>9. CASE HandlerBehaves /\ (Step \/ ExecIterate)
  <2>1. \E valid \in BOOLEAN : StepInstruction(valid)
    BY <1>9, Zenon DEF Step, ExecIterate
  <2>. QED  BY <1>2, <1>5, <1>9, <2>1 DEF FramesInv
<1>10. ASSUME \/ SetLoopCallback \/ ExecReturn \/ CallbackReturn
              \/ \E tickcount \in Budgets \union {1} : Wait(tickcount)
              \/ \E tickcount \in Budgets : ExecCall(tickcount)
       PROVE  FramesInv(Contents)'
  <2>1. c' = c /\ interrupted' = interrupted
    BY <1>10 DEF SetLoopCallback, ExecReturn, CallbackReturn, Wait, ExecCall
  <2>. QED  BY <1>1, <1>2, <2>1, NotInterrupting DEF FramesInv
<1>. QED  BY <1>3, <1>4, <1>6, <1>7, <1>8, <1>9, <1>10 DEF Next

(* RTI at the end of a handler that behaves.                                 *)
LEMMA ReturnsToContext ==
    ASSUME NEW Contents, HoldsBytes(Contents), FramesInv(Contents), [Next]_vars,
           HandlerBehaves, HandlerReturns
    PROVE  Context(c', c'.pc) = Head(interrupted)
<1> DEFINE found == Head(interrupted)
           frame == Frame(c.mem, found.sp)
<1>1. c \in Cpus(Contents)
  BY DEF FramesInv, MachineInv
<1>2. c' = AfterStep(c)
  <2>1. instructions' # instructions
    BY DEF HandlerReturns
  <2>2. \E valid \in BOOLEAN : StepInstruction(valid)
    BY <2>1, Zenon DEF Next, vars, client, SetMemoryController, SetLoopCallback, Reset, SetPC,
                Interrupt, Step, Wait, ExecCall, ExecIterate, ExecReturn, CallbackReturn
  <2>. QED  BY <2>2 DEF StepInstruction, AfterStep
<1>3. RunsValid(c) /\ FetchedInsn(c) = "rti"
  BY DEF HandlerReturns, Runs
<1>4. /\ found \in Contexts /\ found.hasMem /\ c.hasMem /\ Holds(c.mem, found)
  <2>1. interrupted \in Seq(Contexts) /\ interrupted # <<>> /\ found.hasMem
    BY DEF FramesInv, HandlerReturns
  <2>2. 1 \in DOMAIN interrupted /\ found = interrupted[1] /\ found \in Contexts
    BY <2>1
  <2>. QED  BY <2>1, <2>2, Zenon DEF FramesInv, FramesKept
<1>5. /\ c.sp = U8(found.sp - 3)
      /\ c.a = found.a /\ c.x = found.x /\ c.y = found.y
  BY DEF HandlerBehaves
<1>6. found.sp \in Byte
  BY <1>4 DEF Contexts
<1>7. /\ c'.hasMem /\ c'.status = StatusOf(frame[3])
      /\ c'.pc = Word16(frame[2], frame[1])
      /\ c'.sp = found.sp /\ c'.a = c.a /\ c'.x = c.x /\ c'.y = c.y
  BY <1>1, <1>2, <1>3, <1>4, <1>5, <1>6, RtiPulls
<1>8. Word16(frame[2], frame[1]) = found.pc /\ StatusOf(frame[3]) \ {"B"} = found.status
  BY <1>4 DEF Holds
<1> HIDE DEF found, frame
<1>9. c'.hasMem = found.hasMem
  <2>1. c'.hasMem \in BOOLEAN
    <3>1. stepInstruction(c) \in Cpus(Contents)
      BY <1>1, StepType
    <3>2. AfterStep(c) \in Cpus(Contents)
      BY <3>1, SettledType DEF AfterStep
    <3>. QED  BY <1>2, <3>2 DEF Cpus
  <2>. QED  BY <1>4, <1>7, <2>1 DEF Contexts
<1>10. Context(c', c'.pc)
         = [hasMem |-> found.hasMem, pc |-> found.pc, sp |-> found.sp, a |-> found.a,
            x |-> found.x, y |-> found.y, status |-> found.status]
  BY <1>5, <1>7, <1>8, <1>9 DEF Context
<1>11. Context(c', c'.pc) = found
  BY <1>4, <1>10 DEF Contexts
<1>. QED  BY <1>11 DEF found

(* At first nothing is interrupted.                                          *)
LEMMA FramesInit ==
    ASSUME NEW Contents, Memories \subseteq Contents, Init
    PROVE  FramesInv(Contents)
<1>1. MachineInv(Contents) /\ interrupted = <<>>
  BY InitInv DEF Init
<1>2. interrupted \in Seq(Contexts) /\ DOMAIN interrupted = {}
  BY <1>1
<1>. QED  BY <1>1, <1>2 DEF FramesInv, FramesKept

(* What handlers return to stays on the stack, in every program whose        *)
(* handlers keep to their side.                                              *)
THEOREM FramesStay ==
    ASSUME NEW Contents, HoldsBytes(Contents), KeepsStack(Contents), Memories \subseteq Contents
    PROVE  Spec /\ HandlersBehave => []FramesKept
<1>1. Init => FramesInv(Contents)
  BY FramesInit
<1>2. FramesInv(Contents) /\ [Next]_vars /\ [HandlerBehaves]_vars => FramesInv(Contents)'
  BY FramesNext
<1>3. FramesInv(Contents) => FramesKept
  BY DEF FramesInv
<1>. QED  BY <1>1, <1>2, <1>3, PTL DEF Spec, HandlersBehave

(* And RTI takes each of them back to it: pc, stack pointer and status are   *)
(* those that irq(), nmi() or BRK found, wherever the interrupt fell.        *)
THEOREM HandlersInvisible ==
    ASSUME NEW Contents, HoldsBytes(Contents), KeepsStack(Contents), Memories \subseteq Contents
    PROVE  Spec /\ HandlersBehave => HandlersAreInvisible
<1>1. Init => FramesInv(Contents)
  BY FramesInit
<1>2. FramesInv(Contents) /\ [Next]_vars /\ [HandlerBehaves]_vars => FramesInv(Contents)'
  BY FramesNext
<1>3. FramesInv(Contents) /\ [Next]_vars /\ [HandlerBehaves]_vars
        => [HandlerReturns => Context(c', c'.pc) = Head(interrupted)]_vars
  BY ReturnsToContext
<1>. QED  BY <1>1, <1>2, <1>3, PTL DEF Spec, HandlersBehave, HandlersAreInvisible

-----------------------------------------------------------------------------
(* The test harness                                                          *)

(* The clock of the tests does not wrap.                                     *)
ClockHolds == MaxClock + MaxTicks <= ClockMod

(* exec() is between two instructions of a slice. It gives up on an invalid  *)
(* one only when that has stopped the CPU, and while it has run none it has  *)
(* ticks to spend.                                                           *)
InSlice ==
    LET call == frames[1]
    IN  /\ frames = <<call>>
        /\ call \in [fn : {"exec"}, at : {"loop"}, valid : BOOLEAN, due : Nat,
                     ran : BOOLEAN, alone : BOOLEAN]
        /\ call.valid \/ c.stopped
        /\ call.ran \/ c.stopped \/ clockticks < clockgoal

(* The goal is less than a slice beyond the limit and the clock less than an *)
(* instruction beyond the goal. The inductive step needs that a new slice    *)
(* begins only when the last one has used its ticks up.                      *)
SliceInv ==
    /\ test \in Tests
    /\ hasCallback = FALSE
    /\ clockgoal <= MaxClock
    /\ clockgoal < test.clockLimit + test.clockStep
    /\ clockticks < clockgoal + MaxTicks
    /\ phase = "exec" => InSlice
    /\ phase # "exec" => frames = <<>>
    /\ phase \notin {"exec", "judge", "end"} => clockgoal <= clockticks
    /\ phase = "judge" => c.stopped \/ (clockgoal <= clockticks /\ (ran \/ c.waiting))
    /\ verdict = "trapped" => phase = "end" /\ (ran \/ c.waiting)

HarnessInv(Contents) == MachineInv(Contents) /\ SliceInv

(* The harness before it has loaded the test.                                *)
LEMMA TestInitInv ==
    ASSUME NEW Contents, Memories \subseteq Contents, ClockHolds, TestInit
    PROVE  HarnessInv(Contents)
<1>1. MachineInv(Contents)
  BY InitInv DEF TestInit
<1>2. /\ test \in Tests /\ hasCallback = FALSE /\ clockticks = 0 /\ clockgoal = 0
      /\ frames = <<>> /\ phase = "load" /\ verdict = "none"
  BY DEF TestInit, Init
<1>3. /\ MaxClock \in Nat /\ MaxTicks \in Nat /\ MaxTicks >= 7
      /\ test.clockLimit \in Nat /\ test.clockStep \in Nat /\ test.clockStep >= MaxTicks
  BY <1>2, MachineAssumption, TestsAssumption
<1>. QED  BY <1>1, <1>2, <1>3 DEF HarnessInv, SliceInv

(* A counter that stays below its width does not wrap.                       *)
LEMMA AdvanceSmall ==
    ASSUME NEW clock \in Nat, NEW ticks \in Nat, clock + ticks < ClockMod
    PROVE  Advance(clock, ticks) = clock + ticks
BY MachineAssumption DEF Advance

(* An instruction takes at most 7 ticks; an invalid one takes none and       *)
(* leaves the CPU stopped.                                                   *)
LEMMA StepTicks ==
    ASSUME NEW valid \in BOOLEAN, RC!StepInstruction(valid), clockticks \in Nat,
           clockticks + 7 < ClockMod
    PROVE  /\ valid => clockticks' \in (clockticks + 1)..(clockticks + 7)
           /\ ~valid => clockticks' = clockticks /\ c'.stopped
<1>1. ASSUME NEW ticks \in 1..7, RC!Retire(ticks)
      PROVE  clockticks' \in (clockticks + 1)..(clockticks + 7)
  <2>1. ticks \in Nat /\ clockticks + ticks < ClockMod
    BY MachineAssumption
  <2>2. clockticks' = Advance(clockticks, ticks)
    BY <1>1 DEF RC!Retire, RC!Advance, Advance
  <2>. QED  BY <2>1, <2>2, AdvanceSmall
<1>2. CASE valid
  <2>1. \E ticks \in 1..7 : RC!Retire(ticks)
    <3>1. RC!Insn \/ RC!Wai \/ RC!Stp
      BY <1>2, Zenon DEF RC!StepInstruction
    <3>2. RC!Insn => \E ticks \in 2..7 : RC!Retire(ticks)
      BY Zenon DEF RC!Insn
    <3>3. RC!Wai => RC!Retire(3)
      BY Zenon DEF RC!Wai
    <3>4. RC!Stp => RC!Retire(1)
      BY Zenon DEF RC!Stp
    <3>5. 2..7 \subseteq 1..7 /\ 3 \in 1..7 /\ 1 \in 1..7
      OBVIOUS
    <3>. QED  BY <3>1, <3>2, <3>3, <3>4, <3>5, Zenon
  <2>. QED  BY <1>1, <1>2, <2>1
<1>3. CASE ~valid
  <2>1. \/ /\ c.stopped
           /\ UNCHANGED <<c.waiting, c.stopped, "I" \in c.status, clockticks, instructions>>
        \/ RC!Ill
    BY <1>3, Zenon DEF RC!StepInstruction
  <2>2. RC!Ill => c'.stopped /\ clockticks' = clockticks
    BY Zenon DEF RC!Ill
  <2>. QED  BY <1>3, <2>1, <2>2
<1>. QED  BY <1>2, <1>3

(* Every step of the harness.                                                *)
LEMMA TestNextInv ==
    ASSUME NEW Contents, HoldsBytes(Contents), ClockHolds,
           HarnessInv(Contents), [TestNext]_all
    PROVE  HarnessInv(Contents)'
<1>0. /\ MachineInv(Contents) /\ SliceInv
      /\ clockticks \in Nat /\ clockgoal \in Nat /\ clockticks < ClockMod
      /\ ClockMod \in Nat /\ MaxClock \in Nat /\ MaxTicks \in Nat /\ MaxTicks >= 7
      /\ MaxClock + MaxTicks <= ClockMod
      /\ test.clockLimit \in Nat /\ test.clockStep \in Nat /\ test.clockStep >= MaxTicks
  BY MachineAssumption, TestsAssumption DEF HarnessInv, SliceInv, MachineInv, ClockHolds
<1>1. ASSUME UNCHANGED vars
      PROVE  MachineInv(Contents)' /\ UNCHANGED <<c, hasCallback, clockticks, clockgoal, frames>>
  BY <1>0, <1>1 DEF vars, client, MachineInv
<1>2. CASE Load
  <2>1. /\ phase = "load" /\ UNCHANGED vars /\ UNCHANGED <<test, ran>>
        /\ phase' \in {"end", "memory"} /\ verdict' \in {"not loaded", verdict}
    BY <1>2, Zenon DEF Load, Ends, Goes
  <2>. QED  BY <1>0, <1>1, <2>1, Zenon DEF HarnessInv, SliceInv
<1>3. CASE Connect
  <2>1. /\ phase = "memory" /\ SetMemoryController /\ phase' = "reset"
        /\ UNCHANGED <<test, verdict, ran>>
    BY <1>3 DEF Connect, Goes
  <2>2. MachineInv(Contents)'
    BY <1>0, <2>1, NextRefines DEF Next
  <2>3. UNCHANGED <<hasCallback, clockgoal, frames, clockticks>>
    BY <2>1 DEF SetMemoryController, client
  <2>. QED  BY <1>0, <2>1, <2>2, <2>3 DEF HarnessInv, SliceInv
<1>4. CASE ResetCpu
  <2>1. /\ phase = "reset" /\ Reset /\ phase' = "start" /\ UNCHANGED <<test, verdict, ran>>
    BY <1>4 DEF ResetCpu, Goes
  <2>2. MachineInv(Contents)'
    BY <1>0, <2>1, NextRefines DEF Next
  <2>3. UNCHANGED <<hasCallback, clockgoal, frames, clockticks>>
    BY <2>1 DEF Reset, client
  <2>. QED  BY <1>0, <2>1, <2>2, <2>3 DEF HarnessInv, SliceInv
<1>5. CASE Start
  <2>1. /\ phase = "start" /\ SetPC /\ phase' = "loop" /\ UNCHANGED <<test, verdict, ran>>
    BY <1>5 DEF Start, Goes
  <2>2. MachineInv(Contents)'
    BY <1>0, <2>1, NextRefines DEF Next
  <2>3. UNCHANGED <<hasCallback, clockgoal, frames, clockticks>>
    BY <2>1 DEF SetPC, client
  <2>. QED  BY <1>0, <2>1, <2>2, <2>3 DEF HarnessInv, SliceInv
<1>6. CASE BeginSlice
  <2>1. /\ phase = "loop" /\ clockticks < test.clockLimit /\ ran' = FALSE
        /\ UNCHANGED <<test, verdict>>
        /\ \/ Wait(test.clockStep) /\ phase' = "judge"
           \/ ExecCall(test.clockStep) /\ phase' = "exec"
    BY <1>6 DEF BeginSlice, GoesOn
  <2>2. frames = <<>> /\ clockgoal <= clockticks /\ verdict # "trapped" /\ hasCallback = FALSE
    BY <1>0, <2>1 DEF SliceInv
  <2>3. CASE Wait(test.clockStep) /\ phase' = "judge"
    <3>1. /\ c.waiting /\ clockticks + test.clockStep <= MaxClock
          /\ clockticks' = Advance(clockticks, test.clockStep)
          /\ clockgoal' = clockticks' /\ frames' = frames
          /\ UNCHANGED <<c, hasCallback, instructions>>
      BY <2>2, <2>3 DEF Wait, Disturbed
    <3>2. clockticks' = clockticks + test.clockStep
      BY <1>0, <3>1, AdvanceSmall
    <3>3. MachineInv(Contents)'
      BY <1>0, <3>1, <3>2 DEF MachineInv
    <3>. QED  BY <1>0, <2>1, <2>2, <2>3, <3>1, <3>2, <3>3, SMTT(30) DEF HarnessInv, SliceInv
  <2>4. CASE ExecCall(test.clockStep) /\ phase' = "exec"
    <3> DEFINE call == [fn |-> "exec", at |-> "loop", valid |-> TRUE,
                        due |-> clockticks + test.clockStep, ran |-> FALSE, alone |-> TRUE]
    <3>1. /\ clockgoal + test.clockStep <= MaxClock
          /\ clockgoal' = Advance(clockgoal, test.clockStep)
          /\ frames' = <<call>> \o <<>>
          /\ UNCHANGED <<c, hasCallback, clockticks, instructions>>
      BY <2>2, <2>4 DEF ExecCall, Enter, Disturbed
    <3>2. clockgoal' = clockgoal + test.clockStep
      BY <1>0, <3>1, AdvanceSmall
    <3>3. MachineInv(Contents)'
      BY <1>0, <3>1, <3>2 DEF MachineInv
    <3>4. frames' = <<call>>
      BY <3>1
    <3>5. /\ call \in [fn : {"exec"}, at : {"loop"}, valid : BOOLEAN, due : Nat,
                       ran : BOOLEAN, alone : BOOLEAN]
          /\ call.valid
      BY <1>0
    <3> HIDE DEF call
    <3>6. clockticks < clockgoal'
      BY <1>0, <3>2 DEF SliceInv
    <3>7. InSlice'
      BY <3>1, <3>4, <3>5, <3>6 DEF InSlice
    <3>. QED  BY <1>0, <2>1, <2>2, <2>4, <3>1, <3>2, <3>3, <3>7, SMTT(30) DEF HarnessInv, SliceInv
  <2>. QED  BY <2>1, <2>3, <2>4
<1>7. CASE Run
  <2>1. /\ phase = "exec" /\ ExecIterate /\ UNCHANGED <<test, phase, verdict, ran>>
    BY <1>7 DEF Run, harness
  <2>2. InSlice /\ hasCallback = FALSE /\ verdict # "trapped" /\ clockgoal <= MaxClock
    BY <1>0, <2>1 DEF SliceInv
  <2>3. MachineInv(Contents)'
    BY <1>0, <2>1, NextRefines DEF Next
  <2>4. PICK valid \in BOOLEAN :
          /\ StepInstruction(valid)
          /\ frames' = [frames EXCEPT ![1] = [frames[1] EXCEPT
               !.valid = valid,
               !.ran = @ \/ valid,
               !.at = IF valid /\ hasCallback THEN "callback" ELSE "loop"]]
    BY <2>1, Zenon DEF ExecIterate
  <2>5. UNCHANGED <<hasCallback, clockgoal>> /\ clockticks < clockgoal
    BY <2>1 DEF ExecIterate, LoopCondition
  <2>6. RC!StepInstruction(valid)
    BY <1>0, <2>4, StepRefines
  <2>7. /\ valid => clockticks' \in (clockticks + 1)..(clockticks + 7)
        /\ ~valid => clockticks' = clockticks /\ c'.stopped
    BY <1>0, <2>2, <2>5, <2>6, StepTicks
  <2> DEFINE call == [frames[1] EXCEPT !.valid = valid, !.ran = @ \/ valid,
                        !.at = IF valid /\ hasCallback THEN "callback" ELSE "loop"]
  <2>8. /\ call \in [fn : {"exec"}, at : {"loop"}, valid : BOOLEAN, due : Nat,
                     ran : BOOLEAN, alone : BOOLEAN]
        /\ call.valid = valid
        /\ valid => call.ran
    <3> DEFINE now == frames[1].ran \/ valid
               place == IF valid /\ hasCallback THEN "callback" ELSE "loop"
    <3>1. now \in BOOLEAN /\ (valid => now) /\ place = "loop"
      BY <2>2
    <3>2. call = [frames[1] EXCEPT !.valid = valid, !.ran = now, !.at = place]
      BY Zenon
    <3> HIDE DEF call, now, place
    <3>3. call = [frames[1] EXCEPT !.valid = valid, !.ran = now, !.at = "loop"]
      BY <3>1, <3>2
    <3>. QED  BY <2>2, <3>1, <3>3 DEF InSlice
  <2>9. frames' = [frames EXCEPT ![1] = call] /\ frames = <<frames[1]>>
    BY <2>2, <2>4 DEF InSlice
  <2> HIDE DEF call
  <2>10. frames' = <<call>>
    BY <2>9
  <2>11. InSlice'
    BY <2>7, <2>8, <2>10 DEF InSlice
  <2>. QED  BY <1>0, <2>1, <2>2, <2>3, <2>5, <2>7, <2>11 DEF HarnessInv, SliceInv
<1>8. CASE EndSlice
  <2>1. /\ phase = "exec" /\ ExecReturn /\ phase' = "judge" /\ ran' = Head(frames).ran
        /\ UNCHANGED <<test, verdict>>
    BY <1>8 DEF EndSlice
  <2>2. InSlice /\ verdict # "trapped"
    BY <1>0, <2>1 DEF SliceInv
  <2>3. /\ ~LoopCondition /\ frames' = Tail(frames)
        /\ UNCHANGED <<c, hasCallback, clockticks, clockgoal>>
    BY <2>1 DEF ExecReturn
  <2>4. Head(frames) = frames[1] /\ Tail(frames) = <<>>
    <3>1. PICK call : frames = <<call>>
      BY <2>2, Zenon DEF InSlice
    <3>. QED  BY <3>1
  <2>5. MachineInv(Contents)'
    BY <1>0, <2>1, NextRefines DEF Next
  <2>6. c.stopped \/ (clockgoal <= clockticks /\ ran')
    BY <1>0, <2>1, <2>2, <2>3, <2>4 DEF InSlice, LoopCondition
  <2>. QED  BY <1>0, <2>1, <2>2, <2>3, <2>4, <2>5, <2>6 DEF HarnessInv, SliceInv
<1>9. CASE Judge
  <2>1. /\ phase = "judge" /\ UNCHANGED vars /\ UNCHANGED <<test, ran>>
        /\ \/ phase' = "loop" /\ Verdict = "none" /\ verdict' = verdict
           \/ phase' = "end" /\ verdict' = Verdict
    BY <1>9 DEF Judge, Goes, Ends
  <2>2. c.stopped \/ (clockgoal <= clockticks /\ (ran \/ c.waiting))
    BY <1>0, <2>1 DEF SliceInv
  <2>3. Verdict \in {"none", "trapped"} => ~c.stopped
    BY DEF Verdict
  <2>. QED  BY <1>0, <1>1, <2>1, <2>2, <2>3 DEF HarnessInv, SliceInv
<1>10. CASE ReachLimit
  <2>1. /\ phase = "loop" /\ UNCHANGED vars /\ UNCHANGED <<test, ran>>
        /\ phase' = "end" /\ verdict' = "limit"
    BY <1>10 DEF ReachLimit, Ends
  <2>. QED  BY <1>0, <1>1, <2>1 DEF HarnessInv, SliceInv
<1>11. CASE UNCHANGED all
  <2>1. UNCHANGED vars /\ UNCHANGED <<test, phase, verdict, ran>>
    BY <1>11 DEF all, harness
  <2>. QED  BY <1>0, <1>1, <2>1 DEF HarnessInv, SliceInv, InSlice
<1>. QED
  BY <1>2, <1>3, <1>4, <1>5, <1>6, <1>7, <1>8, <1>9, <1>10, <1>11 DEF TestNext

(* No test runs beyond its limit by more than a slice and an instruction.    *)
THEOREM LimitHolds ==
    ASSUME NEW Contents, HoldsBytes(Contents), Memories \subseteq Contents, ClockHolds
    PROVE  TestSpec => []LimitKept
<1>1. TestInit => HarnessInv(Contents)
  BY TestInitInv
<1>2. HarnessInv(Contents) /\ [TestNext]_all => HarnessInv(Contents)'
  BY TestNextInv
<1>3. HarnessInv(Contents) => LimitKept
  <2> SUFFICES ASSUME HarnessInv(Contents) PROVE LimitKept
    OBVIOUS
  <2>1. /\ clockticks \in Nat /\ clockgoal \in Nat /\ MaxTicks \in Nat
        /\ test.clockLimit \in Nat /\ test.clockStep \in Nat
    BY MachineAssumption, TestsAssumption DEF HarnessInv, SliceInv, MachineInv
  <2>. QED  BY <2>1 DEF HarnessInv, SliceInv, LimitKept
<1>. QED  BY <1>1, <1>2, <1>3, PTL DEF TestSpec

(* A test called trapped has run an instruction in its last slice, or waits. *)
THEOREM TrapsHaveRun ==
    ASSUME NEW Contents, HoldsBytes(Contents), Memories \subseteq Contents, ClockHolds
    PROVE  TestSpec => []TrapsRan
<1>1. TestInit => HarnessInv(Contents)
  BY TestInitInv
<1>2. HarnessInv(Contents) /\ [TestNext]_all => HarnessInv(Contents)'
  BY TestNextInv
<1>3. HarnessInv(Contents) => TrapsRan
  BY DEF HarnessInv, SliceInv, TrapsRan
<1>. QED  BY <1>1, <1>2, <1>3, PTL DEF TestSpec
=============================================================================
