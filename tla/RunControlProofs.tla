-------------------------- MODULE RunControlProofs --------------------------
(* Proofs about the run control, for any tick table, any budgets, any depth *)
(* of nested calls and any width of the clock.                              *)
EXTENDS RunControl, SequenceTheorems, TLAPS

-----------------------------------------------------------------------------
(* The call stack as a sequence with its innermost call first               *)

(* A call enters exec() or step().                                          *)
LEMMA Push ==
    ASSUME NEW S, NEW stack \in Seq(S), NEW e \in S
    PROVE  /\ <<e>> \o stack \in Seq(S)
           /\ Len(<<e>> \o stack) = Len(stack) + 1
           /\ (<<e>> \o stack)[1] = e
           /\ \A i \in 1..Len(stack) : (<<e>> \o stack)[i + 1] = stack[i]
BY ConcatProperties, Len(<<e>>) = 1

(* A call returns.                                                          *)
LEMMA Pop ==
    ASSUME NEW S, NEW stack \in Seq(S), stack # <<>>
    PROVE  /\ Tail(stack) \in Seq(S)
           /\ Len(stack) > 0
           /\ Len(Tail(stack)) = Len(stack) - 1
           /\ Head(stack) = stack[1]
           /\ stack[1] \in S
           /\ \A i \in 1..Len(Tail(stack)) : Tail(stack)[i] = stack[i + 1]
BY HeadTailProperties, EmptySeq

(* The innermost call goes on.                                              *)
LEMMA Top ==
    ASSUME NEW S, NEW stack \in Seq(S), stack # <<>>, NEW e \in S
    PROVE  /\ [stack EXCEPT ![1] = e] \in Seq(S)
           /\ Len([stack EXCEPT ![1] = e]) = Len(stack)
           /\ [stack EXCEPT ![1] = e][1] = e
           /\ \A i \in 2..Len(stack) : [stack EXCEPT ![1] = e][i] = stack[i]
BY ExceptSeq

-----------------------------------------------------------------------------
(* The counters wrap into their width.                                      *)
LEMMA AdvanceType ==
    ASSUME NEW clock \in Nat, NEW ticks \in Nat
    PROVE  Advance(clock, ticks) \in 0..(ClockMod - 1)
BY ClockAssumption DEF Advance

(* The CPU as constructed is well typed.                                    *)
LEMMA InitType == Init => TypeOK
<1>1. /\ 0 \in 0..(ClockMod - 1)
      /\ 0 <= MaxNesting
  BY ClockAssumption
<1>2. <<>> \in Seq(Frame) /\ Len(<<>>) = 0
  BY EmptySeq
<1>. QED  BY <1>1, <1>2 DEF Init, TypeOK

(* stepInstruction() keeps the types.                                       *)
LEMMA StepInstructionType ==
    ASSUME TypeOK, NEW valid \in BOOLEAN, StepInstruction(valid)
    PROVE  /\ waiting' \in BOOLEAN
           /\ stopped' \in BOOLEAN
           /\ interrupt' \in BOOLEAN
           /\ clockticks' \in 0..(ClockMod - 1)
           /\ instructions' \in 0..(ClockMod - 1)
<1> USE DEF TypeOK
<1>1. ASSUME NEW ticks \in 1..MaxTicks, Retire(ticks)
      PROVE  /\ clockticks' \in 0..(ClockMod - 1)
             /\ instructions' \in 0..(ClockMod - 1)
  BY <1>1, AdvanceType, TicksAssumption DEF Retire
<1>2. CASE Insn
  BY <1>1, <1>2, TicksAssumption DEF Insn
<1>3. CASE Wai
  BY <1>1, <1>3, TicksAssumption DEF Wai
<1>4. CASE Stp
  BY <1>1, <1>4, TicksAssumption DEF Stp
<1>5. CASE Ill
  BY <1>5 DEF Ill
<1>6. CASE UNCHANGED <<waiting, stopped, interrupt, clockticks, instructions>>
  BY <1>6
<1>. QED  BY <1>2, <1>3, <1>4, <1>5, <1>6 DEF StepInstruction

(* Marking the innermost call changes nothing else in the stack.            *)
LEMMA DisturbedType ==
    ASSUME TypeOK
    PROVE  /\ Disturbed \in Seq(Frame)
           /\ Len(Disturbed) = Len(frames)
           /\ \A i \in 1..Len(frames) :
                 /\ Disturbed[i].fn = frames[i].fn
                 /\ Disturbed[i].valid = frames[i].valid
                 /\ Disturbed[i].alone <=> i # 1 /\ frames[i].alone
<1>0. frames \in Seq(Frame)
  BY DEF TypeOK
<1>1. CASE frames = <<>>
  BY <1>0, <1>1, EmptySeq DEF Disturbed
<1>2. CASE frames # <<>>
  <2> DEFINE frame == [frames[1] EXCEPT !.alone = FALSE]
  <2>1. frames[1] \in Frame
    BY <1>0, <1>2, Pop
  <2>2. /\ frame \in Frame
        /\ frame.fn = frames[1].fn
        /\ frame.valid = frames[1].valid
        /\ frame.alone = FALSE
    BY <2>1 DEF Frame
  <2>3. Disturbed = [frames EXCEPT ![1] = frame]
    BY <1>2 DEF Disturbed
  <2> HIDE DEF frame
  <2>4. /\ Disturbed \in Seq(Frame)
        /\ Len(Disturbed) = Len(frames)
        /\ Disturbed[1] = frame
        /\ \A i \in 2..Len(frames) : Disturbed[i] = frames[i]
    BY <1>0, <1>2, <2>2, <2>3, Top
  <2>5. ASSUME NEW i \in 1..Len(frames), i # 1
        PROVE  Disturbed[i] = frames[i]
    <3>1. i \in 2..Len(frames)
      BY <1>0, <2>5, LenProperties
    <3>. QED  BY <2>4, <3>1
  <2>. QED  BY <2>2, <2>4, <2>5
<1>. QED  BY <1>1, <1>2

(* A call that is entered keeps the types.                                  *)
LEMMA EnterType ==
    ASSUME TypeOK, NEW fn \in {"step", "exec"}, NEW at \in {"loop", "callback"},
           NEW valid \in BOOLEAN, NEW due \in Nat, Enter(fn, at, valid, due)
    PROVE  frames' \in Seq(Frame) /\ Len(frames') <= MaxNesting
<1> DEFINE frame == [fn |-> fn, at |-> at, valid |-> valid, due |-> due,
                     ran |-> FALSE, alone |-> TRUE]
<1>1. frame \in Frame
  BY DEF Frame
<1>2. frames' = <<frame>> \o Disturbed /\ Len(frames) < MaxNesting
  BY DEF Enter
<1> HIDE DEF frame
<1>3. frames' \in Seq(Frame) /\ Len(frames') = Len(frames) + 1
  BY <1>1, <1>2, DisturbedType, Push
<1>. QED  BY <1>2, <1>3, ClockAssumption, LenProperties DEF TypeOK

(* So does every step.                                                      *)
LEMMA NextType == TypeOK /\ [Next]_vars => TypeOK'
<1> SUFFICES ASSUME TypeOK, [Next]_vars
             PROVE  TypeOK'
  OBVIOUS
<1>0. /\ clockticks \in Nat
      /\ clockgoal \in Nat
      /\ instructions \in Nat
  BY ClockAssumption DEF TypeOK
<1>1. CASE SetMemoryController
  BY <1>1 DEF SetMemoryController, TypeOK
<1>2. CASE SetLoopCallback
  BY <1>2 DEF SetLoopCallback, TypeOK
<1>3. CASE Reset
  BY <1>3 DEF Reset, config, TypeOK
<1>4. CASE Interrupt
  BY <1>4 DEF Interrupt, config, TypeOK
<1>5. CASE StepWaiting
  BY <1>0, <1>5, AdvanceType, DisturbedType DEF StepWaiting, config, TypeOK
<1>6. CASE Step
  <2>1. PICK valid \in BOOLEAN :
          /\ StepInstruction(valid)
          /\ IF hasCallback THEN Enter("step", "callback", valid, clockticks)
                            ELSE frames' = Disturbed
    BY <1>6 DEF Step
  <2>2. frames' \in Seq(Frame) /\ Len(frames') <= MaxNesting
    BY <1>0, <2>1, EnterType, DisturbedType DEF TypeOK
  <2>3. clockgoal' = clockticks' /\ UNCHANGED config
    BY <1>6 DEF Step
  <2>. QED  BY <2>1, <2>2, <2>3, StepInstructionType DEF config, TypeOK
<1>7. ASSUME NEW tickcount \in Budgets, ExecWaiting(tickcount)
      PROVE  TypeOK'
  <2>1. tickcount \in Nat
    BY ClockAssumption
  <2>. QED  BY <1>0, <1>7, <2>1, AdvanceType, DisturbedType DEF ExecWaiting, config, TypeOK
<1>8. ASSUME NEW tickcount \in Budgets, ExecCall(tickcount)
      PROVE  TypeOK'
  <2>1. tickcount \in Nat /\ clockticks + tickcount \in Nat
    BY <1>0, ClockAssumption
  <2>2. frames' \in Seq(Frame) /\ Len(frames') <= MaxNesting
    BY <1>8, <2>1, EnterType DEF ExecCall
  <2>. QED  BY <1>0, <1>8, <2>1, <2>2, AdvanceType DEF ExecCall, config, TypeOK
<1>9. CASE ExecIterate
  <2>1. PICK valid \in BOOLEAN :
          /\ StepInstruction(valid)
          /\ frames' = [frames EXCEPT ![1] = [frames[1] EXCEPT
                !.valid = valid,
                !.ran = @ \/ valid,
                !.at = IF valid /\ hasCallback THEN "callback" ELSE "loop"]]
    BY <1>9, Zenon DEF ExecIterate
  <2>2. frames # <<>> /\ frames \in Seq(Frame)
    BY <1>9 DEF ExecIterate, InExecLoop, TypeOK
  <2>3. frames[1] \in Frame
    BY <2>2, Pop
  <2>4. [frames[1] EXCEPT !.valid = valid, !.ran = @ \/ valid,
           !.at = IF valid /\ hasCallback THEN "callback" ELSE "loop"] \in Frame
    BY <2>3 DEF Frame
  <2>5. frames' \in Seq(Frame) /\ Len(frames') <= MaxNesting
    BY <2>1, <2>2, <2>4, Top DEF TypeOK
  <2>6. UNCHANGED <<config, clockgoal>>
    BY <1>9 DEF ExecIterate
  <2>. QED  BY <2>1, <2>5, <2>6, StepInstructionType DEF config, TypeOK
<1>10. CASE ExecReturn
  <2>1. frames' \in Seq(Frame) /\ Len(frames') <= MaxNesting
    BY <1>10, Pop, LenProperties, ClockAssumption DEF ExecReturn, InExecLoop, TypeOK
  <2>. QED  BY <1>10, <2>1 DEF ExecReturn, config, TypeOK
<1>11. CASE CallbackReturn
  <2>1. frames # <<>> /\ frames \in Seq(Frame) /\ Len(frames) <= MaxNesting
    BY <1>11 DEF CallbackReturn, TypeOK
  <2>2. frames[1] \in Frame
    BY <2>1, Pop
  <2>3. [frames[1] EXCEPT !.at = "loop"] \in Frame
    BY <2>2 DEF Frame
  <2>4. [frames EXCEPT ![1].at = "loop"] \in Seq(Frame)
        /\ Len([frames EXCEPT ![1].at = "loop"]) = Len(frames)
    BY <2>1, <2>3, Top
  <2>5. frames' \in Seq(Frame) /\ Len(frames') <= MaxNesting
    BY <1>11, <2>1, <2>4, Pop, LenProperties, ClockAssumption DEF CallbackReturn
  <2>. QED  BY <1>11, <2>5 DEF CallbackReturn, config, TypeOK
<1>12. CASE UNCHANGED vars
  BY <1>12 DEF vars, TypeOK
<1>. QED
  BY <1>1, <1>2, <1>3, <1>4, <1>5, <1>6, <1>7, <1>8, <1>9, <1>10, <1>11, <1>12
     DEF Next, ClientCall

(* Every reachable state is well typed: the counters stay within the width  *)
(* of the clock and the stack within the nesting bound.                     *)
THEOREM TypeCorrect == Spec => []TypeOK
BY InitType, NextType, PTL DEF Spec

-----------------------------------------------------------------------------
(* The clock against the goal                                               *)

(* While there is still something to run, the goal is one that a client set *)
(* below MaxClock, so the sums below never reach the width of the clock.    *)
ClockBounded ==
    /\ clockticks < MaxClock + MaxTicks
    /\ clockticks < clockgoal => clockgoal <= MaxClock

ClockInv == TypeOK /\ Overshoot /\ ClockBounded

(* A counter that stays below its width does not wrap.                      *)
LEMMA AdvanceSmall ==
    ASSUME NEW clock \in Nat, NEW ticks \in Nat, clock + ticks < ClockMod
    PROVE  Advance(clock, ticks) = clock + ticks
BY ClockAssumption DEF Advance

(* A clock and a goal set to the same value obey the overshoot bound.       *)
LEMMA InStep ==
    ASSUME NEW clock \in Nat, NEW goal \in Nat, clock = goal
    PROVE  clock < goal + MaxTicks /\ ~(clock < goal)
BY TicksAssumption

(* An instruction that starts before MaxClock moves the clock on by at most *)
(* MaxTicks, without wrapping it, and a stopped CPU runs none.              *)
LEMMA StepInstructionTicks ==
    ASSUME NoWrap, TypeOK, clockticks < MaxClock,
           NEW valid \in BOOLEAN, StepInstruction(valid)
    PROVE  clockticks <= clockticks' /\ clockticks' <= clockticks + MaxTicks
<1>0. clockticks \in Nat /\ MaxTicks \in Nat /\ MaxClock \in Nat /\ ClockMod \in Nat
  BY ClockAssumption, TicksAssumption DEF TypeOK
<1>1. ASSUME NEW ticks \in 1..MaxTicks, Retire(ticks)
      PROVE  clockticks <= clockticks' /\ clockticks' <= clockticks + MaxTicks
  <2>1. clockticks + ticks < ClockMod
    BY <1>0 DEF NoWrap
  <2>. QED  BY <1>0, <1>1, <2>1, AdvanceSmall DEF Retire
<1>2. CASE Insn \/ Wai \/ Stp
  BY <1>1, <1>2, TicksAssumption DEF Insn, Wai, Stp
<1>3. CASE UNCHANGED clockticks
  BY <1>0, <1>3
<1>. QED  BY <1>2, <1>3 DEF StepInstruction, Ill

(* Every step keeps the clock within an instruction of the goal.            *)
LEMMA ClockStep == NoWrap /\ ClockInv /\ [Next]_vars => ClockInv'
<1> SUFFICES ASSUME NoWrap, ClockInv, [Next]_vars
             PROVE  ClockInv'
  OBVIOUS
<1>0. /\ clockticks \in Nat /\ clockgoal \in Nat
      /\ clockticks' \in Nat /\ clockgoal' \in Nat
      /\ MaxTicks \in Nat /\ MaxTicks > 0 /\ MaxClock \in Nat /\ ClockMod \in Nat
      /\ TypeOK /\ TypeOK'
  BY NextType, ClockAssumption, TicksAssumption DEF ClockInv, TypeOK
<1>1. SUFFICES (Overshoot /\ ClockBounded)'
  BY <1>0 DEF ClockInv
<1>2. CASE UNCHANGED <<clockticks, clockgoal>>
  BY <1>2 DEF ClockInv, Overshoot, ClockBounded
<1>3. CASE StepWaiting
  <2>1. clockticks + 1 < ClockMod
    BY <1>0, <1>3 DEF StepWaiting, NoWrap
  <2>2. clockticks' = clockticks + 1 /\ clockgoal' = clockticks'
    BY <1>0, <1>3, <2>1, AdvanceSmall DEF StepWaiting
  <2>. QED  BY <1>0, <1>3, <2>2 DEF StepWaiting, Overshoot, ClockBounded
<1>4. CASE Step
  <2>1. clockticks < MaxClock /\ clockgoal' = clockticks'
    BY <1>4 DEF Step
  <2>2. clockticks' <= clockticks + MaxTicks
    BY <1>4, <1>0, <2>1, StepInstructionTicks DEF Step
  <2>3. clockticks' < MaxClock + MaxTicks
    BY <1>0, <2>1, <2>2
  <2>. QED  BY <1>0, <2>1, <2>3, InStep DEF Overshoot, ClockBounded
<1>5. ASSUME NEW tickcount \in Budgets, ExecWaiting(tickcount)
      PROVE  (Overshoot /\ ClockBounded)'
  <2>1. tickcount \in Nat /\ clockticks + tickcount <= MaxClock
    BY <1>5, ClockAssumption DEF ExecWaiting
  <2>2. clockticks' = clockticks + tickcount /\ clockgoal' = clockticks'
    BY <1>0, <1>5, <2>1, AdvanceSmall DEF ExecWaiting, NoWrap
  <2>. QED  BY <1>0, <2>1, <2>2 DEF Overshoot, ClockBounded
<1>6. ASSUME NEW tickcount \in Budgets, ExecCall(tickcount)
      PROVE  (Overshoot /\ ClockBounded)'
  <2>1. tickcount \in Nat /\ clockgoal + tickcount <= MaxClock
    BY <1>6, ClockAssumption DEF ExecCall
  <2>2. clockgoal' = clockgoal + tickcount /\ clockticks' = clockticks
    BY <1>0, <1>6, <2>1, AdvanceSmall DEF ExecCall, NoWrap
  <2>. QED  BY <1>0, <2>1, <2>2 DEF ClockInv, Overshoot, ClockBounded
<1>7. CASE ExecIterate
  <2>1. clockticks < clockgoal /\ clockgoal <= MaxClock /\ clockgoal' = clockgoal
    BY <1>7 DEF ExecIterate, LoopCondition, ClockInv, ClockBounded
  <2>2. clockticks' <= clockticks + MaxTicks
    <3>1. clockticks < MaxClock
      BY <1>0, <2>1
    <3>. QED  BY <1>7, <1>0, <3>1, StepInstructionTicks DEF ExecIterate
  <2>. QED  BY <1>0, <2>1, <2>2 DEF Overshoot, ClockBounded
<1>. QED
  BY <1>2, <1>3, <1>4, <1>5, <1>6, <1>7
     DEF Next, ClientCall, vars, SetMemoryController, SetLoopCallback, Reset, Interrupt,
         ExecReturn, CallbackReturn

(* The clock part of the inductive invariant holds of the specification.    *)
LEMMA ClockInvariant == ASSUME NoWrap PROVE Spec => []ClockInv
<1>1. Init => ClockInv
  BY InitType, ClockAssumption, TicksAssumption DEF Init, ClockInv, Overshoot, ClockBounded
<1>2. ClockInv /\ [Next]_vars => ClockInv'
  BY ClockStep
<1>. QED  BY <1>1, <1>2, PTL DEF Spec

(* However step() and exec() nest through callbacks, the clock never runs   *)
(* past the goal by a whole instruction.                                    *)
THEOREM OvershootBounded == ASSUME NoWrap PROVE Spec => []Overshoot
<1>1. ClockInv => Overshoot
  BY DEF ClockInv
<1>. QED  BY <1>1, ClockInvariant, PTL

-----------------------------------------------------------------------------
(* The calls in progress                                                    *)

(* Only the innermost exec(), and only in its loop, can have met an illegal *)
(* opcode, which stopped the CPU; and only the innermost one can be alone,  *)
(* as long as the goal still covers its budget.                             *)
FrameInv ==
    \A i \in 1..Len(frames) :
        frames[i].fn = "exec"
          => /\ ~frames[i].valid => i = 1 /\ frames[i].at = "loop" /\ stopped
             /\ frames[i].alone => i = 1 /\ frames[i].due < clockgoal + MaxTicks

(* A client has control only inside an exec() whose instruction was valid.  *)
LEMMA ClientFrames ==
    ASSUME TypeOK, FrameInv, ClientHasControl, NEW i \in 1..Len(frames), frames[i].fn = "exec"
    PROVE  frames[i].valid
<1>1. frames \in Seq(Frame) /\ frames # <<>>
  BY EmptySeq DEF TypeOK
<1>2. frames[1].at = "callback" /\ frames[i] \in Frame
  BY <1>1, Pop DEF ClientHasControl
<1>. QED  BY <1>2 DEF FrameInv, Frame

(* Once a client has called step() or exec(), no exec() is alone.           *)
LEMMA DisturbedFrames ==
    ASSUME TypeOK, FrameInv, ClientHasControl, NEW i \in 1..Len(frames),
           Disturbed[i].fn = "exec"
    PROVE  Disturbed[i].valid /\ ~Disturbed[i].alone
BY DisturbedType, ClientFrames DEF FrameInv

(* Every step keeps the invariant of the calls in progress.                 *)
LEMMA FrameStep == NoWrap /\ ClockInv /\ FrameInv /\ [Next]_vars => FrameInv'
<1> SUFFICES ASSUME NoWrap, ClockInv, FrameInv, [Next]_vars
             PROVE  FrameInv'
  OBVIOUS
<1>0. /\ TypeOK
      /\ frames \in Seq(Frame)
      /\ clockticks \in Nat /\ clockgoal \in Nat
      /\ MaxTicks \in Nat /\ MaxClock \in Nat /\ ClockMod \in Nat
  BY ClockAssumption, TicksAssumption DEF ClockInv, TypeOK
<1>1. ASSUME ClientHasControl, UNCHANGED <<frames, clockgoal>>
      PROVE  FrameInv'
  BY <1>0, <1>1, ClientFrames DEF FrameInv
<1>2. ASSUME ClientHasControl, frames' = Disturbed
      PROVE  FrameInv'
  BY <1>0, <1>2, DisturbedType, DisturbedFrames DEF FrameInv
<1>3. ASSUME ClientHasControl, NEW fn \in {"step", "exec"}, NEW at \in {"loop", "callback"},
             NEW valid \in BOOLEAN, NEW due \in Nat, Enter(fn, at, valid, due),
             fn = "exec" => valid /\ due < clockgoal' + MaxTicks
      PROVE  FrameInv'
  <2> DEFINE frame == [fn |-> fn, at |-> at, valid |-> valid, due |-> due,
                       ran |-> FALSE, alone |-> TRUE]
  <2>1. frame \in Frame /\ frames' = <<frame>> \o Disturbed
    BY <1>3 DEF Frame, Enter
  <2>2. frame.fn = fn /\ frame.valid = valid /\ frame.due = due
    OBVIOUS
  <2> HIDE DEF frame
  <2>3. /\ Len(frames') = Len(frames) + 1
        /\ frames'[1] = frame
        /\ \A i \in 1..Len(frames) : frames'[i + 1] = Disturbed[i]
    BY <1>0, <2>1, Push, DisturbedType
  <2>4. ASSUME NEW i \in 1..Len(frames'), i # 1, frames'[i].fn = "exec"
        PROVE  frames'[i].valid /\ ~frames'[i].alone
    <3>1. i - 1 \in 1..Len(frames) /\ frames'[i] = Disturbed[i - 1]
      BY <1>0, <2>3, <2>4, LenProperties
    <3>. QED  BY <1>0, <1>3, <2>4, <3>1, DisturbedFrames
  <2>. QED  BY <1>3, <2>2, <2>3, <2>4 DEF FrameInv
<1>4. CASE SetMemoryController \/ SetLoopCallback \/ Reset \/ Interrupt
  BY <1>1, <1>4 DEF SetMemoryController, SetLoopCallback, Reset, Interrupt
<1>5. CASE StepWaiting
  BY <1>2, <1>5 DEF StepWaiting
<1>6. CASE Step
  <2>1. PICK valid \in BOOLEAN :
          IF hasCallback THEN Enter("step", "callback", valid, clockticks)
                         ELSE frames' = Disturbed
    BY <1>6 DEF Step
  <2>2. ClientHasControl
    BY <1>6 DEF Step
  <2>. QED  BY <1>0, <1>2, <1>3, <2>1, <2>2
<1>7. ASSUME NEW tickcount \in Budgets, ExecWaiting(tickcount)
      PROVE  FrameInv'
  BY <1>2, <1>7 DEF ExecWaiting
<1>8. ASSUME NEW tickcount \in Budgets, ExecCall(tickcount)
      PROVE  FrameInv'
  <2>1. tickcount \in Nat /\ clockgoal + tickcount <= MaxClock
    BY <1>8, ClockAssumption DEF ExecCall
  <2>2. MaxTicks > 0
    BY <1>0, TicksAssumption
  <2>3. clockgoal' = clockgoal + tickcount
    BY <1>0, <1>8, <2>1, <2>2, AdvanceSmall DEF ExecCall, NoWrap
  <2>4. clockticks + tickcount \in Nat
        /\ clockticks + tickcount < clockgoal' + MaxTicks
    BY <1>0, <2>1, <2>3 DEF ClockInv, Overshoot
  <2>5. ClientHasControl /\ Enter("exec", "loop", TRUE, clockticks + tickcount)
    BY <1>8 DEF ExecCall
  <2>. QED  BY <1>3, <2>4, <2>5
<1>9. CASE ExecIterate
  <2>1. PICK valid \in BOOLEAN :
          /\ StepInstruction(valid)
          /\ frames' = [frames EXCEPT ![1] = [frames[1] EXCEPT
                !.valid = valid,
                !.ran = @ \/ valid,
                !.at = IF valid /\ hasCallback THEN "callback" ELSE "loop"]]
    BY <1>9, Zenon DEF ExecIterate
  <2> DEFINE frame == [frames[1] EXCEPT
                !.valid = valid,
                !.ran = @ \/ valid,
                !.at = IF valid /\ hasCallback THEN "callback" ELSE "loop"]
  <2>2. /\ frames # <<>> /\ frames[1] \in Frame /\ frames[1].fn = "exec"
        /\ ~stopped /\ clockgoal' = clockgoal
    BY <1>0, <1>9, Pop DEF ExecIterate, InExecLoop, LoopCondition
  <2>3. /\ frame \in Frame
        /\ frame.due = frames[1].due
        /\ frame.alone = frames[1].alone
        /\ frame.valid = valid
        /\ ~valid => frame.at = "loop"
    BY <2>2 DEF Frame
  <2>4. frames' = [frames EXCEPT ![1] = frame]
    BY <2>1
  <2> HIDE DEF frame
  <2>5. /\ Len(frames') = Len(frames)
        /\ frames'[1] = frame
        /\ \A i \in 2..Len(frames) : frames'[i] = frames[i]
    BY <1>0, <2>2, <2>3, <2>4, Top
  <2>6. valid \/ stopped'
    BY <2>1, <2>2 DEF StepInstruction, Ill
  <2>7. frame.alone => frame.due < clockgoal' + MaxTicks
    <3>1. 1 \in 1..Len(frames)
      BY <1>0, <2>2, Pop, LenProperties
    <3>. QED  BY <2>2, <2>3, <3>1 DEF FrameInv
  <2>8. ASSUME NEW i \in 1..Len(frames'), i # 1, frames'[i].fn = "exec"
        PROVE  frames'[i].valid /\ ~frames'[i].alone
    <3>1. i \in 2..Len(frames) /\ i \in 1..Len(frames)
      BY <1>0, <2>5, <2>8, LenProperties
    <3>. QED  BY <2>5, <2>8, <3>1 DEF FrameInv
  <2>. QED  BY <2>3, <2>5, <2>6, <2>7, <2>8 DEF FrameInv
<1>10. ASSUME frames # <<>>, frames' = Tail(frames)
       PROVE  FrameInv'
  <2>1. ASSUME NEW i \in 1..Len(frames'), frames'[i].fn = "exec"
        PROVE  frames'[i].valid /\ ~frames'[i].alone
    <3>1. i + 1 \in 1..Len(frames) /\ i + 1 # 1 /\ frames'[i] = frames[i + 1]
      BY <1>0, <1>10, Pop, LenProperties
    <3>. QED  BY <2>1, <3>1 DEF FrameInv
  <2>. QED  BY <2>1 DEF FrameInv
<1>11. CASE ExecReturn
  BY <1>10, <1>11 DEF ExecReturn, InExecLoop
<1>12. CASE CallbackReturn
  <2>1. /\ frames # <<>> /\ frames[1] \in Frame
        /\ Head(frames) = frames[1]
        /\ clockgoal' = clockgoal
    BY <1>0, <1>12, Pop DEF CallbackReturn
  <2>2. CASE frames[1].fn = "exec"
    <3> DEFINE frame == [frames[1] EXCEPT !.at = "loop"]
    <3>1. frames' = [frames EXCEPT ![1] = frame]
      BY <1>12, <2>1, <2>2 DEF CallbackReturn
    <3>2. /\ frame \in Frame
          /\ frame.fn = frames[1].fn
          /\ frame.valid = frames[1].valid
          /\ frame.due = frames[1].due
          /\ frame.alone = frames[1].alone
      BY <2>1 DEF Frame
    <3> HIDE DEF frame
    <3>3. /\ Len(frames') = Len(frames)
          /\ frames'[1] = frame
          /\ \A i \in 2..Len(frames) : frames'[i] = frames[i]
      BY <1>0, <2>1, <3>1, <3>2, Top
    <3>4. ClientHasControl
      BY <1>12 DEF CallbackReturn, ClientHasControl
    <3>5. ASSUME NEW i \in 1..Len(frames'), frames'[i].fn = "exec"
          PROVE  /\ frames'[i].valid
                 /\ frames'[i].alone => i = 1 /\ frames'[i].due < clockgoal' + MaxTicks
      <4>1. CASE i = 1
        BY <1>0, <2>1, <2>2, <3>2, <3>3, <3>4, <3>5, <4>1, ClientFrames DEF FrameInv
      <4>2. CASE i # 1
        <5>1. i \in 2..Len(frames) /\ i \in 1..Len(frames)
          BY <1>0, <3>3, <4>2, LenProperties
        <5>. QED  BY <1>0, <3>3, <3>4, <3>5, <4>2, <5>1, ClientFrames DEF FrameInv
      <4>. QED  BY <4>1, <4>2
    <3>. QED  BY <3>5 DEF FrameInv
  <2>. QED  BY <1>10, <1>12, <2>1, <2>2 DEF CallbackReturn
<1>13. CASE UNCHANGED vars
  BY <1>13 DEF vars, FrameInv
<1>. QED
  BY <1>4, <1>5, <1>6, <1>7, <1>8, <1>9, <1>11, <1>12, <1>13 DEF Next, ClientCall

RunInv == ClockInv /\ FrameInv

(* The whole inductive invariant holds of the specification.                *)
LEMMA RunInvariant == ASSUME NoWrap PROVE Spec => []RunInv
<1>1. Init => FrameInv
  BY EmptySeq DEF Init, FrameInv
<1>2. FrameInv /\ ClockInv /\ [Next]_vars => FrameInv'
  BY FrameStep
<1>. QED  BY <1>1, <1>2, ClockInvariant, PTL DEF Spec, RunInv

(* At the top of exec()'s loop, by the frame on top of the stack.           *)
LEMMA LoopFrame ==
    ASSUME RunInv, InExecLoop, ~LoopCondition
    PROVE  /\ stopped \/ ~(clockticks < clockgoal)
           /\ Head(frames).alone => Head(frames).due < clockgoal + MaxTicks
<1>1. /\ frames \in Seq(Frame) /\ frames # <<>>
      /\ Head(frames).fn = "exec"
  BY DEF RunInv, ClockInv, TypeOK, InExecLoop
<1>2. 1 \in 1..Len(frames) /\ Head(frames) = frames[1]
  BY <1>1, Pop, LenProperties
<1>. QED  BY <1>1, <1>2 DEF RunInv, FrameInv, LoopCondition

(* An exec() call whose callback leaves step() and exec() alone spends its  *)
(* budget on a CPU that is not stopped, at any depth of nesting.            *)
THEOREM BudgetSpent == ASSUME NoWrap PROVE Spec => ExecSpendsBudget
<1>1. RunInv /\ [Next]_vars
        => [ExecReturn /\ Head(frames).alone
              => stopped \/ Head(frames).due < clockticks + MaxTicks]_vars
  <2> SUFFICES ASSUME RunInv, ExecReturn, Head(frames).alone, ~stopped
               PROVE  Head(frames).due < clockticks + MaxTicks
    OBVIOUS
  <2>1. /\ ~(clockticks < clockgoal)
        /\ Head(frames).due < clockgoal + MaxTicks
    BY LoopFrame DEF ExecReturn
  <2>2. /\ clockticks \in Nat /\ clockgoal \in Nat /\ MaxTicks \in Nat
        /\ Head(frames).due \in Nat
    <3>1. frames \in Seq(Frame) /\ frames # <<>>
      BY DEF RunInv, ClockInv, TypeOK, ExecReturn, InExecLoop
    <3>2. Head(frames) \in Frame
      BY <3>1, HeadTailProperties
    <3>. QED
      BY <3>2, ClockAssumption, TicksAssumption DEF RunInv, ClockInv, TypeOK, Frame
  <2>. QED  BY <2>1, <2>2
<1>. QED  BY <1>1, RunInvariant, PTL DEF Spec, ExecSpendsBudget

(* Budget is left over for a later call only by an exec() that stopped.     *)
THEOREM OnlyStopLeavesSurplus == ASSUME NoWrap PROVE Spec => SurplusOnlyFromStop
<1>1. RunInv /\ [Next]_vars => [Surplus' /\ ~Surplus => stopped]_vars
  <2> SUFFICES ASSUME RunInv, Next, Surplus', ~Surplus
               PROVE  stopped
    OBVIOUS
  <2>0. frames \in Seq(Frame) /\ clockticks' \in Nat
    <3>1. TypeOK'
      BY NextType DEF RunInv, ClockInv
    <3>. QED  BY <3>1, ClockAssumption DEF RunInv, ClockInv, TypeOK
  <2>1. CASE UNCHANGED <<clockticks, clockgoal, frames>>
    BY <2>1 DEF Surplus, NoExecInProgress
  <2>2. CASE clockgoal' = clockticks'
    BY <2>0, <2>2 DEF Surplus
  <2>3. ASSUME frames'[1].fn = "exec", 1 \in 1..Len(frames')
        PROVE  FALSE
    BY <2>3 DEF Surplus, NoExecInProgress
  <2>4. ASSUME NEW tickcount \in Budgets, ExecCall(tickcount)
        PROVE  FALSE
    <3>1. tickcount \in Nat /\ clockticks + tickcount \in Nat
      BY ClockAssumption DEF RunInv, ClockInv, TypeOK
    <3> DEFINE frame == [fn |-> "exec", at |-> "loop", valid |-> TRUE,
                         due |-> clockticks + tickcount, ran |-> FALSE, alone |-> TRUE]
    <3>2. /\ frame \in Frame
          /\ frame.fn = "exec"
          /\ frames' = <<frame>> \o Disturbed
      BY <2>4, <3>1 DEF Frame, ExecCall, Enter
    <3> HIDE DEF frame
    <3>3. Disturbed \in Seq(Frame)
      BY DisturbedType DEF RunInv, ClockInv
    <3>. QED  BY <2>3, <3>2, <3>3, Push, LenProperties
  <2>5. ASSUME frames # <<>>, NEW e, e.fn = "exec", frames' = [frames EXCEPT ![1] = e]
        PROVE  FALSE
    <3>1. 1 \in 1..Len(frames) /\ Len(frames') = Len(frames) /\ frames'[1] = e
      BY <2>0, <2>5, Pop, LenProperties
    <3>. QED  BY <2>3, <2>5, <3>1
  <2>6. CASE ExecIterate
    <3>1. PICK valid \in BOOLEAN :
            frames' = [frames EXCEPT ![1] = [frames[1] EXCEPT
                !.valid = valid,
                !.ran = @ \/ valid,
                !.at = IF valid /\ hasCallback THEN "callback" ELSE "loop"]]
      BY <2>6, Zenon DEF ExecIterate
    <3>2. frames # <<>> /\ frames[1] \in Frame /\ frames[1].fn = "exec"
      BY <2>0, <2>6, Pop DEF ExecIterate, InExecLoop
    <3>3. [frames[1] EXCEPT
                !.valid = valid,
                !.ran = @ \/ valid,
                !.at = IF valid /\ hasCallback THEN "callback" ELSE "loop"].fn = "exec"
      BY <3>2 DEF Frame
    <3>. QED  BY <2>5, <3>1, <3>2, <3>3
  <2>7. CASE ExecReturn
    BY <2>7, LoopFrame DEF ExecReturn, Surplus
  <2>8. CASE CallbackReturn
    <3>1. /\ frames # <<>> /\ frames[1] \in Frame /\ Head(frames) = frames[1]
          /\ UNCHANGED <<clockticks, clockgoal>>
      BY <2>0, <2>8, Pop DEF CallbackReturn
    <3>2. CASE frames[1].fn = "exec"
      <4>1. frames' = [frames EXCEPT ![1] = [frames[1] EXCEPT !.at = "loop"]]
        BY <2>8, <3>1, <3>2 DEF CallbackReturn
      <4>2. [frames[1] EXCEPT !.at = "loop"].fn = "exec"
        BY <3>1, <3>2 DEF Frame
      <4>. QED  BY <2>5, <3>1, <4>1, <4>2
    <3>3. CASE frames[1].fn # "exec"
      <4>1. frames' = Tail(frames)
        BY <2>8, <3>1, <3>3 DEF CallbackReturn
      <4>2. ASSUME NEW i \in 1..Len(frames), i # 1
            PROVE  i - 1 \in 1..Len(frames') /\ frames'[i - 1] = frames[i]
        BY <2>0, <3>1, <4>1, <4>2, Pop, LenProperties
      <4>3. NoExecInProgress' => NoExecInProgress
        BY <3>3, <4>2 DEF NoExecInProgress
      <4>. QED  BY <3>1, <4>3 DEF Surplus
    <3>. QED  BY <3>2, <3>3
  <2>. QED
    BY <2>1, <2>2, <2>4, <2>6, <2>7, <2>8
       DEF Next, ClientCall, SetMemoryController, SetLoopCallback, Reset, Interrupt,
           StepWaiting, Step, ExecWaiting
<1>. QED  BY <1>1, RunInvariant, PTL DEF Spec, SurplusOnlyFromStop

(* A stopped CPU runs nothing, for any program and any callback.            *)
THEOREM StoppedIsInert == Spec => StoppedRunsNothing
<1>1. [Next]_vars
        => [stopped => instructions' = instructions
                       /\ (waiting \/ clockticks' = clockticks)]_vars
  <2> SUFFICES ASSUME Next, stopped
               PROVE  instructions' = instructions /\ (waiting \/ clockticks' = clockticks)
    OBVIOUS
  <2>. QED
    BY DEF Next, ClientCall, SetMemoryController, SetLoopCallback, Reset, Interrupt,
           StepWaiting, Step, ExecWaiting, ExecCall, StepInstruction, ExecIterate,
           LoopCondition, ExecReturn, CallbackReturn
<1>. QED  BY <1>1, PTL DEF Spec, StoppedRunsNothing
=============================================================================
