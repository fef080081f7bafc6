------------------------------- MODULE Harness -------------------------------
(* runTestBinary() of src/tests/runtests.cpp: a test program runs on the     *)
(* machine of Machine.tla in slices of clockStep ticks, and after each slice *)
(* the harness judges it by where the CPU is: stopped, at the address of     *)
(* success, or at the address where the slice began, which it takes for a    *)
(* trap. Its clock limit ends a test that is none of these.                  *)
EXTENDS Machine

CONSTANTS
    Tests,     \* records [memory, clockLimit, clockStep, successAddr, verdicts, loops]; the
               \* last two are not the code's: what the program deserves, and whether it
               \* has a loop that goes on, to an end or for ever
    MaxTicks   \* no instruction costs more

ASSUME TestsAssumption ==
    /\ MaxTicks \in Nat
    /\ MaxTicks >= 7
    /\ \A args \in Tests : /\ args.clockLimit \in Nat
                           /\ args.clockStep \in Nat
                           /\ args.clockStep >= MaxTicks

VARIABLES
    test,      \* the arguments of runTestBinary()
    phase,     \* where it is
    lastPC, verdict,
    ran        \* history: the last slice has run an instruction

harness == <<test, phase, lastPC, verdict, ran>>
all == <<vars, harness>>

TestInit ==
    /\ Init
    /\ test \in Tests
    /\ c.mem = test.memory
    /\ phase = "load"
    /\ lastPC = 0
    /\ verdict = "none"
    /\ ran = FALSE

-----------------------------------------------------------------------------

Goes(to) == phase' = to /\ UNCHANGED <<test, lastPC, verdict, ran>>

Ends(with) ==
    /\ phase' = "end"
    /\ verdict' = with
    /\ UNCHANGED <<vars, test, lastPC, ran>>

(* loadTestBin() finds the file and can read it, or runTestBinary() is over. *)
Load ==
    /\ phase = "load"
    /\ Ends("not loaded") \/ (Goes("memory") /\ UNCHANGED vars)

(* setMemoryController(), reset() and setPC(startAddr)                      *)
Connect == phase = "memory" /\ SetMemoryController /\ Goes("reset")
ResetCpu == phase = "reset" /\ Reset /\ Goes("start")
Start == phase = "start" /\ SetPC /\ Goes("loop")

\* Slip: the limit is compared with the number of instructions.
GoesOn_ByInstructions == instructions < test.clockLimit

GoesOn == clockticks < test.clockLimit

\* Slip: lastPC is taken once, in front of the loop.
BeginSlice_LastPCOnce ==
    /\ phase = "loop"
    /\ GoesOn
    /\ lastPC' = IF clockticks = 0 THEN c.pc ELSE lastPC
    /\ \/ Wait(test.clockStep) /\ phase' = "judge"
       \/ ExecCall(test.clockStep) /\ phase' = "exec"
    /\ ran' = FALSE
    /\ UNCHANGED <<test, verdict>>

(* One turn of the loop begins: exec(), which returns at once while waiting. *)
BeginSlice ==
    /\ phase = "loop"
    /\ GoesOn
    /\ lastPC' = c.pc
    /\ \/ Wait(test.clockStep) /\ phase' = "judge"
       \/ ExecCall(test.clockStep) /\ phase' = "exec"
    /\ ran' = FALSE
    /\ UNCHANGED <<test, verdict>>

Run == phase = "exec" /\ ExecIterate /\ UNCHANGED harness

EndSlice ==
    /\ phase = "exec"
    /\ ExecReturn
    /\ phase' = "judge"
    /\ ran' = Head(frames).ran
    /\ UNCHANGED <<test, lastPC, verdict>>

Verdict ==
    IF c.stopped THEN "stopped"
    ELSE IF c.pc = test.successAddr THEN "success"
    ELSE IF c.pc = lastPC THEN "trapped"
    ELSE "none"

Judge ==
    /\ phase = "judge"
    /\ IF Verdict = "none" THEN Goes("loop") /\ UNCHANGED vars ELSE Ends(Verdict)

ReachLimit == phase = "loop" /\ ~GoesOn /\ Ends("limit")

TestNext ==
    \/ Load \/ Connect \/ ResetCpu \/ Start
    \/ BeginSlice \/ Run \/ EndSlice \/ Judge \/ ReachLimit

(* Sequential code that goes on as long as it can. The last conjunct is     *)
(* WF_all(Run), with ENABLED <<Run>>_all written out for TLC.               *)
Fairness ==
    /\ WF_phase(Load \/ Connect \/ ResetCpu \/ Start)
    /\ WF_phase(BeginSlice \/ EndSlice \/ Judge \/ ReachLimit)
    /\ <>[](phase = "exec" /\ LoopCondition) => []<><<Run>>_all

TestSpec == TestInit /\ [][TestNext]_all /\ Fairness

-----------------------------------------------------------------------------

(* The verdict is the one that the program deserves, wherever the slices    *)
(* happen to cut it: STP, the address of success, the error trap and a CPU  *)
(* that waits are told apart. The one verdict that is not deserved is       *)
(* "trapped" for a program with a loop that goes on: runTestBinary() is     *)
(* wrong about it when the loop is at the same place after a slice.         *)
OnlyLoopsMisjudged ==
    \/ verdict \in {"none", "not loaded"} \union test.verdicts
    \/ test.loops /\ ran /\ verdict = "trapped"

(* A test is called trapped only when the CPU has come back to where the    *)
(* slice began, or waits, never because the slice ran nothing: the ticks by *)
(* which one slice runs over do not use up the next one.                    *)
TrapsRan == verdict = "trapped" => ran \/ c.waiting

(* No test runs beyond its limit by more than a slice and an instruction.   *)
LimitKept == clockticks < test.clockLimit + test.clockStep + MaxTicks

(* Every test comes to its end.                                             *)
TestEnds == phase = "load" ~> phase = "end"
=============================================================================
