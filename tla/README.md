# A TLA+ model of six5c02

six5c02 is a 65C02 emulator in C++: a CPU class that a client drives with
`step()` and `exec()`, a memory interface the client implements, a loop
callback, and two programs built on them. This directory holds TLA+ modules
that model it, TLC configurations that check them, and TLAPS proofs.

## 1. The system

| Part | Source | State it keeps | Operations |
|---|---|---|---|
| Run control | `src/src/six5c02.cpp` | `waiting`, `stopped`, `clockticks`, `clockgoal`, `instructions`, the two client pointers | `step`, `exec`, `stepInstruction`, `reset`, `irq`, `nmi`, `setPC`, `setMemoryController`, `setLoopCallback` |
| Instructions | `src/src/insns_6502.cpp`, `insns_65c02.cpp` | registers, status, scratch members | one method per instruction |
| Addressing modes | `src/src/modes.cpp` | `ea`, `reladdr`, `penaltyaddr`, `pc` | one method per mode |
| Instruction table | `src/src/instructions.cpp` | `m_insn` | none, filled at construction |
| Flags | `src/src/support.h` | `status` | flag macros |
| Memory interface | `src/include/six5c02.h` | 64 KB behind `readMem`, `writeMem` | client code |
| bbmachine memory | `src/bbmachine/main.cpp` | 64 KB, RAM below ROM | `fillMem`, `readMem`, `writeMem` |
| bbmachine console | `src/bbmachine/console.h` | the print buffer and its index | `Console::write`: print, flush, clear |
| bbmachine main loop | `src/bbmachine/main.cpp` | none of its own | `runBinary` |
| bbmachine programs | `rom.s`, `helloworld.s`, `math.s` | 65C02 code | print routines, 8 by 8 multiplication |
| Test harness | `src/tests/runtests.cpp` | last PC, clock limit | `runTestBinary` |
| Decimal test | `src/tests/decimal_test.s` | operands, predictions | a 6502 program |
| Client utilities | `src/src/clientutils.cpp` | none | `printRegisters`, `dumpMem` |
| Table generator | `src/tools` | none | build-time script |

How they interact: `exec()` and `step()` call `stepInstruction()`, which
dispatches through the table to a mode method and an instruction method; these
reach memory only through `read6502()` and `write6502()`, which call the
client's memory controller. After an instruction the client's loop callback
runs, on the same thread and with the CPU as argument, so it may call any
method of the CPU again. The bbmachine and the test harness are two clients:
the first steps until the CPU has stopped, the second calls `exec()` slice after
slice and looks at the CPU in between. A program reaches the console by stores:
the memory controller passes those to two addresses on to it, and the console
reads its command and its data back from memory.

What is hard here:

- **Re-entrancy.** There are no threads, but the callback runs in the middle of
  `exec()` and may call `step()`, `exec()`, `irq()`, `reset()`. The clock and
  the goal are shared by all calls in progress.
- **The clock budget.** `clockgoal` is carried from call to call. Whether a
  call gets the time it was given depends on who moved the clock before.
- **Waiting and stopping.** WAI, STP, illegal opcodes, interrupts and `reset()`
  set and clear two flags that `step()` and `exec()` test in different places.
- **Interrupts** between any two instructions, nested, with a stack that wraps.
- **Arithmetic**: decimal mode in 16-bit intermediates, overflow, wrap-around of
  addresses and of the 32-bit clock.
- **Scratch members** that outlive an instruction.
- **The console's buffer**: a line may be longer, and hold anything; what an
  earlier line left in it must not show in a later one.
- **Verdicts drawn from samples**: the harness sees the CPU once per slice.

What makes each part correct:

- Run control: every call gets its budget and at most one instruction more, a
  stopped CPU is inert, every call returns.
- Instructions: registers keep their width; each instruction depends only on
  registers and memory; pairs of inverse instructions are inverses.
- Interrupts: a handler that saves what it uses is invisible.
- Arithmetic: the results and flags of integer and of decimal arithmetic.
- Modes: pointers stay in page zero; the cost is bounded.
- Console: no write outside of the buffer; what is printed is what was sent.
- Memory and programs: programs print what they are written to print, subroutines
  give back what they were given.
- Harness: a program gets the verdict it deserves, within the limit.
- `dumpMem`: every byte of the range, once, in its place.

`PROJECT.json` lists the hazards one by one, at their lines.

## 2. The modules

| Module | Models | Notes |
|---|---|---|
| `RunControl` | `six5c02.cpp`, without what instructions compute | the abstract specification |
| `RunControlProofs` | | proofs about `RunControl` |
| `Bits` | C's bitwise operators on bytes | written as arithmetic, so that provers can use it |
| `Alu` | `support.h`, ADC, SBC and the compares | status is the set of its flags that are on |
| `Opcodes` | the 256 table entries | in four quarters, because provers take a table of 64 entries but not one of 256 |
| `Cpu` | modes, all instructions, stack, interrupts | one operator per method, on a record of the class's members |
| `CpuProofs` | | what each operator of `Cpu` keeps, costs and depends on |
| `Machine` | the whole CPU running a program | implements `RunControl` |
| `MachineProofs` | | proofs about `Machine` and `Harness` |
| `Instructions` | two instructions from any of a set of states | for what must hold of every opcode |
| `InstructionsProofs` | | proofs about `Instructions` |
| `Arithmetic` | one ADC, SBC or compare and its reference | |
| `ArithmeticProofs` | | proofs about `Arithmetic` and `DecimalTest` |
| `DecimalTest` | `decimal_test.s` on the modelled ALU | one action for each turn of its loops |
| `Terminal` | what the console promises | the abstract specification |
| `Console` | `Memory4816` and `Console` | one operator per method, on a record |
| `ConsoleDevice` | a program that writes to them as it likes | implements `Terminal` |
| `ConsoleProofs` | | proofs about `ConsoleDevice` |
| `Programs` | `rom.s`, `helloworld.s`, `math.s` | byte for byte |
| `Bbmachine` | `runBinary()` | composes `Cpu` and `Console` |
| `BbmachineProofs` | | proofs about `Bbmachine` |
| `Harness` | `runTestBinary()` | composes with `Machine` |
| `DumpMem` | `dumpMem()` | |
| `DumpMemProofs` | | proofs about `DumpMem` |
| `MC...` | programs, memories and start states for TLC | |

### RunControl

Each public method is an action. A call of `exec()` is several steps, because
the callback runs inside it: `ExecCall` enters it, `ExecIterate` is one turn of
its loop, `CallbackReturn` returns from the callback and `ExecReturn` leaves it.
The C++ call stack is the variable `frames`, innermost call first; each frame
holds `exec()`'s local `isValid` (`valid`), whether the loop or the callback has
control (`at`), and three history values: `due`, the clock at which the call's
budget is used up; `ran`, whether it has run an instruction; and `alone`, that its
callback has not called `step()` or `exec()` so far. A client may act
when no call is in progress or when the innermost one is in its callback
(`ClientHasControl`). `step()` and `exec()` on a waiting CPU are single steps.

An instruction is abstracted to what run control sees: its ticks, whether it is
WAI, STP or illegal, and the I flag it leaves. `hasMem` is kept because without a
memory controller every byte reads as 0xFF, which is BBS7, and no other
instruction can come.

### Cpu, Machine and the refinement

`Cpu` keeps the members that outlive an instruction in one record and has one
operator per C++ method under the method's name. `mem` in it is whatever the
memory controller holds, read and written through the parameters `ReadMem` and
`WriteMem`. `Machine` puts this under the same control as `RunControl`. The
clock is a variable of its own and counts modulo `ClockMod`; `c.ticks` collects
what one instruction adds. The scratch members are cleared between
instructions (`Settled`), which keeps the state space small and is sound because no
instruction reads what an earlier one left there: `ScratchIsDead` says that, and
is proved for all instructions.

`Machine!ImplementsRunControl` is `RunControl!Spec` under the mapping that takes
`waiting` and `stopped` from the record, `interrupt` from the I flag, and the tick
sets of the table: 2 to 7 for an instruction, 3 for WAI, 1 for STP.

`Machine` also keeps, as history, the contexts running handlers return to.
`setPC()` and `reset()` abandon them. `HandlersAreInvisible` says what a program
under interrupts relies on. Whether it holds is shared between the CPU and the
handlers: `HandlersBehave` is the handlers' part, that they leave the frames on the
stack alone and return with the registers and the stack pointer as they found them;
the run shows that the programs' handlers keep to it, and the proof that the CPU then does
the rest. Clients only provide a memory
controller there; `RunControl` also has them remove it.

### Arithmetic and DecimalTest

`Arithmetic` runs one instruction and compares with integer arithmetic: the sum
with its carry, the signed range for V, the value of two decimal digits for
BCD.

`DecimalTest` is the repository's own test as a program: two operands `N1` and `N2`, the
carry `Y`, and three nested loops that end when a byte wraps. `Try` is a turn of the
innermost one: the decimal ADC, the prediction that `ADD` and `A6502` make of it digit by
digit with binary instructions of the same ALU, and `COMPARE`; then the same for SBC. A
difference leads to `DONE` with ERROR set, the end of the loops to `SUCCESS`. `SkipN1` and
`SkipN2` leave out operands that are not BCD. The CPU's overflow flag `V` is kept from turn to turn,
because decimal instructions pass it on and the test can look at it.

`vld_bcd` and `chk_v` are two settings in the program's head, chosen in the initial state.
It is assembled with `vld_bcd = 0` and `chk_v = 1`, and then it does not pass, as
`tests/README.txt` says. `EndsAsDocumented` is this sentence, and adds that of the four settings
`vld_bcd = 1` and `chk_v = 0` are the ones with which it passes;
`FailsForOverflowOnly` says that on valid BCD nothing but V is at fault. The model stops
where the program, assembled and run on the emulator, does: at $79 + $00 with carry when V is
compared, at $10 - $0B when neither is, and at `SUCCESS` with `vld_bcd = 1` and `chk_v = 0`.

`MCArithmetic` runs either one instruction or the whole test: the two have the ALU in common, and
nothing else.

### Console and Terminal

`Console` holds the memory map and the console as operators on one record, because
in the code they are one object: a write to $BF00 or $BF01 is stored and then
seen by the console, which reads both registers back with `readMem()`. `m_mem` keeps
only what was written; the rest is the program file's `Image`, and NOPs behind its
end. `printed` is stdout.

`Terminal` says what a program may rely on, without a buffer: bytes are sent, the
line is cleared or printed, and the text printed is the line up to its first
zero. A line that is too long keeps its first `Capacity - 1` bytes and its last
one, because at the end of the buffer `print` overwrites. `ConsoleDevice` writes any of a
set of bytes to any of a set of addresses and implements `Terminal`; its history
`sent` is the abstract line.

### Bbmachine

`runBinary()` has four places (`phase`): it loads the file, resets the CPU, steps,
and returns. A step is `Cpu`'s `stepInstruction` on `Console`'s memory, so the run
is the whole path from an opcode's bytes to stdout. The clock is left out:
`step()` neither tests it nor does `runBinary()` read it but to print it at the end.
`calls` is history, the subroutine calls in progress with the registers they
were given. `RoutinesReturn` is divided between CPU and programs in the same way:
`RoutinesBehave` is what the routines owe, checked for every routine of the repository. `KeepsY` names the routines that leave Y alone: all but those that, as `rom.s` says,
use A and Y.

### Harness

`runTestBinary()` is a client of `Machine`: `BeginSlice` is `exec()`'s call, `Run` a turn of
its loop, `EndSlice` its return, and `Judge` the tests behind it in the code's
order: stopped, success, trapped. `ran` is history: whether the slice ran an
instruction. The assumption that a slice is at least `MaxTicks` long is true of
the code (1000 against 7), and `TrapsRan` needs it: a slice begins up to one instruction
beyond the goal. Each test has, beside its arguments, the set of `verdicts` it deserves.
A program that counts to its end deserves success only, and one that loops for ever the limit,
but `runTestBinary()` calls either trapped when a slice ends at the place where it began
(`runtests.cpp:210`). `OnlyLoopsMisjudged` says that this is the only thing it gets wrong: `loops` names
the programs with a loop that goes on, and for all others the verdict is the one they deserve.

### DumpMem

The two nested loops, one action per cell, with the 16-bit `addr` and `end`.
`printed` lists the addresses whose bytes have been printed.

## 3. The runs

| Run | Checks | Bounds |
|---|---|---|
| `RunNested` | `TypeOK`, `Overshoot`, `ExecSpendsBudget`, `SurplusOnlyFromStop`, `StoppedRunsNothing`, `ExecReturns` | 2 calls deep, ticks 2 to 3, budgets 0, 3, 6, calls up to clock 6, modulus 9 |
| `Arithmetic` | `TypeOK`, the five results, `FailsForOverflowOnly`, `EndsAsDocumented` | none: all bytes, all carries and modes, all settings of the test |
| `MachineRun` | `TypeOK`, `FramesKept`, `ImplementsRunControl`, `HandlersAreInvisible`, `HandlersBehave` | four programs, 1 call deep, 2 signals, clock to 30 |
| `Instructions` | `TypeOK`, `ScratchIsDead`, `CostBounded`, `PairUndoes`, `PointersInPageZero` | every opcode from 72 start states; 17 pairs of opcodes on all bytes, 4 stack pointers, 3 statuses |
| `Console` | `TypeOK`, `BufferHoldsLine`, `ImplementsTerminal` | a buffer of 4, lines of up to 5 bytes, 2 lines printed |
| `Bbmachine` | `TypeOK`, `PrintsItsOutput`, `ReturnsKept`, `RoutinesReturn`, `RoutinesBehave`, `Ends` | 303 program files, each run to its end |
| `Harness` | `OnlyLoopsMisjudged`, `TrapsRan`, `LimitKept`, `TestEnds` | 7 programs, 6 lengths of slices, 8 entries, a limit of 90 |
| `DumpMem` | `CellsInPlace`, `DumpsRange`, `DumpEnds` | 10 starts, 10 lengths |

Why the bounds are enough. `RunControl` compares only sums of ticks with the goal.
Two different tick counts give every way an instruction can end before, on or
past the goal; budgets are zero, about one instruction, and several
instructions; two nested calls give every pair of outer and inner
call, and a deeper call meets the same two values, the clock and the goal, as the
second one does. The theorems below remove the bounds. `MaxClock` bounds only
what clients ask for, never what an instruction does; with it the modulus is
exactly as large as `NoWrap` demands. The programs of `MachineRun`
are an interruptible WAI loop, a subroutine on a stack that wraps, a masked WAI
followed by BRK, and an RTI that was not interrupted; interrupts, `reset()`
and `setPC()` may come at every point in them, and the first two signals
already nest handlers. The start states of `Instructions` put operands inside and across
pages and the stack pointer at both ends. The start states for `PairUndoes` are checked
to be what they are meant to be by `PairAssumption`.

The console compares its index with the buffer's size only, so a buffer of four with lines of
up to five bytes has everything: an empty line, a line that just fits, one and
two bytes that are too many; the second line printed meets what the first left behind. The
bytes are two letters and the zero, the commands all three and an unknown one.
`Bbmachine` runs both programs of the repository, with `math.s`'s operands taken from six
values each; `printhexbyte` on all bytes, with other registers set; lines of 0, 1, 254 and
255 characters, the longest `println` can print; a line
that is cleared; a store to ROM; WAI, an illegal opcode; a file that ends before
ROM, and one that is too large. The test programs of `Harness` pass, trap, loop, count
down, stop, run an illegal opcode and wait. Up to seven NOPs in front of them and
six slice lengths put the end of a slice at every place of each. `DumpMem`'s
starts and lengths are at and around row boundaries, and at both ends of memory.

Deadlock is checked in the runs of `RunControl`, `Machine` and `ConsoleDevice`, where a
client can always act. It is off where the model runs one or two instructions and stops
(`Arithmetic`, `Instructions`) or where the program itself ends (the decimal test,
`Bbmachine`, `Harness`, `DumpMem`); there the liveness properties say that it
ends as it should.

### Runs that end in a violation

Each checks what a comment or a test of the repository says and the code does
not do. `PROJECT.json` quotes the lines.

| Run | What happens |
|---|---|
| `RunWaitHolds` | WAI inside `exec()` does not wait: the loop goes on |
| `RunResetWorks` | `reset()` leaves the CPU waiting |
| `RunKeepsBudget` | `exec()` on a stopped CPU spends nothing, and after `reset()` the next `exec()` spends that budget besides its own |
| `RunWrapIdle` | the goal has wrapped and the clock has not: `exec()` runs nothing |

`RunWrapIdle` needs 2^32 ticks in the program and 16 in the model: the comparison
that fails depends on the distance to the modulus only.

Other places where a comment, a document or a test and the code part, seen while
modelling and without a run of their own:

- A callback that calls `step()` ends the `exec()` around it early
  (`six5c02.cpp:172`, against 126-128). `ExecSpendsBudget` therefore speaks of calls
  whose callbacks do not run the CPU.
- When the clock wraps before it has reached the goal, `exec()` overruns by 2^32
  ticks (`six5c02.cpp:145`). The theorems assume `NoWrap`.
- An illegal opcode sets `stopped` too, where `six5c02.h:115` says "STP called"; the
  harness and the bbmachine then say that the code called STP
  (`runtests.cpp:196`, `main.cpp:216`).
- `exec()` on a stopped CPU returns true (`six5c02.cpp:144`, against 130-131).
- RTI can clear the constant flag, which `six5c02.h:138` calls "always 1":
  `rti()` takes the pulled byte as it is, and `init()` leaves the flag off.
- Decimal ADC and SBC leave V. `insns_6502.cpp:46` and 530 say that it is set, lines 16-17
  that it is not, and `decimal_test.s` compares it with its prediction (:32, :181). So the test
  ends with ERROR set, first at $79 + $00 with carry, where V is predicted and stays clear.
- SBC of invalid BCD differs from what `decimal_test.s` predicts, first at
  $10 - $0B: with `vld_bcd = 0` the test fails with `chk_v = 0` also. The decimal theorems
  are about valid BCD.
- (zp,X) takes the second byte of a pointer at $FF from $0100 (`modes.cpp:103`),
  where (zp) and (zp),Y stay in page zero. `PointersInPageZero` is about these two.
- `println` and `print` index with Y alone (`rom.s:31`): on a string of 256 or more
  characters they never reach its zero and print for ever.
- The harness calls a test trapped, with "test condition failure detected", whenever a slice ends
  where it began (`runtests.cpp:207-213`). That is so of an error trap, and of a CPU that waits,
  but also of a DEX/BNE loop on its way to success, when its turns fit the slice:
  `OnlyLoopsMisjudged` holds for the loops in `Harness` by this exception only.
- `README.md:74` says that successful test runs end with "STOPPED". The harness prints
  "SUCCESS" for a program that loops at its address of success; `decimal_test.s` comes to
  its STP, at $044e, only when it has failed, and "STOPPED" does not say so.
- `dumpMem` of a range that reaches $FFFF computes an end of 0 or little more and prints
  none of it (`clientutils.cpp:26`). `DumpsRange` is about the other ranges.

### Fairness

`RunNested`: `ExecIterate` and `ExecReturn` are
weakly fair: they are turns of a C++ loop, which the processor goes on with.
`CallbackReturn` is strongly fair for every depth of the stack: a callback is
client code that makes finitely many calls and returns. Strong fairness is needed
because an inner call disables the outer callback's return while it runs. No
fairness is assumed of clients: nobody has to call anything.

`DecimalTest`, `Bbmachine`, `Harness` and `DumpMem` are sequential programs without a client: they
are weakly fair in all they do. Where a step runs an instruction, TLC evaluates
`ENABLED` slowly, and the weak fairness is written out instead with the state
predicate that `ENABLED` comes to.

`Terminal`, `ConsoleDevice`, `Machine`, `Instructions` and the single instruction of `Arithmetic` assume none.

## 4. The proofs

`RunControlProofs` proves, for every clock width, set of tick counts, set of
budgets and nesting depth that the assumptions `TicksAssumption` and
`ClockAssumption` allow:

- `TypeCorrect`: `TypeOK`.
- `OvershootBounded`: `Overshoot`, assuming `NoWrap`.
- `BudgetSpent`: `ExecSpendsBudget`, assuming `NoWrap`.
- `OnlyStopLeavesSurplus`: `SurplusOnlyFromStop`, assuming `NoWrap`.
- `StoppedIsInert`: `StoppedRunsNothing`.

`NoWrap` says that clients ask for no time beyond the clock's width; `RunWrapIdle`
shows what happens otherwise. The argument is in two parts.
`ClockInv` adds to `TypeOK` and `Overshoot` that clock and goal stay below
`MaxClock + MaxTicks`, so that `Advance` is addition. `FrameInv` is about the call
stack. Of the `exec()` calls in progress, only the innermost one, and only in its
loop, can have met an illegal opcode, and then the CPU is stopped; and only the
innermost one can still be alone, in which case its budget ends less than one
instruction beyond the goal. It is needed because `ExecSpendsBudget` looks at one
frame when it is popped, while the goal it depends on is moved by every other
call: the invariant says that nothing moves the goal below an `exec()` that is alone.
`OnlyStopLeavesSurplus` uses the same invariant: an `exec()`
returns below its goal only if its last instruction was illegal, which stops the
CPU.

`ArithmeticProofs` proves the five results of `Arithmetic` for all bytes, and
`TypeOK` (`ResultsFit`), which says that the intermediate results fit 16 bits
in both modes. The state machine's part is one invariant, that `sum` is what the
instruction returned. The rest is lemmas about the operators: binary addition by cases on
the signs, subtraction as addition of the complement, decimal addition and
subtraction digit by digit.

`DecimalTestPasses` is `FailsForOverflowOnly` of the repository's test program, with any settings:
when it leaves out invalid BCD it fails for V only, and if it leaves out V too, not at all. The
inductive invariant, `DecimalInv`, adds to it that the operands are bytes and the carry is a bit;
V may be anything. The test ends where it finds a difference, and `TriedAgree` says that there
is none in the accumulator, N, Z and C of any operands that it tries.
In each turn the predictions add or subtract each pair of digits with binary
instructions and correct the digit; subtraction's borrow is that of a binary subtraction of the
whole bytes. A lemma for each half brings the corrected digits to
the decimal value, and since a byte of valid BCD is the only one with its value (`BcdIsUnique`), equal
values are equal bytes, with equal N, Z and C (`SameNumberAgrees`). That the program skips every
operand that is not BCD follows from its two comparisons of digits.

`ConsoleProofs` proves, for every size of the buffer from 2 on, every program image
and every set of writes:

- `TypeCorrect`: `TypeOK`, so that `print` never leaves the buffer.
- `BufferIsLine`: `BufferHoldsLine`.
- `ConsoleImplementsTerminal`: the refinement.

The first two are inductive together (`Device`), shown for each of the three
commands on its own and put together by the cases of `writeMem()`. The refinement needs
them to know that `printf()` meets a zero; that it stops at the first one, and that this is
where `Terminal`'s text ends, is `TextOfBuffer`, from the least element of the set
of zeros.

`DumpMemProofs` proves `CellsInPlace` and `DumpsRange` for every start and length.
`RowInv` adds to the first that between rows the next address less the skipped cells is a
multiple of 16; `RangeInv` that what is printed always ends in front of `addr`.

### The instructions

`CpuProofs` holds the lemmas about `Cpu` that the three modules after it rest on. They
are about any set of memory contents with `HoldsBytes(Contents)`: what `readMem()`
returns is a byte, and stays one whatever bytes `writeMem()` was given. This is
what the `uint8_t` in `IMemoryController` says and all that an emulated CPU may rely on. Every
array of bytes has it, and `BbmachineProofs` shows it of `Memory4816`, whose
memory is anything but an array. `Cpus(Contents)` is the record with every member in its
C++ width. The lemmas are:

- `Table`: each of the 256 entries pairs its instruction with a mode that serves
  it (a branch has a mode that sets `reladdr`, an instruction that uses memory one
  that sets `ea`) and costs, with every penalty it may meet, 7 ticks at most. By
  cases, a quarter of the table at a time.
- `AddressType`, and a lemma for each family of instructions (loads, stores,
  branches, jumps and so on), put together by `ExecuteEffect`: widths are kept, only STP
  stops, only WAI waits, the ticks are those of the instruction and its branch.
- `StepType`: what `stepInstruction()` may do, for a legal opcode, an illegal one, a
  stopped CPU and one without memory. The last needs the table's entry 255: without
  memory every opcode is BBS7.
- `StepAlike`: two CPUs that differ in the scratch members only do the same. A
  relation between two states, kept by each operator in turn: the fetch makes
  `opcode` and the penalties the same and leaves two that `Agree`, on all but `ea` and
  `reladdr`; the mode makes the one it sets the same; `Table` says that this is the
  one the instruction reads.

`InstructionsProofs` proves from these, for every memory and every CPU state with its members
in their widths: `RegistersTyped` (`TypeOK`), `CostsHold` (`CostBounded`), `PointersWrap`
(`PointersInPageZero`) and `ScratchIsForgotten` (`ScratchIsDead`). The invariant is
that the state is legal. The hypothesis `Legal` says that the start states are;
the whole of `Cpus(Contents)` may be taken for them.

`PairsUndo` is `PairUndoes`, for any state from which the CPU executes a pair
(`AtPair`), whatever the registers, the flags, the operand and the stack
pointer. It needs one more thing of the memory, `LowRam`: that the first two pages are
RAM, where a byte that is stored is read back and no other changes with it. For what is
pushed into a ROM cannot be pulled, and an operand in a register of a device need not
come back. `Memory4816LowRam` shows it of the bbmachine's memory. A memory operand
therefore has to be in these pages. The proof has four lemmas, one for each
kind of pair (`StackPairUndoes`, `CallUndoes`, `RegisterPairUndoes`,
`OperandPairUndoes`), each from what one instruction of the kind does
(`PushStep`, `PullStep`, `JsrPushes`, `RtsPulls`, `CountStep`, `ModifyStep`). In the last, the
byte and the carry go round: what ROL shifts out into C, ROR shifts in
again. The invariant `StepsTaken` says where the CPU is after each of the two steps.

`MachineProofs` proves, for every program, every memory with `HoldsBytes` and all other
constants that `MachineAssumption` allows:

- `WidthsKept`: `TypeOK`.
- `RefinesRunControl`: `ImplementsRunControl`.
- `RunControlHolds`: `RunControl`'s four other properties of the machine, assuming
  that the clock does not wrap (`MaxClock + 7 <= ClockMod`). It has nothing to prove but that
  `RunControl`'s assumptions hold of the tick counts of the table.

The invariant `MachineInv` adds to `TypeOK` the scratch members, the penalties, and that
`c.ticks` is 0 between instructions; without the last, what a stopped CPU
adds to the clock would not be 0. The refinement has one step for each action. All
are immediate but the one that runs an instruction: the ticks of
`StepType` have to be among those `RunControl` allows for its kind, and the I flag and `waiting` have
to come out as it says.

Interrupt handlers are the subject of two theorems, for every program, memory and nesting.
Both assume `HandlersBehave`, which `MachineRun` checks of its programs, and of
the memory that it keeps the stack page (`KeepsStack`: every byte that is stored there is read back,
by itself; it follows from `LowRam`).

- `FramesStay`: `FramesKept`.
- `HandlersInvisible`: `HandlersAreInvisible`.

The inductive invariant, `FramesInv`, is `MachineInv` with `FramesKept`. That an interrupt or BRK pushes
the context it interrupts, also where the three bytes wrap around the stack page, makes the
new frame; `HandlerBehaves` keeps the older ones. RTI
then pulls that context back: `StackPointers` has the arithmetic modulo 256, from three bytes down to
three bytes up. What the handlers owe is about memory and three registers; that the program
counter, the flags and the stack pointer come back, and that no other instruction
among the 256 is mistaken for a return, is what is proved.

The same module proves of the harness, for all tests that `TestsAssumption` allows and
while the clock does not wrap (`ClockHolds`):

- `LimitHolds`: `LimitKept`.
- `TrapsHaveRun`: `TrapsRan`.

`LimitKept` looks at the clock between slices only. `SliceInv` says what holds inside:
the goal is at most a slice beyond the limit, the clock less than 7 beyond the goal,
and a slice that has run nothing has its clock below its goal or a CPU that stopped. The
second theorem needs the slice to be at least as long as an instruction, since a slice may
begin up to 6 ticks beyond the goal of the one before.

`BbmachineProofs` proves `MachineHolds`: `TypeOK` of the bbmachine, for every set of
program files. `RunsOnMemory4816` says that `Cpu`'s two parameters are the
operators of `Console`, as `Bbmachine.cfg` sets them; `FilesHoldBytes` that a file consists
of bytes. `Objects` are the states of the `Memory4816` object: bytes in RAM, nothing written in ROM, and a
buffer index that leaves room for a zero. That a write keeps them is `ConsoleProofs`'
argument again, for a device with no history.

It also proves, assuming that routines keep to `RoutinesBehave`, which the run
checks of the repository's:

- `ReturnsStay`: `ReturnsKept`.
- `RoutinesGoBack`: `RoutinesReturn`.

`CallsInv` is the inductive invariant: widths, a CPU that has its memory while it runs, and
on the stack a return address for every call in progress. The address pushed is that of the last byte of
JSR and the one pulled is increased by one; the two meet because `pc` has been advanced past
the operand by the addressing mode (`JsrPushes`), for a JSR anywhere, across the end of memory too.
`Memory4816KeepsStack` says that the stack page is in RAM and away
from the console.

### Model-checked only

- `PrintsItsOutput`, `OnlyLoopsMisjudged`: about the
  particular programs of their runs, whose every instruction an invariant would
  have to list. TLC follows them to their ends.
- `HandlersBehave`, `RoutinesBehave`: the programs' part, for the same reason. They are the
  hypotheses under which the CPU's part is proved.
- `ExecReturns`, `Ends`, `TestEnds`, `EndsAsDocumented`, `DumpEnds`: liveness, which is out of TLAPS's reach.

## 5. What is not modelled

- `functional_test.s`: tens of millions of instructions.
- `extended_65c02_test.bin`, which is not in the repository as source.
- `printRegisters`, and the wording of messages. The opcode generator.
- Reading files: `loadTestBin` succeeds or fails, `loadProgramBin` fails on
  files beyond 64 KB. A read that fails halfway is not modelled.
- Interrupt masking: `irq()` does not test I, and no client in the repository
  interrupts at all.
- `getvalue16()` and `oldstatus`, which nothing uses. `value`, `result` and
  `oldpc`, which every instruction sets before it reads them.
- Memory controllers whose reads have side effects, and clients that call the CPU
  from inside `readMem` or `writeMem`.

## 6. Plan

Done: `RunControl` with its proofs, the CPU, `Machine` and the refinement,
arithmetic with its proofs, the decimal test; the console with its abstract
specification and proofs, the bbmachine with its programs, the harness,
`dumpMem` with its proofs; the proofs about every instruction, the refinement
of `RunControl` by `Machine`, the harness's limit, and types everywhere; the decimal
test, pairs of instructions, interrupt handlers and subroutines. Every
safety invariant of the runs is proved but those that are about particular programs.

Worth modelling still: a client that tests I before it calls `irq()`, and what it
may then rely on.

## 7. Running

    tlc -workers 2 -config RunNested.cfg RunControl.tla
    tlc -workers 2 -config Arithmetic.cfg MCArithmetic.tla
    tlc -workers 2 -config MachineRun.cfg MCMachine.tla
    tlc -workers 2 -config Instructions.cfg MCInstructions.tla
    tlc -workers 2 -config Console.cfg MCConsole.tla
    tlc -workers 2 -config Bbmachine.cfg MCBbmachine.tla
    tlc -workers 2 -config Harness.cfg MCHarness.tla
    tlc -workers 2 -config DumpMem.cfg DumpMem.tla
    tlapm RunControlProofs.tla
    tlapm ArithmeticProofs.tla
    tlapm ConsoleProofs.tla
    tlapm DumpMemProofs.tla
    tlapm CpuProofs.tla
    tlapm InstructionsProofs.tla
    tlapm MachineProofs.tla
    tlapm BbmachineProofs.tla

Definitions marked as slips are altered forms of a definition of the code (a
dropped guard, a wider integer, a swapped order). No specification uses them;
substituted for the definition they follow, each breaks the property it is
listed with in `PROJECT.json`.
