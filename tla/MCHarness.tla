------------------------------ MODULE MCHarness ------------------------------
(* Small test programs for Harness.tla, in memory filled with NOPs; tests   *)
(* start up to seven NOPs in front of them, so that slices fall everywhere. *)
EXTENDS Harness, TLC

At(address, bytes) == [n \in address..(address + Len(bytes) - 1) |-> bytes[n - address + 1]]

(* LDA #0  BEQ OK  TRAP: JMP TRAP  OK: JMP OK, which passes at $0407;        *)
(* the same with BNE, which is caught at $0404                               *)
Passes == At(1024, <<169, 0, 240, 3, 76, 4, 4, 76, 7, 4>>)
Fails == At(1024, <<169, 0, 208, 3, 76, 4, 4, 76, 7, 4>>)

(* LDX #3  LOOP: DEX  BNE LOOP  OK: BRA OK                                   *)
Counts == At(1024, <<162, 3, 202, 208, 253, 128, 254>>)

(* LOOP: INX  INY  JMP LOOP                                                  *)
Loops == At(1024, <<232, 200, 76, 0, 4>>)

(* NOP  STP;  NOP and an illegal opcode;  CLI  WAI  OK: JMP OK               *)
Stops == At(1024, <<234, 219>>)
Illegal == At(1024, <<234, 2>>)
Waits == At(1024, <<88, 203, 76, 2, 4>>)

Program == [passes |-> Passes, fails |-> Fails, counts |-> Counts, loops |-> Loops,
            stops |-> Stops, illegal |-> Illegal, waits |-> Waits]

(* What each deserves. A test that fails is trapped, and so is a CPU that   *)
(* waits for ever; a loop that counts, or that changes X and Y, is no trap. *)
Deserved == [passes |-> {"success"}, fails |-> {"trapped"}, counts |-> {"success"},
             loops |-> {"limit"}, stops |-> {"stopped"}, illegal |-> {"stopped"},
             waits |-> {"trapped"}]

SuccessAddr == [program \in DOMAIN Program |-> IF program = "counts" THEN 1029 ELSE 1031]

MCTests ==
    {[memory |-> [program |-> program, ram |-> <<>>], clockLimit |-> 90, clockStep |-> clockStep,
      successAddr |-> SuccessAddr[program], verdicts |-> Deserved[program],
      loops |-> program \in {"counts", "loops"}] :
        program \in DOMAIN Program, clockStep \in {7, 8, 9, 10, 16, 25}}

MCMemories == {args.memory : args \in MCTests}
MCEntries == 1017..1024

MCReadMem(mem, address) ==
    IF address \in DOMAIN mem.ram THEN mem.ram[address]
    ELSE IF address \in DOMAIN Program[mem.program] THEN Program[mem.program][address]
    ELSE 234

MCWriteMem(mem, address, value) ==
    IF address < 49152 THEN [mem EXCEPT !.ram = (address :> value) @@ @] ELSE mem
=============================================================================
