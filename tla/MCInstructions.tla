--------------------------- MODULE MCInstructions ---------------------------
(* Memory is a pattern, overlaid by the program and what has been written.  *)
EXTENDS Instructions, TLC

MCReadMem(mem, address) ==
    IF address \in DOMAIN mem THEN mem[address] ELSE (37 * address + address \div 256 + 250) % 256

MCWriteMem(mem, address, value) == (address :> value) @@ mem

Cpu(code, at, sp, a, index, status) ==
    [init([n \in at..(at + Len(code) - 1) |-> code[n - at + 1]]) EXCEPT
        !.pc = at, !.sp = sp, !.a = a, !.x = index, !.y = index, !.status = status]

(* Every opcode, before and across a page boundary, with operands that stay *)
(* in and leave their page, and a stack that is about to wrap either way.   *)
OpcodeStarts ==
    {Cpu(<<opcode, operand, 2>>, at, sp, 153, index, status) :
        opcode \in 0..255, operand \in {16, 128, 255}, at \in {512, 765},
        sp \in {0, 255}, index \in {0, 255}, status \in {{}, {"C", "D"}, {"Z", "N", "V", "I"}}}

Pairs == {
    <<72, 104>>, <<218, 250>>, <<90, 122>>, <<8, 40>>,    \* PHA PLA, PHX PLX, PHY PLY, PHP PLP
    <<42, 106>>, <<106, 42>>,                             \* ROL A ROR A, ROR A ROL A
    <<26, 58>>, <<58, 26>>,                               \* INC A DEC A, DEC A INC A
    <<232, 202>>, <<202, 232>>, <<200, 136>>, <<136, 200>>,   \* INX DEX, DEX INX, INY DEY, DEY INY
    <<38, 16, 102, 16>>, <<102, 16, 38, 16>>,             \* ROL $10 ROR $10, ROR $10 ROL $10
    <<230, 16, 198, 16>>, <<198, 16, 230, 16>>,           \* INC $10 DEC $10, DEC $10 INC $10
    <<32, 3, 2, 96>>}                                     \* JSR to an RTS

(* Memory operands of the pairs take every value, as the accumulator does.  *)
UndoingStarts ==
    {[cpu EXCEPT !.mem = (16 :> cpu.a) @@ @] : cpu \in
        {Cpu(code, 512, sp, a, a, status) :
            code \in Pairs, sp \in {0, 1, 128, 255}, a \in 0..255,
            status \in {{}, {"C"}, {"D", "V", "I"}}}}

WatchedBytes == {0, 16, 255, 512, 513}
=============================================================================
