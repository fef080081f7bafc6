------------------------------ MODULE MCMachine ------------------------------
(* Programs for Machine.tla in a memory with RAM below $C000 and ROM above,  *)
(* of which only the bytes the program has written are kept in the state; the *)
(* rest is filled with an illegal opcode.                                   *)
EXTENDS Machine, TLC

At(address, bytes) == [n \in address..(address + Len(bytes) - 1) |-> bytes[n - address + 1]]

(* irq() and BRK: PHA  PLA  RTI;  nmi(): PHX  LDX #0  PLX  RTI              *)
(* vectors: nmi $0310, reset $0200, irq $0300                                *)
Handlers == At(768, <<72, 104, 64>>) @@ At(784, <<218, 162, 0, 250, 64>>)
              @@ At(65530, <<16, 3, 0, 2, 0, 3>>)

(* CLI; LOOP: WAI  INX  BRA LOOP                                             *)
Waits == At(512, <<88, 203, 232, 128, 252>>)

(* LDX #0  TXS  JSR SUB  STP; SUB: PHP  PLP  RTS, on a stack that wraps      *)
Calls == At(512, <<162, 0, 154, 32, 32, 2, 219>>) @@ At(544, <<8, 40, 96>>)

(* SEI  WAI, which falls through, BRK  .byte 2  STP                          *)
Breaks == At(512, <<120, 203, 0, 2, 219>>)

(* LDA #0  PHA  PHA  PHA  RTI, to an illegal opcode at 0                     *)
Returns == At(512, <<169, 0, 72, 72, 72, 64>>)

Program == [waits |-> Waits @@ Handlers, calls |-> Calls @@ Handlers,
            breaks |-> Breaks @@ Handlers, returns |-> Returns @@ Handlers]

MCMemories == [program : DOMAIN Program, ram : {<<>>}]

MCReadMem(mem, address) ==
    IF address \in DOMAIN mem.ram THEN mem.ram[address]
    ELSE IF address \in DOMAIN Program[mem.program] THEN Program[mem.program][address]
    ELSE 2

MCWriteMem(mem, address, value) ==
    IF address < 49152 THEN [mem EXCEPT !.ram = (address :> value) @@ @] ELSE mem
=============================================================================
