------------------------------ MODULE Programs ------------------------------
(* The programs of src/bbmachine as ca65 and ld65 assemble them: the ROM     *)
(* routines of rom.s, and helloworld.s and math.s, which call them. Each     *)
(* .proc is the tuple of its bytes; labels are the addresses that            *)
(* bbmachine.cfg gives them. ptr1 is at $08, mulres at $0A, NUM1 and NUM2    *)
(* at $0C and $0D; the console at $BF00.                                     *)
EXTENDS Integers, Sequences, TLC

At(address, bytes) == [n \in address..(address + Len(bytes) - 1) |-> bytes[n - address + 1]]

LowByte(address) == address % 256
HighByte(address) == address \div 256

ENTRY == \h0400

-----------------------------------------------------------------------------
(* rom.s                                                                    *)

\* Slip: the index is not incremented.
println_NoIny == <<\hA0, \h00, \hB1, \h08, \hF0, \h0C, \h8D, \h01, \hBF,
                   \hA9, \h00, \h8D, \h00, \hBF, \hEA, \h4C, \h02, \hC0,
                   \h20, \h64, \hC0, \h60>>

(* LDY #0  next: LDA (ptr1),Y  BEQ flush  STA CONS_DATA1                    *)
(* LDA #PRINT  STA CONS_CTRL  INY  JMP next  flush: JSR ConsFlush  RTS      *)
println == <<\hA0, \h00, \hB1, \h08, \hF0, \h0C, \h8D, \h01, \hBF,
             \hA9, \h00, \h8D, \h00, \hBF, \hC8, \h4C, \h02, \hC0,
             \h20, \h64, \hC0, \h60>>

(* The same without flush.                                                  *)
print_ == <<\hA0, \h00, \hB1, \h08, \hF0, \h0C, \h8D, \h01, \hBF,
            \hA9, \h00, \h8D, \h00, \hBF, \hC8, \h4C, \h18, \hC0, \h60>>

(* STA CONS_DATA1  LDA #PRINT  STA CONS_CTRL  RTS                           *)
printchar == <<\h8D, \h01, \hBF, \hA9, \h00, \h8D, \h00, \hBF, \h60>>

(* "0123456789ABCDEF"                                                       *)
hexstring == [digit \in 1..16 |-> IF digit <= 10 THEN 47 + digit ELSE 54 + digit]

\* Slip: X is used, but not restored.
printhexbyte_XLost == <<\hDA, \h48, \h29, \hF0, \h18, \h6A, \h6A, \h6A, \h6A, \hAA,
                        \hBD, \h32, \hC0, \h20, \h29, \hC0, \h68, \h29, \h0F, \hAA,
                        \hBD, \h32, \hC0, \h20, \h29, \hC0, \h68, \h60>>

\* Slip: the byte is pushed, but not pulled.
printhexbyte_StackLeft == <<\hDA, \h48, \h29, \hF0, \h18, \h6A, \h6A, \h6A, \h6A, \hAA,
                            \hBD, \h32, \hC0, \h20, \h29, \hC0, \hEA, \h29, \h0F, \hAA,
                            \hBD, \h32, \hC0, \h20, \h29, \hC0, \hFA, \h60>>

\* Slip: the carry is not cleared before it is rotated in.
printhexbyte_NoClc == <<\hDA, \h48, \h29, \hF0, \hEA, \h6A, \h6A, \h6A, \h6A, \hAA,
                        \hBD, \h32, \hC0, \h20, \h29, \hC0, \h68, \h29, \h0F, \hAA,
                        \hBD, \h32, \hC0, \h20, \h29, \hC0, \hFA, \h60>>

(* PHX  PHA  AND #$F0  CLC  ROR  ROR  ROR  ROR  TAX  LDA hexstring,X        *)
(* JSR printchar  PLA  AND #$0F  TAX  LDA hexstring,X  JSR printchar        *)
(* PLX  RTS                                                                 *)
printhexbyte == <<\hDA, \h48, \h29, \hF0, \h18, \h6A, \h6A, \h6A, \h6A, \hAA,
                  \hBD, \h32, \hC0, \h20, \h29, \hC0, \h68, \h29, \h0F, \hAA,
                  \hBD, \h32, \hC0, \h20, \h29, \hC0, \hFA, \h60>>

(* LDA #command  STA CONS_CTRL  RTS                                         *)
ConsClear == <<\hA9, \h02, \h8D, \h00, \hBF, \h60>>
ConsFlush == <<\hA9, \h01, \h8D, \h00, \hBF, \h60>>

(* RTI;  JMP start;  RTI;  and the vectors to them                          *)
nmi_vec == <<\h40>>
res_vec == <<\h4C, \h00, \h04>>
irq_vec == <<\h40>>
Vectors == <<\h6A, \hC0, \h6B, \hC0, \h6E, \hC0>>

(* The ROM segment, the routines one behind the other, and the vectors.     *)
ROM == At(\hC000, println) @@ At(\hC016, print_) @@ At(\hC029, printchar)
         @@ At(\hC032, hexstring) @@ At(\hC042, printhexbyte) @@ At(\hC05E, ConsClear)
         @@ At(\hC064, ConsFlush) @@ At(\hC06A, nmi_vec) @@ At(\hC06B, res_vec)
         @@ At(\hC06E, irq_vec) @@ At(\hFFFA, Vectors)

-----------------------------------------------------------------------------
(* The programs that call it                                                *)

(* LDA #<str  STA ptr1  LDA #>str  STA ptr1+1  JSR routine                  *)
PUT(str, routine) == <<\hA9, LowByte(str), \h85, \h08, \hA9, HighByte(str), \h85, \h09,
                       \h20, LowByte(routine), HighByte(routine)>>
PUTLN(str) == PUT(str, \hC000)
PUTS(str) == PUT(str, \hC016)

STP == <<\hDB>>
asciiz(text) == Append(text, 0)

Hello == <<72, 101, 108, 108, 111, 44, 32, 87, 111, 114, 108, 100, 33>>
Goodbye == <<71, 111, 111, 100, 98, 121, 101, 44,
             32, 87, 111, 114, 108, 100, 33>>

helloworld == At(ENTRY, PUTLN(\h0417) \o PUTLN(\h0425) \o STP)
                @@ At(\h0417, asciiz(Hello) \o asciiz(Goodbye))

Starting == <<83, 116, 97, 114, 116, 105, 110, 103, 32,
              109, 117, 108, 116, 115, 46, 46, 46>>
Done == <<68, 111, 110, 101, 46>>
Product == <<49, 50, 56, 120, 56, 32, 61, 32, 48, 120>>

(* JSR ConsFlush  PUTLN startmsg  LDA #num1  STA NUM1  LDA #num2  STA NUM2  *)
(* JSR mult8x8  PUTS productmsg  LDA mulres+1  JSR printhexbyte             *)
(* LDA mulres  JSR printhexbyte  JSR ConsFlush  PUTLN donemsg               *)
(* JSR ConsFlush  STP, in math.s for 128 and 8                              *)
start(num1, num2) ==
    <<\h20, \h64, \hC0>> \o PUTLN(\h0455)
      \o <<\hA9, num1, \h85, \h0C, \hA9, num2, \h85, \h0D, \h20, \h40, \h04>>
      \o PUTS(\h046D)
      \o <<\hA5, \h0B, \h20, \h42, \hC0, \hA5, \h0A, \h20, \h42, \hC0, \h20, \h64, \hC0>>
      \o PUTLN(\h0467) \o <<\h20, \h64, \hC0>> \o STP

(* LDA #$80  STA mulres  ASL A  L1: LSR NUM2  BCC L2  CLC  ADC NUM1         *)
(* L2: ROR A  ROR mulres  BCC L1  STA mulres+1  RTS                         *)
mult8x8 == <<\hA9, \h80, \h85, \h0A, \h0A, \h46, \h0D, \h90, \h03, \h18, \h65, \h0C,
             \h6A, \h66, \h0A, \h90, \hF4, \h85, \h0B, \h60>>

dumpmem == <<\h60>>

math(num1, num2) ==
    At(ENTRY, start(num1, num2)) @@ At(\h0440, mult8x8) @@ At(\h0454, dumpmem)
      @@ At(\h0455, asciiz(Starting) \o asciiz(Done) \o asciiz(Product))
=============================================================================
