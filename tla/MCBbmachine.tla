----------------------------- MODULE MCBbmachine -----------------------------
(* The repository's programs, and small ones that reach what those do not.   *)
EXTENDS Bbmachine, Programs

Operands == {0, 1, 8, 127, 128, 255}

MCFiles ==
    [program : {"helloworld", "clear", "scribble", "waits", "illegal", "short", "large"}]
      \union [program : {"math"}, num1 : Operands, num2 : Operands]
      \union [program : {"hex"}, byte : Byte]
      \union [program : {"line"}, length : {0, 1, 254, 255}]

As(length) == [i \in 1..length |-> 65]

(* LDX #$A5  LDY #$5A  LDA #byte  JSR printhexbyte  JSR ConsFlush  STP       *)
Hex(byte) == At(ENTRY, <<\hA2, \hA5, \hA0, \h5A, \hA9, byte, \h20, \h42, \hC0,
                         \h20, \h64, \hC0>> \o STP)

Line(length) == At(ENTRY, PUTLN(\h0500) \o STP) @@ At(\h0500, asciiz(As(length)))

(* PUTS goodbye  JSR ConsClear  PUTLN hello  STP                             *)
Clears == At(ENTRY, PUTS(\h0500) \o <<\h20, \h5E, \hC0>> \o PUTLN(\h0600) \o STP)
            @@ At(\h0500, asciiz(Goodbye)) @@ At(\h0600, asciiz(Hello))

(* LDA #RTS  STA ConsFlush  PUTLN hello  STP, with hello at $0417            *)
Scribbles == At(ENTRY, <<\hA9, \h60, \h8D, \h64, \hC0>> \o PUTLN(\h0417) \o STP)
               @@ At(\h0417, asciiz(Hello))

(* CLI  WAI  STP                                                             *)
Waits == At(ENTRY, <<\h58, \hCB, \hDB>>)

Code ==
    [file \in MCFiles |->
       CASE file.program = "helloworld" -> helloworld
         [] file.program = "clear" -> Clears
         [] file.program = "scribble" -> Scribbles
         [] file.program = "waits" -> Waits
         [] file.program = "illegal" -> At(ENTRY, <<2>>)
         [] file.program = "short" -> At(ENTRY, STP)
         [] file.program = "large" -> At(0, <<0>>)
         [] file.program = "math" -> math(file.num1, file.num2)
         [] file.program = "hex" -> Hex(file.byte)
         [] file.program = "line" -> Line(file.length)]

MCImage(file, address) ==
    IF address \in DOMAIN Code[file] THEN Code[file][address]
    ELSE IF address \in DOMAIN ROM THEN ROM[address]
    ELSE 0

\* "short" ends with its STP, in front of ROM and its vectors.
MCFileSize(file) ==
    CASE file.program = "large" -> KB64 + 1
      [] file.program = "short" -> ENTRY + 1
      [] OTHER -> KB64

Digits(byte) == <<hexstring[(byte \div 16) + 1], hexstring[(byte % 16) + 1]>>

MCOutput(file) ==
    CASE file.program = "helloworld" -> <<Hello, Goodbye>>
      [] file.program \in {"clear", "scribble"} -> <<Hello>>
      [] file.program \in {"waits", "illegal", "short", "large"} -> <<>>
      [] file.program = "math" ->
           LET product == file.num1 * file.num2
           IN  <<<<>>, Starting,
                 Product \o Digits(product \div 256) \o Digits(product % 256), Done, <<>>>>
      [] file.program = "hex" -> <<Digits(file.byte)>>
      [] file.program = "line" -> <<As(file.length)>>

\* printchar, printhexbyte, ConsClear, ConsFlush
MCKeepsY == {\hC029, \hC042, \hC05E, \hC064}
=============================================================================
