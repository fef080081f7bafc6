------------------------------ MODULE Terminal ------------------------------
(* What the bbmachine console (src/bbmachine/console.h) promises a program:  *)
(* a line of text that is built up byte by byte and then printed or thrown   *)
(* away. A line longer than the console can hold keeps its beginning and the *)
(* last byte that was sent; a zero byte ends the text, as in any C string.   *)
EXTENDS Integers, Sequences

CONSTANTS
    Bytes,       \* what a program may send: numbers from 0 to 255
    Capacity     \* the longest line that is printed in full, at least 1

VARIABLES
    data,        \* the byte the program has put in the data register
    line,        \* the bytes sent since the last line was printed or cleared
    printed      \* the lines printed so far

vars == <<data, line, printed>>

(* What is left of a line that may be too long.                             *)
Kept(bytes) ==
    IF Len(bytes) <= Capacity THEN bytes
    ELSE [i \in 1..Capacity |-> IF i = Capacity THEN bytes[Len(bytes)] ELSE bytes[i]]

EndsAt(bytes, n) ==
    /\ n = Len(bytes) \/ bytes[n + 1] = 0
    /\ \A i \in 1..n : bytes[i] # 0

Text(bytes) == SubSeq(bytes, 1, CHOOSE n \in 0..Len(bytes) : EndsAt(bytes, n))

Init ==
    /\ data \in Bytes
    /\ line = <<>>
    /\ printed = <<>>

Load ==
    /\ data' \in Bytes
    /\ UNCHANGED <<line, printed>>

Send ==
    /\ line' = Append(line, data)
    /\ UNCHANGED <<data, printed>>

Clear ==
    /\ line' = <<>>
    /\ UNCHANGED <<data, printed>>

Flush ==
    /\ printed' = Append(printed, Text(Kept(line)))
    /\ line' = <<>>
    /\ UNCHANGED data

Next == Load \/ Send \/ Clear \/ Flush

Spec == Init /\ [][Next]_vars
=============================================================================
