------------------------------- MODULE DumpMem -------------------------------
(* dumpMem() of src/src/clientutils.cpp: the loops that print a range of     *)
(* memory in rows of 16 bytes, each row under the address of its first cell. *)
(* The bytes' values and the layout of the text are left out.                *)
EXTENDS Integers, Sequences

CONSTANTS
    Starts, Lengths     \* the arguments it is called with

KB64 == 65536
Address == 0..(KB64 - 1)

ASSUME RangeAssumption == Starts \subseteq Address /\ Lengths \subseteq Address

VARIABLES
    start, len,         \* the arguments
    addr, skip,         \* the next address, and the cells to leave out in front of it
    bytes,              \* the number of cells in this row
    label,              \* the row's address
    at,                 \* where the loops are
    printed             \* the addresses whose bytes have been printed

args == <<start, len>>
vars == <<start, len, addr, skip, bytes, label, at, printed>>

\* Slip: the end is the last address of the range.
end_Inclusive == (start + len - 1) % KB64

(* A uint16_t.                                                              *)
end == (start + len) % KB64

Init ==
    /\ start \in Starts
    /\ len \in Lengths
    /\ addr = start
    /\ skip = start % 16
    /\ bytes = 0
    /\ label = 0
    /\ at = "row"
    /\ printed = <<>>

BeginRow ==
    /\ at = "row"
    /\ label' = addr - skip
    /\ at' = "cells"
    /\ UNCHANGED <<args, addr, skip, bytes, printed>>

\* Slip: a cell that is left out is not counted.
SkipCell_NotCounted ==
    /\ at = "cells" /\ skip > 0
    /\ skip' = skip - 1
    /\ UNCHANGED <<args, addr, bytes, label, at, printed>>

SkipCell ==
    /\ at = "cells" /\ skip > 0
    /\ skip' = skip - 1
    /\ bytes' = bytes + 1
    /\ UNCHANGED <<args, addr, label, at, printed>>

MoreCells == bytes < 16 /\ addr < end

PrintCell ==
    /\ at = "cells" /\ skip = 0
    /\ MoreCells
    /\ printed' = Append(printed, addr)
    /\ bytes' = bytes + 1
    /\ addr' = (addr + 1) % KB64
    /\ UNCHANGED <<args, skip, label, at>>

\* Slip: only the exact end is the end.
EndRow_AtEndOnly ==
    /\ at = "cells" /\ skip = 0
    /\ ~MoreCells
    /\ at' = IF addr = end THEN "done" ELSE "row"
    /\ bytes' = IF addr = end THEN bytes ELSE 0
    /\ UNCHANGED <<args, addr, skip, label, printed>>

EndRow ==
    /\ at = "cells" /\ skip = 0
    /\ ~MoreCells
    /\ at' = IF addr >= end THEN "done" ELSE "row"
    /\ bytes' = IF addr >= end THEN bytes ELSE 0
    /\ UNCHANGED <<args, addr, skip, label, printed>>

Next == BeginRow \/ SkipCell \/ PrintCell \/ EndRow

(* Sequential code.                                                         *)
Spec == Init /\ [][Next]_vars /\ WF_vars(Next)

-----------------------------------------------------------------------------

(* Cells stand under the address of their row: the next cell's address is   *)
(* the row's address, a multiple of 16, and the cell's place in the row,    *)
(* wherever in a row the range begins.                                      *)
CellsInPlace ==
    at = "cells" => /\ label % 16 = 0
                    /\ bytes \in 0..16
                    /\ label + bytes + skip = addr

(* Every byte of the range is printed once and in order, and no other, when *)
(* the 16-bit end does not wrap.                                            *)
DumpsRange ==
    at = "done" /\ start + len < KB64 => printed = [i \in 1..len |-> start + i - 1]

(* The dump ends, whichever way its end address wraps.                      *)
DumpEnds == at = "row" ~> at = "done"
=============================================================================
