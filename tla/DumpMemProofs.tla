---------------------------- MODULE DumpMemProofs ----------------------------
(* Proofs about DumpMem.tla, for every range that dumpMem() can be called    *)
(* with.                                                                     *)
EXTENDS DumpMem, TLAPS

(* Where the row stands. In front of a row, and of its first cell that is   *)
(* printed, the skipped cells still fit into the row.                       *)
RowInv ==
    /\ addr \in Address
    /\ skip \in 0..15
    /\ bytes \in 0..16
    /\ label \in Int
    /\ at \in {"row", "cells", "done"}
    /\ at = "row" => bytes = 0 /\ (addr - skip) % 16 = 0
    /\ at = "cells" => /\ label % 16 = 0
                       /\ label + bytes + skip = addr
                       /\ skip > 0 => bytes + skip <= 15

(* What has been printed: everything from start to the next address. The    *)
(* loop ends only when that has reached the end.                            *)
RangeInv ==
    start + len < KB64 =>
      /\ addr \in start..(start + len)
      /\ printed \in Seq(Address)
      /\ printed = [i \in 1..(addr - start) |-> start + i - 1]
      /\ at = "done" => addr = start + len

DumpInv ==
    /\ start \in Address /\ len \in Address
    /\ RowInv
    /\ RangeInv

(* The proofs need of the modulus only that it is a positive number.        *)
LEMMA Modulus == KB64 \in Nat /\ KB64 > 0
BY DEF KB64

(* It holds before the first line.                                           *)
LEMMA InitHolds == Init => DumpInv
<1> SUFFICES ASSUME Init
             PROVE  DumpInv
    OBVIOUS
<1>1. start \in Address /\ len \in Address
    BY Modulus, RangeAssumption DEF Init, Address
<1>2. skip \in 0..15 /\ (start - skip) % 16 = 0
    BY Modulus, <1>1 DEF Init, Address
<1>3. RowInv
    BY Modulus, <1>1, <1>2 DEF Init, RowInv, Address
<1>4. RangeInv
    BY Modulus, <1>1 DEF Init, RangeInv, Address
<1> QED
    BY <1>1, <1>3, <1>4 DEF DumpInv

(* Every character and line keeps it.                                        *)
LEMMA StepHolds == DumpInv /\ [Next]_vars => DumpInv'
<1> SUFFICES ASSUME DumpInv, [Next]_vars
             PROVE  DumpInv'
    OBVIOUS
<1>0. /\ start \in Address /\ len \in Address
      /\ RowInv /\ RangeInv
      /\ end \in Address
      /\ start + len < KB64 => end = start + len
    BY Modulus DEF DumpInv, Address, end
<1>1. CASE BeginRow
  <2>1. RowInv'
      BY Modulus, <1>0, <1>1 DEF BeginRow, args, RowInv, Address
  <2>2. RangeInv'
      BY <1>0, <1>1 DEF BeginRow, args, RangeInv
  <2> QED
      BY <1>0, <1>1, <2>1, <2>2 DEF BeginRow, args, DumpInv
<1>2. CASE SkipCell
  <2>1. RowInv'
      BY Modulus, <1>0, <1>2 DEF SkipCell, args, RowInv, Address
  <2>2. RangeInv'
      BY <1>0, <1>2 DEF SkipCell, args, RangeInv
  <2> QED
      BY <1>0, <1>2, <2>1, <2>2 DEF SkipCell, args, DumpInv
<1>3. CASE PrintCell
  <2>1. addr' = addr + 1 /\ addr' \in Address
      BY Modulus, <1>0, <1>3 DEF PrintCell, MoreCells, RowInv, Address
  <2>2. RowInv'
      BY Modulus, <1>0, <1>3, <2>1 DEF PrintCell, MoreCells, args, RowInv, Address
  <2>3. ASSUME start + len < KB64
        PROVE  RangeInv'
    <3>1. addr' \in start..(start + len)
      <4>1. addr < start + len
          BY <1>0, <1>3, <2>3 DEF PrintCell, MoreCells
      <4>2. addr \in start..(start + len) /\ start \in Nat /\ len \in Nat
          BY Modulus, <1>0, <2>3 DEF RangeInv, Address
      <4> QED
          BY <2>1, <4>1, <4>2
    <3>2. /\ printed \in Seq(Address)
          /\ printed = [i \in 1..(addr - start) |-> start + i - 1]
          /\ printed' = Append(printed, addr)
          /\ addr \in Address /\ addr - start \in Nat
        BY Modulus, <1>0, <1>3, <2>3 DEF PrintCell, RangeInv, RowInv, Address
    <3>3. Len(printed) = addr - start
        BY <3>2
    <3>4. printed' = [i \in 1..(addr' - start) |-> start + i - 1]
        BY Modulus, <1>0, <2>1, <3>2, <3>3 DEF Address
    <3>5. at' = "cells" /\ start' = start /\ len' = len
        BY <1>3 DEF PrintCell, args
    <3>6. printed' \in Seq(Address)
        BY <3>2
    <3> QED
        BY <3>1, <3>4, <3>5, <3>6, Zenon DEF RangeInv
  <2>4. RangeInv'
      BY <1>3, <2>3 DEF RangeInv, PrintCell, args
  <2> QED
      BY <1>0, <1>3, <2>2, <2>4 DEF PrintCell, args, DumpInv
<1>4. CASE EndRow
  <2>1. RowInv'
    <3>1. CASE addr >= end
        BY Modulus, <1>0, <1>4, <3>1 DEF EndRow, args, RowInv, Address
    <3>2. CASE ~ (addr >= end)
      <4>1. bytes = 16 /\ (addr - skip) % 16 = 0
          BY Modulus, <1>0, <1>4, <3>2 DEF EndRow, MoreCells, RowInv, Address
      <4> QED
          BY Modulus, <1>0, <1>4, <3>2, <4>1 DEF EndRow, args, RowInv, Address
    <3> QED
        BY <3>1, <3>2
  <2>2. RangeInv'
      BY Modulus, <1>0, <1>4 DEF EndRow, args, RangeInv, RowInv, Address
  <2> QED
      BY <1>0, <1>4, <2>1, <2>2 DEF EndRow, args, DumpInv
<1>5. CASE UNCHANGED vars
    BY <1>0, <1>5 DEF vars, args, DumpInv, RowInv, RangeInv
<1> QED
    BY <1>1, <1>2, <1>3, <1>4, <1>5 DEF Next

(* So it holds throughout.                                                   *)
LEMMA DumpInvariant == Spec => []DumpInv
<1> QED
    BY InitHolds, StepHolds, PTL DEF Spec

(* Cells stand under the address of their row, for every range.             *)
THEOREM CellsStandInPlace == Spec => []CellsInPlace
<1>1. DumpInv => CellsInPlace
    BY Modulus DEF DumpInv, RowInv, CellsInPlace, Address
<1> QED
    BY <1>1, DumpInvariant, PTL

(* A range whose 16-bit end does not wrap is printed from end to end, each  *)
(* byte once and in order.                                                  *)
THEOREM RangeIsDumped == Spec => []DumpsRange
<1>1. DumpInv => DumpsRange
    BY Modulus DEF DumpInv, RangeInv, DumpsRange, Address
<1> QED
    BY <1>1, DumpInvariant, PTL
=============================================================================
