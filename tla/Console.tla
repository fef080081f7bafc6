------------------------------- MODULE Console -------------------------------
(* The bbmachine's memory, class Memory4816 of src/bbmachine/main.cpp, and   *)
(* the console in it, class Console of src/bbmachine/console.h, as operators *)
(* on records; one operator per method, under its name. The object is        *)
(*   [file, m_mem, m_buf, m_idx, printed]:                                   *)
(* m_mem holds the bytes written since the program file was loaded, m_buf    *)
(* and m_idx are the console's, printed is what has gone to stdout.          *)
EXTENDS Integers, Sequences

CONSTANTS
    BufSize,         \* bytes in m_buf (256)
    Image(_, _),     \* the byte that a program file holds at an address
    FileSize(_)      \* the bytes in a program file

ASSUME BufSizeAssumption == BufSize \in Nat /\ BufSize >= 2

CONS_CTRL == 48896    \* $BF00
CONS_DATA1 == 48897   \* $BF01
CONS_CMD_PRINT == 0
CONS_CMD_FLUSH == 1
CONS_CMD_CLEAR == 2

KB64 == 65536
ramEnd == 49151       \* $BFFF

NOP == 234

(* What loadProgramBin() and fillMem() accept: a file of at most 64 KB.     *)
Loads(file) == FileSize(file) <= KB64

(* init() and fillMem() on a new object: NOPs, and the file from 0 on.      *)
fillMem(file) ==
    [file |-> file, m_mem |-> [address \in {} |-> 0], m_buf |-> [i \in 0..(BufSize - 1) |-> 0],
     m_idx |-> 0, printed |-> <<>>]

readMem(mem, address) ==
    IF address \in DOMAIN mem.m_mem THEN mem.m_mem[address]
    ELSE IF address < FileSize(mem.file) THEN Image(mem.file, address)
    ELSE NOP

Stored(mem, address, value) ==
    [mem EXCEPT !.m_mem = [a \in DOMAIN @ \union {address} |->
                             IF a = address THEN value ELSE @[a]]]

-----------------------------------------------------------------------------
(* Console::write()                                                         *)

\* Slip: the index may reach the end of the buffer.
print_ToTheEnd(mem) ==
    LET next == mem.m_idx + 1
    IN  [mem EXCEPT !.m_buf = [@ EXCEPT ![mem.m_idx] = readMem(mem, CONS_DATA1), ![next] = 0],
                    !.m_idx = next]

(* The byte goes in, a zero behind it; in front of the last byte of the     *)
(* buffer the index stays where it is.                                      *)
print(mem) ==
    LET next == mem.m_idx + 1
    IN  [mem EXCEPT !.m_buf = [@ EXCEPT ![mem.m_idx] = readMem(mem, CONS_DATA1), ![next] = 0],
                    !.m_idx = IF next = BufSize - 1 THEN next - 1 ELSE next]

\* Slip: the buffer is emptied, but the index is not reset.
clear_IndexKept(mem) == [mem EXCEPT !.m_buf[0] = 0]

clear(mem) == [mem EXCEPT !.m_buf[0] = 0, !.m_idx = 0]

(* What printf("%s\n", m_buf) writes: the bytes in front of the first zero. *)
FirstZero(buf) ==
    CHOOSE n \in 0..(BufSize - 1) : buf[n] = 0 /\ \A i \in 0..(n - 1) : buf[i] # 0

\* Slip: the line is printed and kept.
flush_NotCleared(mem) ==
    [mem EXCEPT !.printed = Append(@, [i \in 1..FirstZero(mem.m_buf) |-> mem.m_buf[i - 1]])]

flush(mem) ==
    clear([mem EXCEPT !.printed = Append(@, [i \in 1..FirstZero(mem.m_buf) |-> mem.m_buf[i - 1]])])

(* The command is read back from memory; an unknown one leaves a message.   *)
write(mem, address) ==
    LET cmd == readMem(mem, CONS_CTRL)
    IN  IF address # CONS_CTRL THEN mem
        ELSE IF cmd = CONS_CMD_PRINT THEN print(mem)
        ELSE IF cmd = CONS_CMD_FLUSH THEN flush(mem)
        ELSE IF cmd = CONS_CMD_CLEAR THEN clear(mem)
        ELSE mem

\* Slip: ROM can be written.
writeMem_RomToo(mem, address, value) ==
    IF address \in {CONS_CTRL, CONS_DATA1}
      THEN write(Stored(mem, address, value), address)
      ELSE Stored(mem, address, value)

(* Console addresses in front of RAM, RAM below ROM; ROM is not written.    *)
writeMem(mem, address, value) ==
    IF address \in {CONS_CTRL, CONS_DATA1}
      THEN write(Stored(mem, address, value), address)
    ELSE IF address <= ramEnd
      THEN Stored(mem, address, value)
    ELSE mem
=============================================================================
