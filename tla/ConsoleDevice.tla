---------------------------- MODULE ConsoleDevice ----------------------------
(* A program that writes to the bbmachine's memory as it likes: the console  *)
(* behind writeMem() keeps the promise of Terminal.tla.                      *)
EXTENDS Console

CONSTANTS
    Writes,       \* what is written: pairs of an address and a byte
    MaxSent,      \* bound: bytes sent in one line
    MaxPrinted    \* bound: lines printed

ASSUME DeviceAssumption ==
    /\ Writes \subseteq (0..(KB64 - 1)) \X (0..255)
    /\ FileSize("image") \in Nat
    /\ Loads("image")
    /\ \A address \in 0..(FileSize("image") - 1) : Image("image", address) \in 0..255

VARIABLES
    mem,     \* the Memory4816 object
    sent     \* history: the bytes sent since the line was last printed or cleared

vars == <<mem, sent>>

Init ==
    /\ mem = fillMem("image")
    /\ sent = <<>>

Commands(address, value, cmd) == address = CONS_CTRL /\ value = cmd

Write(address, value) ==
    /\ Commands(address, value, CONS_CMD_PRINT) => Len(sent) < MaxSent
    /\ Commands(address, value, CONS_CMD_FLUSH) => Len(mem.printed) < MaxPrinted
    /\ mem' = writeMem(mem, address, value)
    /\ sent' = IF Commands(address, value, CONS_CMD_PRINT)
                 THEN Append(sent, readMem(mem, CONS_DATA1))
               ELSE IF \/ Commands(address, value, CONS_CMD_FLUSH)
                       \/ Commands(address, value, CONS_CMD_CLEAR)
                 THEN <<>>
               ELSE sent

Next == \E pair \in Writes : Write(pair[1], pair[2])

Spec == Init /\ [][Next]_vars

-----------------------------------------------------------------------------

(* Memory holds bytes, and the index leaves room for a byte and the zero    *)
(* behind it: print never writes outside of m_buf.                          *)
TypeOK ==
    /\ \A address \in DOMAIN mem.m_mem : mem.m_mem[address] \in 0..255
    /\ mem.m_buf \in [0..(BufSize - 1) -> 0..255]
    /\ mem.m_idx \in 0..(BufSize - 2)

(* The buffer is a C string: what has been sent, as much of it as fits, and *)
(* a zero behind it. This is what keeps printf() inside of the buffer.      *)
BufferHoldsLine ==
    LET held == IF Len(sent) < BufSize THEN Len(sent) ELSE BufSize - 1
    IN  /\ mem.m_idx = IF held = BufSize - 1 THEN BufSize - 2 ELSE held
        /\ mem.m_buf[held] = 0
        /\ \A i \in 0..(held - 1) :
             mem.m_buf[i] = IF i = BufSize - 2 THEN sent[Len(sent)] ELSE sent[i + 1]

(* Every line printed is the text of what was sent for it, up to the        *)
(* console's capacity, whatever was printed, cleared or cut off before.     *)
T == INSTANCE Terminal WITH
       Bytes <- 0..255, Capacity <- BufSize - 1,
       data <- readMem(mem, CONS_DATA1), line <- sent, printed <- mem.printed

ImplementsTerminal == T!Spec
=============================================================================
