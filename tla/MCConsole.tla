------------------------------ MODULE MCConsole ------------------------------
EXTENDS ConsoleDevice

\* The program file: 6 everywhere, which is neither a command nor a zero.
MCImage(file, address) == 6
MCFileSize(file) == KB64

\* Every command and one that is none, a text with zeros in it, and ROM.
MCWrites == ({CONS_CTRL} \X {CONS_CMD_PRINT, CONS_CMD_FLUSH, CONS_CMD_CLEAR, 3})
              \union ({CONS_DATA1} \X {0, 65, 66})
              \union {<<ramEnd + 1, 65>>}
=============================================================================
