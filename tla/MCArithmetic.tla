---------------------------- MODULE MCArithmetic ----------------------------
(* What is run on the ALU: a single instruction, or the decimal test, with  *)
(* each of its settings, from its start to its end.                         *)
EXTENDS Arithmetic, DecimalTest

AllBytes == 0..255

OneInstruction ==
    /\ Init
    /\ vld_bcd = FALSE /\ chk_v = FALSE
    /\ N1 = 0 /\ N2 = 0 /\ Y = 0 /\ V = FALSE /\ at = "TEST"

TheTest ==
    /\ DecimalInit
    /\ a = 0 /\ value = 0 /\ status = {} /\ insn = "none"
    /\ sum = [result |-> 0, status |-> {}]

MCNext ==
    \/ at = "TEST" /\ Next /\ UNCHANGED decimalVars
    \/ DecimalNext /\ UNCHANGED vars

MCSpec ==
    (OneInstruction \/ TheTest) /\ [][MCNext]_<<vars, decimalVars>> /\ Running
=============================================================================
