------------------------------- MODULE Opcodes -------------------------------
(* The instruction table of the 65C02 core (src/src/instructions.cpp, which  *)
(* src/tools/writeInstructions.py generates): for each opcode the method of  *)
(* the instruction, the method of its addressing mode and its base ticks.    *)
(* Each row of a quarter holds four opcodes; every opcode the table gives to *)
(* ill() has imp() for its mode and 2 ticks.                                 *)
EXTENDS Integers

ill == <<"ill", "imp", 2>>

m_insn_00 == <<
  <<<<"brk", "imp", 7>>, <<"ora", "indx", 6>>, ill, ill>>,
  <<<<"tsb", "zp", 5>>, <<"ora", "zp", 3>>, <<"asl", "zp", 5>>, <<"rmb0", "zp", 5>>>>,
  <<<<"php", "imp", 3>>, <<"ora", "imm", 2>>, <<"asl", "acc", 2>>, ill>>,
  <<<<"tsb", "abso", 6>>, <<"ora", "abso", 4>>, <<"asl", "abso", 6>>, <<"bbr0", "zprel", 2>>>>,
  <<<<"bpl", "rel", 2>>, <<"ora", "indy", 5>>, <<"ora", "ind0", 5>>, ill>>,
  <<<<"trb", "zp", 5>>, <<"ora", "zpx", 4>>, <<"asl", "zpx", 6>>, <<"rmb1", "zp", 5>>>>,
  <<<<"clc", "imp", 2>>, <<"ora", "absy", 4>>, <<"inc", "acc", 2>>, ill>>,
  <<<<"trb", "abso", 6>>, <<"ora", "absx", 4>>, <<"asl", "absx", 7>>, <<"bbr1", "zprel", 2>>>>,
  <<<<"jsr", "abso", 6>>, <<"And", "indx", 6>>, ill, ill>>,
  <<<<"bit", "zp", 3>>, <<"And", "zp", 3>>, <<"rol", "zp", 5>>, <<"rmb2", "zp", 5>>>>,
  <<<<"plp", "imp", 4>>, <<"And", "imm", 2>>, <<"rol", "acc", 2>>, ill>>,
  <<<<"bit", "abso", 4>>, <<"And", "abso", 4>>, <<"rol", "abso", 6>>, <<"bbr2", "zprel", 2>>>>,
  <<<<"bmi", "rel", 2>>, <<"And", "indy", 5>>, <<"And", "ind0", 5>>, ill>>,
  <<<<"bit", "zpx", 4>>, <<"And", "zpx", 4>>, <<"rol", "zpx", 6>>, <<"rmb3", "zp", 5>>>>,
  <<<<"sec", "imp", 2>>, <<"And", "absy", 4>>, <<"dec", "acc", 2>>, ill>>,
  <<<<"bit", "absx", 4>>, <<"And", "absx", 4>>, <<"rol", "absx", 7>>, <<"bbr3", "zprel", 2>>>> >>

m_insn_40 == <<
  <<<<"rti", "imp", 6>>, <<"eor", "indx", 6>>, ill, ill>>,
  <<ill, <<"eor", "zp", 3>>, <<"lsr", "zp", 5>>, <<"rmb4", "zp", 5>>>>,
  <<<<"pha", "imp", 3>>, <<"eor", "imm", 2>>, <<"lsr", "acc", 2>>, ill>>,
  <<<<"jmp", "abso", 3>>, <<"eor", "abso", 4>>, <<"lsr", "abso", 6>>, <<"bbr4", "zprel", 2>>>>,
  <<<<"bvc", "rel", 2>>, <<"eor", "indy", 5>>, <<"eor", "ind0", 5>>, ill>>,
  <<ill, <<"eor", "zpx", 4>>, <<"lsr", "zpx", 6>>, <<"rmb5", "zp", 5>>>>,
  <<<<"cli", "imp", 2>>, <<"eor", "absy", 4>>, <<"phy", "imp", 3>>, ill>>,
  <<ill, <<"eor", "absx", 4>>, <<"lsr", "absx", 7>>, <<"bbr5", "zprel", 2>>>>,
  <<<<"rts", "imp", 6>>, <<"adc", "indx", 6>>, ill, ill>>,
  <<<<"stz", "zp", 3>>, <<"adc", "zp", 3>>, <<"ror", "zp", 5>>, <<"rmb6", "zp", 5>>>>,
  <<<<"pla", "imp", 4>>, <<"adc", "imm", 2>>, <<"ror", "acc", 2>>, ill>>,
  <<<<"jmp", "ind", 5>>, <<"adc", "abso", 4>>, <<"ror", "abso", 6>>, <<"bbr6", "zprel", 2>>>>,
  <<<<"bvs", "rel", 2>>, <<"adc", "indy", 5>>, <<"adc", "ind0", 5>>, ill>>,
  <<<<"stz", "zpx", 4>>, <<"adc", "zpx", 4>>, <<"ror", "zpx", 6>>, <<"rmb7", "zp", 5>>>>,
  <<<<"sei", "imp", 2>>, <<"adc", "absy", 4>>, <<"ply", "imp", 4>>, ill>>,
  <<<<"jmp", "ainx", 6>>, <<"adc", "absx", 4>>, <<"ror", "absx", 7>>, <<"bbr7", "zprel", 2>>>> >>

m_insn_80 == <<
  <<<<"bra", "rel", 3>>, <<"sta", "indx", 6>>, ill, ill>>,
  <<<<"sty", "zp", 3>>, <<"sta", "zp", 3>>, <<"stx", "zp", 3>>, <<"smb0", "zp", 5>>>>,
  <<<<"dey", "imp", 2>>, <<"bit", "imm", 2>>, <<"txa", "imp", 2>>, ill>>,
  <<<<"sty", "abso", 4>>, <<"sta", "abso", 4>>, <<"stx", "abso", 4>>, <<"bbs0", "zprel", 2>>>>,
  <<<<"bcc", "rel", 2>>, <<"sta", "indy", 6>>, <<"sta", "ind0", 5>>, ill>>,
  <<<<"sty", "zpx", 4>>, <<"sta", "zpx", 4>>, <<"stx", "zpy", 4>>, <<"smb1", "zp", 5>>>>,
  <<<<"tya", "imp", 2>>, <<"sta", "absy", 5>>, <<"txs", "imp", 2>>, ill>>,
  <<<<"stz", "abso", 4>>, <<"sta", "absx", 5>>, <<"stz", "absx", 5>>, <<"bbs1", "zprel", 2>>>>,
  <<<<"ldy", "imm", 2>>, <<"lda", "indx", 6>>, <<"ldx", "imm", 2>>, ill>>,
  <<<<"ldy", "zp", 3>>, <<"lda", "zp", 3>>, <<"ldx", "zp", 3>>, <<"smb2", "zp", 5>>>>,
  <<<<"tay", "imp", 2>>, <<"lda", "imm", 2>>, <<"tax", "imp", 2>>, ill>>,
  <<<<"ldy", "abso", 4>>, <<"lda", "abso", 4>>, <<"ldx", "abso", 4>>, <<"bbs2", "zprel", 2>>>>,
  <<<<"bcs", "rel", 2>>, <<"lda", "indy", 5>>, <<"lda", "ind0", 5>>, ill>>,
  <<<<"ldy", "zpx", 4>>, <<"lda", "zpx", 4>>, <<"ldx", "zpy", 4>>, <<"smb3", "zp", 5>>>>,
  <<<<"clv", "imp", 2>>, <<"lda", "absy", 4>>, <<"tsx", "imp", 2>>, ill>>,
  <<<<"ldy", "absx", 4>>, <<"lda", "absx", 4>>, <<"ldx", "absy", 4>>, <<"bbs3", "zprel", 2>>>> >>

m_insn_c0 == <<
  <<<<"cpy", "imm", 2>>, <<"cmp", "indx", 6>>, ill, ill>>,
  <<<<"cpy", "zp", 3>>, <<"cmp", "zp", 3>>, <<"dec", "zp", 5>>, <<"smb4", "zp", 5>>>>,
  <<<<"iny", "imp", 2>>, <<"cmp", "imm", 2>>, <<"dex", "imp", 2>>, <<"wai", "imp", 3>>>>,
  <<<<"cpy", "abso", 4>>, <<"cmp", "abso", 4>>, <<"dec", "abso", 6>>, <<"bbs4", "zprel", 2>>>>,
  <<<<"bne", "rel", 2>>, <<"cmp", "indy", 5>>, <<"cmp", "ind0", 5>>, ill>>,
  <<ill, <<"cmp", "zpx", 4>>, <<"dec", "zpx", 6>>, <<"smb5", "zp", 5>>>>,
  <<<<"cld", "imp", 2>>, <<"cmp", "absy", 4>>, <<"phx", "imp", 3>>, <<"stp", "imp", 1>>>>,
  <<ill, <<"cmp", "absx", 4>>, <<"dec", "absx", 7>>, <<"bbs5", "zprel", 2>>>>,
  <<<<"cpx", "imm", 2>>, <<"sbc", "indx", 6>>, ill, ill>>,
  <<<<"cpx", "zp", 3>>, <<"sbc", "zp", 3>>, <<"inc", "zp", 5>>, <<"smb6", "zp", 5>>>>,
  <<<<"inx", "imp", 2>>, <<"sbc", "imm", 2>>, <<"nop", "imp", 2>>, ill>>,
  <<<<"cpx", "abso", 4>>, <<"sbc", "abso", 4>>, <<"inc", "abso", 6>>, <<"bbs6", "zprel", 2>>>>,
  <<<<"beq", "rel", 2>>, <<"sbc", "indy", 5>>, <<"sbc", "ind0", 5>>, ill>>,
  <<ill, <<"sbc", "zpx", 4>>, <<"inc", "zpx", 6>>, <<"smb7", "zp", 5>>>>,
  <<<<"sed", "imp", 2>>, <<"sbc", "absy", 4>>, <<"plx", "imp", 4>>, ill>>,
  <<ill, <<"sbc", "absx", 4>>, <<"inc", "absx", 7>>, <<"bbs7", "zprel", 2>>>> >>

m_insn == [opcode \in 0..255 |->
             LET rows == <<m_insn_00, m_insn_40, m_insn_80, m_insn_c0>>[(opcode \div 64) + 1]
                 entry == rows[((opcode % 64) \div 4) + 1][(opcode % 4) + 1]
             IN  [insn |-> entry[1], mode |-> entry[2], ticks |-> entry[3]]]
=============================================================================
