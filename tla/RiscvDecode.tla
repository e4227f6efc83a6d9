----------------------------- MODULE RiscvDecode ----------------------------
(* The instruction decoder of the ID stage (riscv_decode.sv). An            *)
(* instruction is the record of its encoded fields, the immediate already   *)
(* assembled:                                                               *)
(*   [opcode, funct3, funct7, rd, rs1, rs2, imm, sys]                       *)
(* where sys stands for instr[31:20] of a SYSTEM instruction: a CSR name,   *)
(* or "ecall", "ebreak", "mret". Decode returns the control outputs; the    *)
(* immediate is read from the instruction.                                  *)
EXTENDS RiscvPkg

(* The field outputs, and what always_comb assigns before the case.         *)
NoControl(i) ==
  [rs1 |-> i.rs1, rs2 |-> i.rs2, rd |-> i.rd, funct3 |-> i.funct3,
   csr_addr |-> i.sys,
   use_rs1 |-> FALSE, use_rs2 |-> FALSE, src_a_pc |-> FALSE,
   src_b_imm |-> FALSE, reg_write |-> FALSE, mem_read |-> FALSE,
   mem_write |-> FALSE, mem_size |-> 2, mem_unsigned |-> FALSE,
   jal |-> FALSE, jalr |-> FALSE, branch_kind |-> "NONE", wb_sel |-> "ALU",
   alu_op |-> "ADD", is_ecall |-> FALSE, is_ebreak |-> FALSE,
   is_mret |-> FALSE, csr_read |-> FALSE]

BranchKind(funct3) ==
  CASE funct3 = 0 -> "EQ"  [] funct3 = 1 -> "NE"  [] funct3 = 4 -> "LT"
    [] funct3 = 5 -> "GE"  [] funct3 = 6 -> "LTU" [] funct3 = 7 -> "GEU"
    [] OTHER -> "NONE"

(* funct3 of a load: its size, and whether the result is zero-extended. *)
LoadSize(funct3) ==
  CASE funct3 \in {0, 4} -> 0 [] funct3 \in {1, 5} -> 1 [] OTHER -> 2
StoreSize(funct3) == IF funct3 \in {0, 1} THEN funct3 ELSE 2

(* Mutant of OpImmAlu: SRAI is taken for SRLI. *)
OpImmAlu_NoSrai(funct3, funct7) ==
  <<"ADD", "SLL", "SLT", "SLTU", "XOR", "SRL", "OR", "AND">>[funct3 + 1]

OpImmAlu(funct3, funct7) ==
  CASE funct3 = 0 -> "ADD"  [] funct3 = 1 -> "SLL" [] funct3 = 2 -> "SLT"
    [] funct3 = 3 -> "SLTU" [] funct3 = 4 -> "XOR"
    [] funct3 = 5 -> IF Bit(funct7, 5) = 1 THEN "SRA" ELSE "SRL"
    [] funct3 = 6 -> "OR"   [] OTHER -> "AND"

(* {funct7, funct3} of an OP instruction; any other pair decodes as AND. *)
OpAlu(funct3, funct7) ==
  CASE funct7 = 0  /\ funct3 < 7 ->
         <<"ADD", "SLL", "SLT", "SLTU", "XOR", "SRL", "OR">>[funct3 + 1]
    [] funct7 = 1  ->
         <<"MUL", "MULH", "MULHSU", "MULHU",
           "DIV", "DIVU", "REM", "REMU">>[funct3 + 1]
    [] funct7 = 32 /\ funct3 = 0 -> "SUB"
    [] funct7 = 32 /\ funct3 = 5 -> "SRA"
    [] OTHER -> "AND"

SystemControl(i) ==
  CASE i.funct3 = 0 ->
         [NoControl(i) EXCEPT !.is_ecall  = i.sys = "ecall",
                           !.is_ebreak = i.sys = "ebreak",
                           !.is_mret   = i.sys = "mret"]
    [] i.funct3 \in {1, 2, 3, 5, 6, 7} ->
         [NoControl(i) EXCEPT !.csr_read = TRUE, !.reg_write = TRUE,
                           !.wb_sel = "CSR", !.use_rs1 = i.funct3 < 4]
    [] OTHER -> NoControl(i)

Decode(i) ==
  CASE i.opcode = "LUI" ->
         [NoControl(i) EXCEPT !.src_b_imm = TRUE, !.reg_write = TRUE,
                           !.alu_op = "COPY_B"]
    [] i.opcode = "AUIPC" ->
         [NoControl(i) EXCEPT !.src_a_pc = TRUE, !.src_b_imm = TRUE,
                           !.reg_write = TRUE]
    [] i.opcode = "JAL" ->
         [NoControl(i) EXCEPT !.jal = TRUE, !.reg_write = TRUE, !.wb_sel = "PC4"]
    [] i.opcode = "JALR" ->
         [NoControl(i) EXCEPT !.use_rs1 = TRUE, !.jalr = TRUE,
                           !.reg_write = TRUE, !.wb_sel = "PC4"]
    [] i.opcode = "BRANCH" ->
         [NoControl(i) EXCEPT !.use_rs1 = TRUE, !.use_rs2 = TRUE,
                           !.branch_kind = BranchKind(i.funct3)]
    [] i.opcode = "LOAD" ->
         [NoControl(i) EXCEPT !.use_rs1 = TRUE, !.src_b_imm = TRUE,
                           !.reg_write = TRUE, !.mem_read = TRUE,
                           !.wb_sel = "LOAD", !.mem_size = LoadSize(i.funct3),
                           !.mem_unsigned = i.funct3 \in {4, 5}]
    [] i.opcode = "STORE" ->
         [NoControl(i) EXCEPT !.use_rs1 = TRUE, !.use_rs2 = TRUE,
                           !.src_b_imm = TRUE, !.mem_write = TRUE,
                           !.mem_size = StoreSize(i.funct3)]
    [] i.opcode = "OP_IMM" ->
         [NoControl(i) EXCEPT !.use_rs1 = TRUE, !.src_b_imm = TRUE,
                           !.reg_write = TRUE,
                           !.alu_op = OpImmAlu(i.funct3, i.funct7)]
    [] i.opcode = "OP" ->
         [NoControl(i) EXCEPT !.use_rs1 = TRUE, !.use_rs2 = TRUE,
                           !.reg_write = TRUE,
                           !.alu_op = OpAlu(i.funct3, i.funct7)]
    [] i.opcode = "SYSTEM" -> SystemControl(i)
    [] OTHER -> NoControl(i)                       \* MISC_MEM executes as NOP
=============================================================================
