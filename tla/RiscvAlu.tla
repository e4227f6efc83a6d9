------------------------------ MODULE RiscvAlu ------------------------------
(* The combinational blocks of the EX stage: the ALU (riscv_alu.sv) and the *)
(* branch comparator of riscv_core.sv.                                      *)
EXTENDS RiscvPkg

Shamt(b) == b % XLEN

AluResult(alu_op, a, b) ==
  CASE alu_op = "ADD"  -> Wrap(a + b)
    [] alu_op = "SUB"  -> Wrap(a - b)
    [] alu_op = "SLT"  -> IF Signed(a) < Signed(b) THEN 1 ELSE 0
    [] alu_op = "SLTU" -> IF a < b THEN 1 ELSE 0
    [] alu_op = "XOR"  -> BitXor(a, b)
    [] alu_op = "OR"   -> BitOr(a, b)
    [] alu_op = "AND"  -> BitAnd(a, b)
    [] alu_op = "SLL"  -> Wrap(a * 2^Shamt(b))
    [] alu_op = "SRL"  -> a \div 2^Shamt(b)
    [] alu_op = "SRA"  -> Wrap(Signed(a) \div 2^Shamt(b))
    [] alu_op \in ALU_MUL_OPS \cup ALU_DIV_OPS -> 0
    [] OTHER -> b                                            \* COPY_B (LUI)

(* Mutant of BranchCond: BGE is not taken for equal operands. *)
BranchCond_StrictGe(branch_kind, a, b) ==
  \/ branch_kind = "EQ"  /\ a = b
  \/ branch_kind = "NE"  /\ a # b
  \/ branch_kind = "LT"  /\ Signed(a) < Signed(b)
  \/ branch_kind = "GE"  /\ Signed(a) > Signed(b)
  \/ branch_kind = "LTU" /\ a < b
  \/ branch_kind = "GEU" /\ a >= b

BranchCond(branch_kind, a, b) ==
  \/ branch_kind = "EQ"  /\ a = b
  \/ branch_kind = "NE"  /\ a # b
  \/ branch_kind = "LT"  /\ Signed(a) < Signed(b)
  \/ branch_kind = "GE"  /\ Signed(a) >= Signed(b)
  \/ branch_kind = "LTU" /\ a < b
  \/ branch_kind = "GEU" /\ a >= b
=============================================================================
