------------------------------ MODULE CovInstr -------------------------------
(* One instruction of a trace as the functional coverage sees it            *)
(* (riscv_cov_instr.py, and riscv_floating_point_instr.py for RV32F/RV32D). *)
(* A register value is a natural number, a floating-point one the name of   *)
(* its class. An operand of a trace row is <<kind, value>>, of kind "x",    *)
(* "f" (registers), "i" (a number) or "c" (a CSR name). Values no           *)
(* coverpoint reads (special values, compare_result) are left out.          *)
EXTENDS RiscvDvPkg

CONSTANT XLEN

FpPositive == {"zero", "subnormal", "normal", "largest", "inf", "nan"}
FpNegative == {"-zero", "-subnormal", "-normal", "-largest", "-inf"}

-----------------------------------------------------------------------------
FpToGpr == {"FMV_X_W", "FCVT_W_S", "FCVT_WU_S", "FCVT_W_D", "FCVT_WU_D"}
FpFromGpr == {"FMV_W_X", "FCVT_S_W", "FCVT_S_WU", "FCVT_D_W", "FCVT_D_WU"}
FpClass == {"FCLASS_S", "FCLASS_D"}

(* A new instruction: its attributes, which operands it has (set_mode and   *)
(* set_fd_mode), and the constructor's values for the rest. Those are the   *)
(* same for an integer instruction: it "has" fs1, fs2 and fd, all zero.     *)
WithAttributes(n, a) ==
  LET fp == a.group \in {"RV32F", "RV32D"}
      I  == a.format = "I" /\ a.category # "LOAD"
  IN  [instr |-> n, format |-> a.format, category |-> a.category,
       group |-> a.group,
       has_rs1 |-> a.format \notin {"U", "J"} /\ ~(a.category = "CSR" /\ I),
       has_rs2 |-> a.format \notin {"I", "U", "J"} /\ a.category # "CSR",
       has_rd  |-> a.format \notin {"S", "B"},
       has_fs1 |-> ~(fp /\ (a.format = "S" \/ (I /\ n \in FpFromGpr))),
       has_fs2 |-> ~(fp /\ (a.format = "I" \/ n \in FpClass)),
       has_fs3 |-> fp /\ a.format = "R4",
       has_fd  |-> ~(fp /\ \/ I /\ n \in FpToGpr
                           \/ a.category = "COMPARE"
                           \/ n \in FpClass),
       rs1 |-> 0, rs2 |-> 0, rd |-> 0, fs1 |-> 0, fs2 |-> 0, fs3 |-> 0, fd |-> 0,
       imm |-> 0, csr |-> "", mem_addr |-> 0, binary |-> <<0, 0, 0, 3>>,
       rs1_value |-> 0, rs2_value |-> 0, rd_value |-> 0,
       fs1_value |-> "zero", fs2_value |-> "zero", fs3_value |-> "zero",
       fd_value |-> "zero",
       rs1_sign |-> 0, rs2_sign |-> 0, rd_sign |-> 0, imm_sign |-> 0,
       fs1_sign |-> 0, fs2_sign |-> 0, fs3_sign |-> 0, fd_sign |-> 0,
       gpr_hazard |-> 0, lsu_hazard |-> 0, branch_hit |-> 0,
       div_result |-> 0, logical_similarity |-> 0, unaligned_mem_access |-> 0]
assign_attributes(n) == WithAttributes(n, get_attr_list(n))

-----------------------------------------------------------------------------
(* update_src_regs: where in the row's operands each source is; 0 is        *)
(* nowhere, StackPointer the implicit one. asserted is the number of        *)
(* operands the code insists on, 0 where it does not check.                 *)
StackPointer == 99
Layout(asserted, rs1, rs2, imm, csr) ==
  [asserted |-> asserted, rs1 |-> rs1, rs2 |-> rs2, imm |-> imm, csr |-> csr]

BaseLayout(i) ==
  CASE i.format \in {"J", "U"} -> Layout(2, 0, 0, 2, 0)
    [] i.format = "I" /\ i.category = "LOAD" -> Layout(3, 3, 0, 2, 0)
    [] i.format = "I" /\ i.category = "CSR"  -> Layout(3, 0, 0, 3, 2)
    [] i.format = "I" /\ i.category \notin {"LOAD", "CSR"} -> Layout(3, 2, 0, 3, 0)
    [] i.format \in {"S", "B"} /\ i.category = "STORE" -> Layout(3, 3, 1, 2, 0)
    [] i.format \in {"S", "B"} /\ i.category # "STORE" -> Layout(3, 1, 2, 3, 0)
    [] i.format = "R" /\ i.category = "CSR" -> Layout(3, 3, 0, 0, 2)
    [] i.format = "R" /\ i.category # "CSR" /\ i.has_rs2 -> Layout(3, 2, 3, 0, 0)

CompressedLayout(i) ==
  CASE i.instr = "C_ADDI16SP" -> Layout(0, StackPointer, 0, 2, 0)
    [] i.instr = "C_ADDI4SPN" -> Layout(0, StackPointer, 0, 0, 0)
    [] i.instr \in {"C_LDSP", "C_LWSP"} -> Layout(0, StackPointer, 0, 2, 0)
    [] i.format = "CI" /\ i.instr \notin {"C_ADDI16SP", "C_LDSP", "C_LWSP"}
         -> Layout(0, 0, 0, 2, 0)
    [] i.format = "CL"  -> Layout(0, 3, 0, 2, 0)
    [] i.format = "CS"  -> Layout(0, 3, 1, 2, 0)
    [] i.format = "CA"  -> Layout(0, 1, 2, 0, 0)
    [] i.format = "CB"  -> Layout(0, 1, 0, 2, 0)
    [] i.format = "CSS" -> Layout(0, StackPointer, 1, 2, 0)
    [] i.format = "CR" /\ i.category = "JUMP" -> Layout(0, 1, 0, 0, 0)
    [] i.format = "CR" /\ i.category # "JUMP" -> Layout(0, 0, 2, 0, 0)
    [] i.format = "CJ"  -> Layout(0, 0, 0, 1, 0)

(* Mutant of SrcLayout: the operands of a store are taken in a load's order. *)
SrcLayout_StoreSwapped(i) ==
  IF i.category = "STORE" THEN Layout(3, 1, 3, 2, 0)
  ELSE IF i.group \in {"RV32C", "RV64C"} THEN CompressedLayout(i) ELSE BaseLayout(i)
SrcLayout(i) ==
  IF i.group \in {"RV32C", "RV64C"} THEN CompressedLayout(i) ELSE BaseLayout(i)

(* The operand at a place is of a kind; the place may be nowhere.           *)
Is(ops, at, kind) ==
  at \notin {0, StackPointer} => at <= Len(ops) /\ ops[at][1] = kind

(* The conditions under which update_src_regs returns: the assertions and   *)
(* the lookups that raise otherwise.                                        *)
SrcReadable(i, ops) ==
  LET l == SrcLayout(i)
  IN  /\ l.asserted # 0 => Len(ops) = l.asserted
      /\ Is(ops, l.rs1, "x") /\ Is(ops, l.rs2, "x") /\ Is(ops, l.imm, "i")
      /\ Is(ops, l.csr, "c")

get_gpr(ops, at) ==
  CASE at = 0 -> "ZERO" [] at = StackPointer -> "SP" [] OTHER -> ops[at][2]
get_gpr_state(gpr_state, r) == IF r = "ZERO" THEN 0 ELSE gpr_state[r]

update_src_regs(i, ops, gpr_state) ==
  LET l == SrcLayout(i)
      a == get_gpr(ops, l.rs1)
      b == get_gpr(ops, l.rs2)
  IN  [i EXCEPT !.rs1 = riscv_reg_t[a], !.rs1_value = get_gpr_state(gpr_state, a),
                !.rs2 = riscv_reg_t[b], !.rs2_value = get_gpr_state(gpr_state, b),
                !.imm = IF l.imm = 0 THEN 0 ELSE ops[l.imm][2],
                !.csr = IF l.csr = 0 THEN "" ELSE ops[l.csr][2]]

update_dst_regs(i, r, val) == [i EXCEPT !.rd = riscv_reg_t[r], !.rd_value = val]

-----------------------------------------------------------------------------
(* The floating-point update_src_regs. An R format is only read when it     *)
(* came as a pseudo-instruction with two operands, whose fs2 is the first.  *)
FsgnjFamily == {"FSGNJ_S", "FSGNJN_S", "FSGNJX_S", "FSGNJ_D", "FSGNJN_D", "FSGNJX_D"}
FpPseudo(i, ops) == i.format = "R" /\ Len(ops) = 2 /\ i.instr \in FsgnjFamily

FpSrcReadable(i, ops) ==
  CASE i.format = "I" -> /\ i.has_fs1 => Is(ops, 2, "f")
                         /\ ~i.has_fs1 => Is(ops, 2, "x")
    [] i.format = "S" -> /\ Len(ops) = 3
                         /\ Is(ops, 1, "f") /\ Is(ops, 2, "x") /\ Is(ops, 3, "i")
    [] i.format = "R" -> FpPseudo(i, ops) => Is(ops, 1, "f") /\ Is(ops, 2, "f")
    [] i.format = "R4" -> Len(ops) = 4 /\ \A k \in 2 .. 4 : Is(ops, k, "f")

(* The register field f of i takes the operand at a place. *)
Take(i, f, fvalue, ops, at, gpr_state) ==
  LET r == ops[at][2]
  IN  [i EXCEPT ![f] = IF ops[at][1] = "f" THEN riscv_fpr_t[r] ELSE riscv_reg_t[r],
                ![fvalue] = get_gpr_state(gpr_state, r)]

(* Mutant of FpUpdateSrc: the operands of an R4 format one place too early. *)
FpUpdateSrc_OffByOne(i, ops, s) ==
  IF i.format = "R4" THEN Take(Take(i, "fs1", "fs1_value", ops, 1, s),
                               "fs2", "fs2_value", ops, 2, s)
  ELSE Take(i, IF i.has_fs1 THEN "fs1" ELSE "rs1",
            IF i.has_fs1 THEN "fs1_value" ELSE "rs1_value", ops, 2, s)
FpUpdateSrc(i, ops, s) ==
  CASE i.format = "I" /\ i.has_fs1 -> Take(i, "fs1", "fs1_value", ops, 2, s)
    [] i.format = "I" /\ ~i.has_fs1 -> Take(i, "rs1", "rs1_value", ops, 2, s)
    [] i.format = "S" ->
         [Take(Take(i, "fs2", "fs2_value", ops, 1, s),
               "rs1", "rs1_value", ops, 2, s) EXCEPT !.imm = ops[3][2]]
    [] FpPseudo(i, ops) -> Take(Take(i, "fs1", "fs1_value", ops, 2, s),
                                "fs2", "fs2_value", ops, 1, s)
    [] i.format = "R" /\ ~FpPseudo(i, ops) -> i
    [] i.format = "R4" -> Take(Take(Take(i, "fs1", "fs1_value", ops, 2, s),
                                    "fs2", "fs2_value", ops, 3, s),
                               "fs3", "fs3_value", ops, 4, s)

FpUpdateDst(i, r, val) ==
  IF i.has_fd THEN [i EXCEPT !.fd = riscv_fpr_t[r], !.fd_value = val]
              ELSE [i EXCEPT !.rd = riscv_reg_t[r], !.rd_value = val]

-----------------------------------------------------------------------------
(* pre_sample: the classes of the values.                                   *)
MinValue == 2^(XLEN - 1)
get_operand_sign(v) == operand_sign_e[IF v >= MinValue THEN "NEGATIVE" ELSE "POSITIVE"]
get_imm_sign(v) == operand_sign_e[IF v < 0 THEN "NEGATIVE" ELSE "POSITIVE"]
get_fp_operand_sign(c) ==
  operand_sign_e[IF c \in FpNegative THEN "NEGATIVE" ELSE "POSITIVE"]

is_unaligned_mem_access(i) ==
  IF \/ i.instr \in {"LWU", "LD", "SD", "C_LD", "C_SD"} /\ i.mem_addr % 8 # 0
     \/ i.instr \in {"LW", "SW", "C_LW", "C_SW"} /\ i.mem_addr % 4 # 0
     \/ i.instr \in {"LH", "LHU", "SH"} /\ i.mem_addr % 2 # 0
  THEN 1 ELSE 0

get_div_result(i) ==
  div_result_e[
    CASE i.rs2_value = 0 -> "DIV_BY_ZERO"
      [] i.rs2_value = 1 /\ i.rs1_value = MinValue -> "DIV_OVERFLOW"
      [] OTHER -> "DIV_NORMAL"]

(* Mutant of is_branch_hit: BGEU is taken only if greater. *)
is_branch_hit_Strict(i) ==
  IF \/ i.instr = "BEQ" /\ i.rs1_value = i.rs2_value
     \/ i.instr = "BNE" /\ i.rs1_value # i.rs2_value
     \/ i.instr \in {"BLT", "BLTU"} /\ i.rs1_value < i.rs2_value
     \/ i.instr \in {"BGE", "BGEU"} /\ i.rs1_value > i.rs2_value
  THEN 1 ELSE 0
(* The values are unsigned, for BLT and BGE too. *)
is_branch_hit(i) ==
  IF \/ i.instr = "BEQ" /\ i.rs1_value = i.rs2_value
     \/ i.instr = "BNE" /\ i.rs1_value # i.rs2_value
     \/ i.instr = "C_BEQZ" /\ i.rs1_value = 0
     \/ i.instr = "C_BNEZ" /\ i.rs1_value # 0
     \/ i.instr \in {"BLT", "BLTU"} /\ i.rs1_value < i.rs2_value
     \/ i.instr \in {"BGE", "BGEU"} /\ i.rs1_value >= i.rs2_value
  THEN 1 ELSE 0

(* bit_difference is the length of a list that holds one list.              *)
BitDifference == 1
get_logical_similarity(i) ==
  LET val2 == IF i.format = "I" THEN i.imm ELSE i.rs2_value
  IN  logical_similarity_e[
        CASE i.rs1_value = val2 -> "IDENTICAL"
          [] i.rs1_value # val2 /\ BitDifference = 32 -> "OPPOSITE"
          [] i.rs1_value # val2 /\ BitDifference < 5 -> "SIMILAR"
          [] OTHER -> "DIFFERENT"]

Divisions == {"DIV", "DIVU", "REM", "REMU", "DIVW", "DIVUW", "REMW", "REMUW"}

(* Mutant of pre_sample: the operand signs come from the destination. *)
pre_sample_RdSign(i) ==
  [i EXCEPT !.rs1_sign = get_operand_sign(i.rd_value)]
pre_sample(i) ==
  LET m == [i EXCEPT !.mem_addr = IF i.category \in {"LOAD", "STORE"}
                                  THEN i.rs1_value + i.imm ELSE 0]
  IN  [m EXCEPT
        !.rs1_sign = get_operand_sign(i.rs1_value),
        !.rs2_sign = get_operand_sign(i.rs2_value),
        !.rd_sign  = get_operand_sign(i.rd_value),
        !.imm_sign = get_imm_sign(i.imm),
        !.unaligned_mem_access = is_unaligned_mem_access(m),
        !.logical_similarity = IF i.category = "LOGICAL"
                               THEN get_logical_similarity(i) ELSE 0,
        !.branch_hit = IF i.category = "BRANCH" THEN is_branch_hit(i) ELSE 0,
        !.div_result = IF i.instr \in Divisions THEN get_div_result(i) ELSE 0]

FpPreSample(i) ==
  [i EXCEPT !.fs1_sign = get_fp_operand_sign(i.fs1_value),
            !.fs2_sign = IF i.instr \in {"FCVT_S_D", "FCVT_D_S"} THEN 0
                         ELSE get_fp_operand_sign(i.fs2_value),
            !.fs3_sign = IF i.instr \in {"FCVT_S_D", "FCVT_D_S"} THEN 0
                         ELSE get_fp_operand_sign(i.fs3_value),
            !.fd_sign = get_fp_operand_sign(i.fd_value)]

-----------------------------------------------------------------------------
(* check_hazard_condition, against the instruction sampled before. The      *)
(* floating-point part comes last and overrides gpr_hazard.                 *)
GprHazard(i, pre) ==
  hazard_e[
    IF (i.has_rs1 /\ i.rs1 = pre.rd) \/ (i.has_rs2 /\ i.rs2 = pre.rd) THEN "RAW_HAZARD"
    ELSE IF i.has_rd /\ i.rd = pre.rd THEN "WAW_HAZARD"
    ELSE IF i.has_rd /\ \/ pre.has_rs1 /\ pre.rs1 = i.rd
                        \/ pre.has_rs2 /\ pre.rs2 = i.rd THEN "WAR_HAZARD"
    ELSE "NO_HAZARD"]

FpHazard(i, pre) ==
  hazard_e[
    IF \/ i.has_fs1 /\ i.fs1 = pre.fd
       \/ i.has_fs2 /\ i.fs2 = pre.fd
       \/ i.has_fs3 /\ i.fs3 = pre.fd THEN "RAW_HAZARD"
    ELSE IF i.has_fd /\ i.fd = pre.fd THEN "WAW_HAZARD"
    ELSE IF i.has_fd /\ \/ pre.has_fs1 /\ pre.fs1 = i.fd
                        \/ pre.has_fs2 /\ pre.fs2 = i.fd
                        \/ pre.has_fs3 /\ pre.fs3 = i.fd THEN "WAR_HAZARD"
    ELSE "NO_HAZARD"]

LsuHazard(i, pre) ==
  hazard_e[
    IF i.mem_addr # pre.mem_addr THEN "NO_HAZARD"
    ELSE CASE i.category = "LOAD" /\ pre.category = "STORE" -> "RAW_HAZARD"
           [] i.category = "STORE" /\ pre.category = "STORE" -> "WAW_HAZARD"
           [] i.category = "STORE" /\ pre.category = "LOAD" -> "WAR_HAZARD"
           [] i.category = "LOAD" /\ pre.category = "LOAD" -> "NO_HAZARD"
           [] pre.category \notin {"LOAD", "STORE"} -> "NO_HAZARD"]

(* Mutant of check_hazard_condition: the kind of the access before is not   *)
(* looked at.                                                               *)
check_hazard_condition_AnyKind(i, pre) ==
  [i EXCEPT !.lsu_hazard = IF i.mem_addr = pre.mem_addr THEN 1 ELSE 0]
check_hazard_condition(i, pre) ==
  [i EXCEPT !.gpr_hazard = IF pre.has_fd THEN FpHazard(i, pre)
                           ELSE IF pre.has_rd THEN GprHazard(i, pre) ELSE @,
            !.lsu_hazard = IF i.category \in {"LOAD", "STORE"}
                           THEN LsuHazard(i, pre) ELSE @]
=============================================================================
