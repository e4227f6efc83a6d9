----------------------------- MODULE CoverGroups -----------------------------
(* The cover groups of riscv_instr_cover_group.py. A group is a set of      *)
(* coverpoints, each sampling one field of the instruction into bins (the   *)
(* values of a bin, by its name) with a weight, and of crosses of points.   *)
(* Enumerated bins match by value, as in pyvsc. precision is 1 for single   *)
(* and 0 for double: it is the weight of the single precision points.       *)
EXTENDS CovInstr

Each(type) == [n \in DOMAIN type |-> {type[n]}]
Point(field, bins) == [field |-> field, bins |-> bins, weight |-> 1]
As(type, fields) == {Point(f, Each(type)) : f \in fields}
Gpr(regs)       == As(riscv_reg_t, regs)
Fpr(regs)       == As(riscv_fpr_t, regs)
Cgpr(regs)      == As(compressed_gpr, regs)
NonZero(regs)   == As(riscv_reg_ex_zero_t, regs)
NonZeroSp(regs) == As(riscv_reg_ex_zero_sp_t, regs)
Link(regs)      == As(jalr_riscv_reg_t, regs)
Hazard(type)    == As(type, {"gpr_hazard"})
Lsu(type)       == As(type, {"lsu_hazard"})
LsuAsGpr        == As(branch_hazard_e, {"gpr_hazard"})

SignOf == [rs1 |-> "rs1_sign", rs2 |-> "rs2_sign", rd |-> "rd_sign",
           imm |-> "imm_sign", fs1 |-> "fs1_sign", fs2 |-> "fs2_sign",
           fs3 |-> "fs3_sign", fd |-> "fd_sign"]
Signs(operands) == As(operand_sign_e, {SignOf[r] : r \in operands})
Cross(points) == {[cross |-> points]}

Result    == {Point("rd_value[0]", [Unset |-> {0}, Set |-> {1}])}
Taken     == {Point("branch_hit", [Not_taken |-> {0}, Taken |-> {1}])}
Alignment == {Point("unaligned_mem_access", [aligned |-> {0}, unaligned |-> {1}])}
Align(field)  == {Point(field, [Not_aligned |-> {0}, Aligned |-> {1}])}
Offset(field) ==
  {Point(field, [Zero |-> {0}, One |-> {1}, Two |-> {2}, Three |-> {3}])}

(* The four points of a floating-point value. The single precision negative *)
(* infinity is mistyped, so it and the largest negative have no bin. The    *)
(* subnormal points test the exponent for zero; as an int32_t both answers  *)
(* fall in one automatic bin.                                               *)
FpValue == [fs1 |-> "fs1_value", fs2 |-> "fs2_value", fs3 |-> "fs3_value",
            fd |-> "fd_value"]
ZeroExponent == {"zero", "-zero", "subnormal", "-subnormal"}
ByClass(classes) == [c \in classes |-> {c}]
SfpSpecial == ByClass({"inf", "largest", "zero", "-zero", "nan"})
DfpSpecial == ByClass({"inf", "-inf", "largest", "-largest", "zero", "-zero", "nan"})
AsBit == [no |-> (FpPositive \cup FpNegative) \ ZeroExponent, yes |-> ZeroExponent]
AsInt == [auto |-> FpPositive \cup FpNegative]
FpPoint(r, bins, weight) ==
  {[field |-> FpValue[r], bins |-> bins, weight |-> weight]}
Fp(r, precision) ==
  FpPoint(r, SfpSpecial, precision) \cup FpPoint(r, AsInt, precision)
    \cup FpPoint(r, DfpSpecial, 1 - precision) \cup FpPoint(r, AsBit, 1 - precision)
FpSqrt(r, precision) ==
  FpPoint(r, SfpSpecial, precision) \cup FpPoint(r, AsBit, precision)
    \cup FpPoint(r, DfpSpecial, 1 - precision) \cup FpPoint(r, AsBit, 1 - precision)
FpBoth(r) ==
  FpPoint(r, SfpSpecial, 1) \cup FpPoint(r, AsInt, 1)
    \cup FpPoint(r, DfpSpecial, 1) \cup FpPoint(r, AsBit, 1)

(* The shapes many groups share.                                            *)
RegReg   == Gpr({"rs1", "rs2", "rd"}) \cup Signs({"rs1", "rs2", "rd"}) \cup Hazard(hazard_e)
RegImm   == Gpr({"rs1", "rd"}) \cup Signs({"rs1", "rd", "imm"}) \cup Hazard(hazard_e)
ShiftImm == Gpr({"rs1", "rd"}) \cup Signs({"rs1", "rd"}) \cup Hazard(hazard_e)
Upper    == Gpr({"rd"}) \cup Signs({"rd"}) \cup Hazard(hazard_e)
Load     == NonZero({"rs1"}) \cup Gpr({"rd"}) \cup Signs({"imm"}) \cup Hazard(hazard_e)
              \cup LsuAsGpr
Store    == NonZero({"rs1"}) \cup Gpr({"rs2"}) \cup Signs({"imm"})
              \cup Hazard(branch_hazard_e) \cup Lsu(store_lsu_hazard_e)
Branch   == Gpr({"rs1", "rs2"}) \cup Signs({"rs1", "rs2", "imm"})
              \cup Hazard(branch_hazard_e) \cup Taken \cup Cross(Signs({"rs1", "rs2"}))
FpFused(precision) ==
  LET R == {"fs1", "fs2", "fs3", "fd"}
  IN  Fpr(R) \cup Signs(R) \cup Hazard(hazard_e) \cup Cross(Signs(R))
        \cup UNION {Fp(r, precision) : r \in R}
FpBinary(precision) ==
  LET R == {"fs1", "fs2", "fd"}
  IN  Fpr(R) \cup Signs(R) \cup Hazard(hazard_e) \cup UNION {Fp(r, precision) : r \in R}
FpToInt == Gpr({"fs1", "rd"}) \cup Signs({"fs1", "rd"}) \cup Hazard(hazard_e)
IntToFp == Gpr({"rs1"}) \cup Fpr({"fd"}) \cup Signs({"rs1", "fd"}) \cup Hazard(hazard_e)
FpCompare(precision) ==
  Gpr({"fs1", "fs2", "rd"}) \cup Signs({"fs1", "fs2"}) \cup Hazard(hazard_e)
    \cup Fp("fs1", precision) \cup Fp("fs2", precision)

-----------------------------------------------------------------------------
r_instr_cg == RegReg
i_instr_cg == RegImm
u_instr_cg == Upper
cmp_instr_cg == Gpr({"rs1", "rd"}) \cup Signs({"rs1"}) \cup Hazard(hazard_e) \cup Result
sb_instr_cg == Branch
j_instr_cg == Gpr({"rd"}) \cup Signs({"imm"}) \cup Align("rd_value[1]")
mulw_cg == RegReg \cup Cross(Signs({"rs1", "rs2"}))
divw_cg ==
  RegReg \cup As(div_result_e, {"div_result"}) \cup Cross(Signs({"rs1", "rs2", "rd"}))
divuw_cg ==
  RegReg \cup As(div_result_e, {"div_result"}) \cup Cross(Signs({"rs1", "rs2", "rd"}))
remw_cg == RegReg \cup As(div_result_e, {"div_result"}) \cup Cross(Signs({"rs1", "rs2"}))
remuw_cg == RegReg \cup As(div_result_e, {"div_result"}) \cup Cross(Signs({"rs1", "rs2"}))
c_ld_cg == Cgpr({"rs1", "rd"}) \cup Hazard(hazard_e) \cup Lsu(branch_hazard_e)
c_ldsp_cg == Cgpr({"rd"})
c_sd_cg == Cgpr({"rs1", "rs2"}) \cup Hazard(branch_hazard_e) \cup Lsu(store_lsu_hazard_e)
c_sdsp_cg == Cgpr({"rs2"})
c_addiw_cg == NonZero({"rd"}) \cup Signs({"imm"}) \cup Hazard(store_lsu_hazard_e)
c_subw_cg == Cgpr({"rd", "rs2"}) \cup Hazard(hazard_e)
c_addw_cg == Cgpr({"rd", "rs2"}) \cup Hazard(hazard_e)
lwu_cg == Load
ld_cg == Load
sd_cg == Store
sraw_cg == RegReg \cup Cross(Signs({"rs1", "rs2", "rd"}))
sllw_cg == RegReg \cup Cross(Signs({"rs1", "rs2", "rd"}))
srlw_cg == RegReg \cup Cross(Signs({"rs1", "rs2"}))
srai64_cg == Signs({"imm"}) \cup Hazard(store_lsu_hazard_e)
slli64_cg == Signs({"imm"}) \cup Hazard(store_lsu_hazard_e)
srli64_cg == Signs({"imm"}) \cup Hazard(store_lsu_hazard_e)
sraiw_cg == ShiftImm
slliw_cg == ShiftImm
srliw_cg == ShiftImm
addw_cg == RegReg \cup Cross(Signs({"rs1", "rs2", "rd"}))
subw_cg == RegReg \cup Cross(Signs({"rs1", "rs2", "rd"}))
addiw_cg ==
  RegImm \cup As(logical_similarity_e, {"logical_similarity"})
    \cup Cross(Signs({"rs1", "imm"}))
load_instr_cg == Load
lb_cg == Load
lh_cg == Load \cup Alignment
lw_cg == Load \cup Alignment
lbu_cg == Load
lhu_cg == Load \cup Alignment
store_instr_cg == Store
sb_cg == Store
sh_cg == Store \cup Alignment
sw_cg == Store \cup Alignment
sll_cg == RegReg \cup Cross(Signs({"rs1", "rs2"}))
slli_cg == ShiftImm
srl_cg == RegReg \cup Cross(Signs({"rs1", "rs2"}))
srli_cg == ShiftImm
sra_cg == RegReg \cup Cross(Signs({"rs1", "rs2"}))
srai_cg == ShiftImm
add_cg == RegReg \cup Cross(Signs({"rs1", "rs2", "rd"}))
addi_cg ==
  Gpr({"rs1"}) \cup NonZero({"rd"}) \cup Signs({"rs1", "rd", "imm"})
    \cup Hazard(hazard_e) \cup Cross(Signs({"rs1", "imm", "rd"}))
sub_cg == RegReg \cup Cross(Signs({"rs1", "rs2", "rd"}))
lui_cg == Upper
auipc_cg == Upper
xor_cg ==
  RegReg \cup As(logical_similarity_e, {"logical_similarity"})
    \cup Cross(Signs({"rs1", "rs2"}))
xori_cg ==
  RegImm \cup As(logical_similarity_e, {"logical_similarity"})
    \cup Cross(Signs({"rs1", "imm"}))
or_cg ==
  RegReg \cup As(logical_similarity_e, {"logical_similarity"})
    \cup Cross(Signs({"rs1", "rs2"}))
ori_cg ==
  RegImm \cup As(logical_similarity_e, {"logical_similarity"})
    \cup Cross(Signs({"rs1", "imm"}))
and_cg ==
  RegReg \cup As(logical_similarity_e, {"logical_similarity"})
    \cup Cross(Signs({"rs1", "rs2"}))
andi_cg ==
  RegImm \cup As(logical_similarity_e, {"logical_similarity"})
    \cup Cross(Signs({"rs1", "imm"}))
slt_cg ==
  Gpr({"rs1", "rd", "rs2"}) \cup Signs({"rs1", "rs2"}) \cup Hazard(hazard_e) \cup Result
    \cup Cross(Signs({"rs1", "rs2"}))
slti_cg ==
  Gpr({"rs1", "rd"}) \cup Signs({"rs1", "imm"}) \cup Hazard(hazard_e) \cup Result
    \cup Cross(Signs({"rs1", "imm"}))
sltu_cg ==
  Gpr({"rs1", "rd", "rs2"}) \cup Signs({"rs1", "rs2"}) \cup Hazard(hazard_e) \cup Result
    \cup Cross(Signs({"rs1", "rs2"}))
sltiu_cg ==
  Gpr({"rs1", "rd"}) \cup Signs({"rs1", "imm"}) \cup Hazard(hazard_e) \cup Result
    \cup Cross(Signs({"rs1", "imm"}))
beq_cg == Branch
bne_cg == Branch
blt_cg == Branch
bge_cg == Branch
bltu_cg == Branch
bgeu_cg == Branch
jal_cg == Gpr({"rd"}) \cup Signs({"imm"}) \cup Align("rd_value[1]") \cup Align("imm[1]")
jalr_cg ==
  Gpr({"rd"}) \cup Link({"rs1", "rd"}) \cup Signs({"imm"}) \cup Align("rd_value[1]")
    \cup Offset("imm[2:0]") \cup Offset("rs1_value[2:0]")
    \cup Cross(Offset("imm[2:0]") \cup Offset("rs1_value[2:0]"))
    \cup Cross(Link({"rs1", "rd"}))
mul_cg == RegReg \cup Cross(Signs({"rs1", "rs2", "rd"}))
mulh_cg == RegReg \cup Cross(Signs({"rs1", "rs2", "rd"}))
mulhsu_cg == RegReg \cup Cross(Signs({"rs1", "rs2", "rd"}))
mulhu_cg == RegReg \cup Cross(Signs({"rs1", "rs2", "rd"}))
div_cg ==
  RegReg \cup As(div_result_e, {"div_result"}) \cup Cross(Signs({"rs1", "rs2", "rd"}))
divu_cg ==
  RegReg \cup As(div_result_ex_overflow_e, {"div_result"})
    \cup Cross(Signs({"rs1", "rs2", "rd"}))
rem_cg ==
  RegReg \cup As(div_result_e, {"div_result"}) \cup Cross(Signs({"rs1", "rs2", "rd"}))
remu_cg ==
  RegReg \cup As(div_result_ex_overflow_e, {"div_result"})
    \cup Cross(Signs({"rs1", "rs2", "rd"}))
csrrw_cg == Gpr({"rd", "rs1"}) \cup Hazard(hazard_e)
opcode_cg == {Point("binary[6:2]", [o \in 0 .. 31 |-> {o}])}
rv32i_misc_cg == As(rv32i_misc_instrs, {"instr"})
mepc_alignment_cg == {Point("rd_value[2:0]", [Zero |-> {0}, Two |-> {2}])}

(* A wildcard pattern is four nibbles of binary[15:0], x for any bit.       *)
Nibble ==
  "0000" :> {0} @@ "0001" :> {1} @@ "000x" :> (0 .. 1) @@ "0010" :> {2} @@
  "001x" :> (2 .. 3) @@ "00xx" :> (0 .. 3) @@ "010x" :> (4 .. 5) @@ "0110" :> {6} @@
  "011x" :> (6 .. 7) @@ "01xx" :> (4 .. 7) @@ "0x1x" :> {2, 3, 6, 7} @@
  "0xx1" :> {1, 3, 5, 7} @@ "0xxx" :> (0 .. 7) @@ "1000" :> {8} @@ "1001" :> {9} @@
  "11xx" :> (12 .. 15) @@ "1x00" :> {8, 12} @@ "1x10" :> {10, 14} @@
  "1xxx" :> (8 .. 15) @@ "x000" :> {0, 8} @@ "x100" :> {4, 12} @@
  "x10x" :> {4, 5, 12, 13} @@ "x110" :> {6, 14} @@ "x11x" :> {6, 7, 14, 15} @@
  "x1xx" :> {4, 5, 6, 7, 12, 13, 14, 15} @@ "xx00" :> {0, 4, 8, 12} @@
  "xx01" :> {1, 5, 9, 13} @@ "xx10" :> {2, 6, 10, 14} @@
  "xx1x" :> {2, 3, 6, 7, 10, 11, 14, 15} @@ "xxx1" :> {1, 3, 5, 7, 9, 11, 13, 15} @@
  "xxxx" :> (0 .. 15)
Matches(half, pattern) == \A k \in 1 .. 4 : half[k] \in Nibble[pattern[k]]
Wildcards(patterns) == {[field |-> "binary[15:0]", patterns |-> patterns]}

hint_cg ==
  Wildcards([
    addi |-> {<<"0000", "1xxx", "x000", "0001">>, <<"0000", "x1xx", "x000", "0001">>,
        <<"0000", "xx1x", "x000", "0001">>, <<"0000", "xxx1", "x000", "0001">>,
        <<"0000", "xxxx", "1000", "0001">>},
    li |-> {<<"010x", "0000", "0xxx", "xx01">>},
    lui |-> {<<"011x", "0000", "0xxx", "xx01">>},
    srli64 |-> {<<"1000", "00xx", "x000", "0001">>},
    srai64 |-> {<<"1000", "01xx", "x000", "0001">>},
    slli |-> {<<"000x", "0000", "0xxx", "xx10">>},
    slli64 |-> {<<"0000", "xxxx", "x000", "0010">>},
    mv |-> {<<"1000", "0000", "01xx", "xx10">>, <<"1000", "0000", "0x1x", "xx10">>,
        <<"1000", "0000", "0xx1", "xx10">>, <<"1000", "0000", "0xxx", "1x10">>,
        <<"1000", "0000", "0xxx", "x110">>},
    add |-> {<<"1001", "0000", "01xx", "xx10">>, <<"1001", "0000", "0x1x", "xx10">>,
        <<"1001", "0000", "0xx1", "xx10">>, <<"1001", "0000", "0xxx", "1x10">>,
        <<"1001", "0000", "0xxx", "x110">>}])
illegal_compressed_instr_cg ==
  Wildcards([
    c_illegal |-> {<<"0000", "0000", "0000", "0000">>},
    c_addi4spn |-> {<<"0000", "0000", "000x", "x100">>,
        <<"0000", "0000", "000x", "1x00">>, <<"0000", "0000", "0001", "xx00">>},
    c_addiw |-> {<<"001x", "0000", "0xxx", "xx01">>},
    c_addi16sp |-> {<<"0110", "0001", "0000", "0001">>},
    c_lui |-> {<<"0110", "xxxx", "1000", "0001">>, <<"0110", "xx1x", "x000", "0001">>,
        <<"0110", "x1xx", "x000", "0001">>, <<"0110", "1xxx", "x000", "0001">>},
    c_reserv_0 |-> {<<"1001", "11xx", "x10x", "xx01">>},
    c_reserv_1 |-> {<<"1001", "11xx", "x11x", "xx01">>},
    c_jr |-> {<<"1000", "0000", "0000", "0010">>},
    c_lwsp |-> {<<"010x", "0000", "0xxx", "xx10">>},
    c_lqsp |-> {<<"001x", "0000", "0xxx", "xx10">>},
    c_ldsp |-> {<<"011x", "0000", "0xxx", "xx10">>}])

compressed_opcode_cg == {}
c_lw_cg == Cgpr({"rs1", "rd"}) \cup Hazard(hazard_e) \cup Lsu(branch_hazard_e)
c_lwsp_cg == Cgpr({"rd"})
c_sw_cg == Cgpr({"rs1", "rs2"}) \cup Hazard(branch_hazard_e) \cup Lsu(store_lsu_hazard_e)
c_swsp_cg == Cgpr({"rs2"})
c_addi4spn_cg == Cgpr({"rd"}) \cup Hazard(store_lsu_hazard_e)
c_addi_cg == NonZero({"rd"}) \cup Signs({"imm"}) \cup Hazard(store_lsu_hazard_e)
c_addi16sp_cg == Signs({"imm"}) \cup Hazard(store_lsu_hazard_e)
c_li_cg == NonZero({"rd"}) \cup Signs({"imm"}) \cup Hazard(store_lsu_hazard_e)
c_lui_cg == NonZeroSp({"rd"})
c_sub_cg == Cgpr({"rd", "rs2"}) \cup Hazard(hazard_e)
c_add_cg == NonZero({"rs2", "rd"}) \cup Signs({"rs2"}) \cup Hazard(hazard_e)
c_mv_cg == NonZero({"rs2", "rd"}) \cup Signs({"rs2"}) \cup Hazard(hazard_e)
c_andi_cg == Cgpr({"rs1"}) \cup Signs({"imm"}) \cup Hazard(branch_hazard_e)
c_xor_cg == Cgpr({"rd", "rs2"}) \cup Hazard(hazard_e)
c_or_cg == Cgpr({"rd", "rs2"}) \cup Hazard(hazard_e)
c_and_cg == Cgpr({"rd", "rs2"}) \cup Hazard(hazard_e)
c_beqz_cg == Cgpr({"rs1"}) \cup Signs({"imm"}) \cup Hazard(branch_hazard_e)
c_bnez_cg == Cgpr({"rs1"}) \cup Signs({"imm"}) \cup Hazard(branch_hazard_e)
c_srli_cg == Cgpr({"rs1"}) \cup Hazard(branch_hazard_e)
c_srai_cg == Cgpr({"rs1"}) \cup Hazard(branch_hazard_e)
c_slli_cg == NonZero({"rd"}) \cup Hazard(branch_hazard_e)
c_j_cg == Signs({"imm"})
c_jal_cg == Signs({"imm"})
c_jr_cg == NonZero({"rs1"}) \cup Offset("rs1_value[1:0]")
c_jalr_cg == NonZero({"rs1"}) \cup Offset("rs1_value[1:0]") \cup Align("rd_value[1]")
flw_cg(precision) ==
  NonZero({"rs1"}) \cup Fpr({"fd"}) \cup Signs({"imm"}) \cup Hazard(hazard_e)
    \cup Lsu(branch_hazard_e) \cup Fp("fd", precision)
fld_cg(precision) ==
  NonZero({"rs1"}) \cup Fpr({"fd"}) \cup Signs({"imm"}) \cup Hazard(hazard_e)
    \cup Lsu(branch_hazard_e) \cup Fp("fd", precision)
fsw_cg(precision) ==
  NonZero({"rs1"}) \cup Gpr({"fs2"}) \cup Signs({"imm"}) \cup Hazard(hazard_e)
    \cup Lsu(store_lsu_hazard_e) \cup Fp("fs2", precision)
fsd_cg(precision) ==
  NonZero({"rs1"}) \cup Gpr({"fs2"}) \cup Signs({"imm"}) \cup Hazard(hazard_e)
    \cup Lsu(store_lsu_hazard_e) \cup Fp("fs2", precision)
fadd_s_cg(precision) == FpBinary(precision)
fadd_d_cg(precision) == FpBinary(precision) \cup Cross(Signs({"fs1", "fs2", "fd"}))
fsub_s_cg(precision) == FpBinary(precision) \cup Cross(Signs({"fs1", "fs2", "fd"}))
fsub_d_cg(precision) == FpBinary(precision) \cup Cross(Signs({"fs1", "fs2", "fd"}))
fmul_s_cg(precision) == FpBinary(precision) \cup Cross(Signs({"fs1", "fs2"}))
fmul_d_cg(precision) == FpBinary(precision) \cup Cross(Signs({"fs1", "fs2"}))
fdiv_s_cg(precision) == FpBinary(precision) \cup Cross(Signs({"fs1", "fs2"}))
fdiv_d_cg(precision) == FpBinary(precision) \cup Cross(Signs({"fs1", "fs2"}))
fsqrt_s_cg(precision) ==
  Fpr({"fs1", "fd"}) \cup Signs({"fs1", "fd"}) \cup Hazard(hazard_e)
    \cup FpSqrt("fs1", precision) \cup FpSqrt("fd", precision)
fsqrt_d_cg(precision) ==
  Fpr({"fs1", "fd"}) \cup Signs({"fs1", "fd"}) \cup Hazard(hazard_e)
    \cup Fp("fs1", precision) \cup Fp("fd", precision)
fmin_s_cg(precision) == FpBinary(precision) \cup Cross(Signs({"fs1", "fs2"}))
fmin_d_cg(precision) == FpBinary(precision) \cup Cross(Signs({"fs1", "fs2"}))
fmax_s_cg(precision) == FpBinary(precision) \cup Cross(Signs({"fs1", "fs2"}))
fmax_d_cg(precision) == FpBinary(precision) \cup Cross(Signs({"fs1", "fs2"}))
fmadd_s_cg(precision) == FpFused(precision)
fmadd_d_cg(precision) == FpFused(precision)
fnmadd_s_cg(precision) == FpFused(precision)
fnmadd_d_cg(precision) ==
  Fpr({"fs1", "fs2", "fs3"}) \cup Gpr({"fd"}) \cup Signs({"fs1", "fs2", "fs3", "fd"})
    \cup Hazard(hazard_e) \cup Fp("fs1", precision) \cup Fp("fs2", precision)
    \cup Fp("fs3", precision) \cup Fp("fd", precision)
fmsub_s_cg(precision) == FpFused(precision)
fmsub_d_cg(precision) == FpFused(precision)
fnmsub_s_cg(precision) == FpFused(precision)
fnmsub_d_cg(precision) == FpFused(precision)
fcvt_s_d_cg ==
  Fpr({"fs1", "fd"}) \cup Signs({"fs1", "fd"}) \cup Hazard(hazard_e) \cup FpBoth("fd")
fcvt_d_s_cg ==
  Fpr({"fs1", "fd"}) \cup Signs({"fs1", "fd"}) \cup Hazard(hazard_e) \cup FpBoth("fd")
fcvt_w_s_cg(precision) == FpToInt \cup Fp("fs1", precision)
fcvt_wu_s_cg(precision) == FpToInt \cup Fp("fs1", precision)
fcvt_l_s_cg == FpToInt \cup FpBoth("fs1")
fcvt_lu_s_cg == FpToInt \cup FpBoth("fs1")
fcvt_l_d_cg == FpToInt \cup FpBoth("fd")
fcvt_lu_d_cg == FpToInt \cup FpBoth("fd")
fcvt_w_d_cg(precision) == FpToInt \cup Fp("fs1", precision)
fcvt_wu_d_cg(precision) == FpToInt \cup Fp("fs1", precision)
fcvt_s_w_cg == IntToFp
fcvt_s_wu_cg == IntToFp
fcvt_s_l_cg == IntToFp
fcvt_d_l_cg == IntToFp \cup FpBoth("fd")
fcvt_s_lu_cg == IntToFp
fcvt_d_w_cg == IntToFp
fcvt_d_lu_cg ==
  Gpr({"rs1", "fd"}) \cup Signs({"rs1", "fd"}) \cup Hazard(hazard_e) \cup FpBoth("fd")
fcvt_d_wu_cg == IntToFp
fsgnj_s_cg(precision) == FpBinary(precision) \cup Cross(Signs({"fs1", "fs2", "fd"}))
fsgnj_d_cg(precision) == FpBinary(precision) \cup Cross(Signs({"fs1", "fs2", "fd"}))
fsgnjn_s_cg(precision) == FpBinary(precision) \cup Cross(Signs({"fs1", "fs2", "fd"}))
fsgnjn_d_cg(precision) == FpBinary(precision) \cup Cross(Signs({"fs1", "fs2", "fd"}))
fsgnjx_s_cg(precision) == FpBinary(precision)
fsgnjx_d_cg(precision) == FpBinary(precision) \cup Cross(Signs({"fs1", "fs2", "fd"}))
fmv_x_w_cg(precision) == FpToInt \cup Fp("fs1", precision)
fmv_x_d_cg == FpToInt \cup FpBoth("fs1")
fmv_w_x_cg == IntToFp
fmv_d_x_cg == IntToFp
feq_s_cg(precision) == FpCompare(precision)
feq_d_cg(precision) == FpCompare(precision)
flt_s_cg(precision) == FpCompare(precision)
flt_d_cg(precision) == FpCompare(precision)
fle_s_cg(precision) == FpCompare(precision)
fle_d_cg(precision) == FpCompare(precision)
fclass_s_cg(precision) ==
  Gpr({"fs1", "rd"}) \cup Signs({"fs1"}) \cup Hazard(hazard_e)
    \cup As(operand_sign_e, {"rd_value"}) \cup Fp("fs1", precision)
fclass_d_cg(precision) ==
  Gpr({"fs1", "rd"}) \cup Signs({"fs1"}) \cup Hazard(hazard_e)
    \cup As(operand_sign_e, {"rd_value"}) \cup Fp("fs1", precision)

-----------------------------------------------------------------------------
(* cg_instantiation: the groups there is an instance of. The others (jalr,  *)
(* the branches but beq, the loads and stores, fsd) are never sampled.      *)
cg_i ==
  [CSRRW |-> csrrw_cg, BEQ |-> beq_cg, JAL |-> jal_cg, LUI |-> lui_cg, ADDI |-> addi_cg,
   AUIPC |-> auipc_cg, ORI |-> ori_cg, ADD |-> add_cg, SUB |-> sub_cg, SRA |-> sra_cg,
   ANDI |-> andi_cg, SRLI |-> srli_cg, AND |-> and_cg, SRL |-> srl_cg, SLL |-> sll_cg,
   XOR |-> xor_cg, OR |-> or_cg, SLTU |-> sltu_cg, SLTIU |-> sltiu_cg, XORI |-> xori_cg,
   SLTI |-> slti_cg, SRAI |-> srai_cg, SLT |-> slt_cg, SLLI |-> slli_cg, MUL |-> mul_cg,
   MULH |-> mulh_cg, MULHSU |-> mulhsu_cg, MULHU |-> mulhu_cg, DIV |-> div_cg,
   DIVU |-> divu_cg, REM |-> rem_cg, REMU |-> remu_cg, C_LW |-> c_lw_cg,
   C_LWSP |-> c_lwsp_cg, C_SW |-> c_sw_cg, C_SWSP |-> c_swsp_cg,
   C_ADDI4SPN |-> c_addi4spn_cg, C_ADDI |-> c_addi_cg, C_ADDI16SP |-> c_addi16sp_cg,
   C_LI |-> c_li_cg, C_LUI |-> c_lui_cg, C_SUB |-> c_sub_cg, C_ADD |-> c_add_cg,
   C_MV |-> c_mv_cg, C_ANDI |-> c_andi_cg, C_XOR |-> c_xor_cg, C_OR |-> c_or_cg,
   C_AND |-> c_and_cg, C_BEQZ |-> c_beqz_cg, C_BNEZ |-> c_bnez_cg, C_SRLI |-> c_srli_cg,
   C_SRAI |-> c_srai_cg, C_SLLI |-> c_slli_cg, C_J |-> c_j_cg, C_JAL |-> c_jal_cg,
   C_JR |-> c_jr_cg, C_JALR |-> c_jalr_cg, FLW |-> flw_cg(1), FLD |-> fld_cg(0),
   FSW |-> fsw_cg(0), FADD_S |-> fadd_s_cg(1), FADD_D |-> fadd_d_cg(0),
   FSUB_S |-> fsub_s_cg(1), FSUB_D |-> fsub_d_cg(0), FMUL_S |-> fmul_s_cg(1),
   FMUL_D |-> fmul_d_cg(0), FDIV_S |-> fdiv_s_cg(1), FDIV_D |-> fdiv_d_cg(0),
   FSQRT_S |-> fsqrt_s_cg(1), FSQRT_D |-> fsqrt_d_cg(0), FMIN_S |-> fmin_s_cg(1),
   FMIN_D |-> fmin_d_cg(0), FMAX_S |-> fmax_s_cg(1), FMAX_D |-> fmax_d_cg(0),
   FMADD_S |-> fmadd_s_cg(1), FMADD_D |-> fmadd_d_cg(0), FNMADD_S |-> fnmadd_s_cg(1),
   FNMADD_D |-> fnmadd_d_cg(0), FMSUB_S |-> fmsub_s_cg(1), FMSUB_D |-> fmsub_d_cg(0),
   FNMSUB_S |-> fnmsub_s_cg(1), FNMSUB_D |-> fnmsub_d_cg(0), FCVT_S_D |-> fcvt_s_d_cg,
   FCVT_D_S |-> fcvt_d_s_cg, FCVT_W_S |-> fcvt_w_s_cg(1), FCVT_WU_S |-> fcvt_wu_s_cg(1),
   FCVT_L_S |-> fcvt_l_s_cg, FCVT_LU_S |-> fcvt_lu_s_cg, FCVT_L_D |-> fcvt_l_d_cg,
   FCVT_LU_D |-> fcvt_lu_d_cg, FCVT_W_D |-> fcvt_w_d_cg(0),
   FCVT_WU_D |-> fcvt_wu_d_cg(0), FCVT_S_W |-> fcvt_s_w_cg, FCVT_S_WU |-> fcvt_s_wu_cg,
   FCVT_S_L |-> fcvt_s_l_cg, FCVT_D_L |-> fcvt_d_l_cg, FCVT_S_LU |-> fcvt_s_lu_cg,
   FCVT_D_W |-> fcvt_d_w_cg, FCVT_D_LU |-> fcvt_d_lu_cg, FCVT_D_WU |-> fcvt_d_wu_cg,
   FSGNJ_S |-> fsgnj_s_cg(1), FSGNJ_D |-> fsgnj_d_cg(0), FSGNJN_S |-> fsgnjn_s_cg(1),
   FSGNJN_D |-> fsgnjn_d_cg(0), FSGNJX_S |-> fsgnjx_s_cg(1), FSGNJX_D |-> fsgnjx_d_cg(0),
   FMV_X_W |-> fmv_x_w_cg(1), FMV_X_D |-> fmv_x_d_cg, FMV_W_X |-> fmv_w_x_cg,
   FMV_D_X |-> fmv_d_x_cg, FEQ_S |-> feq_s_cg(1), FEQ_D |-> feq_d_cg(0),
   FLT_S |-> flt_s_cg(1), FLT_D |-> flt_d_cg(0), FLE_S |-> fle_s_cg(1),
   FLE_D |-> fle_d_cg(0), FCLASS_S |-> fclass_s_cg(1), FCLASS_D |-> fclass_d_cg(0),
   MULW |-> mulw_cg, DIVW |-> divw_cg, DIVUW |-> divuw_cg, REMW |-> remw_cg,
   REMUW |-> remuw_cg, C_ADDIW |-> c_addiw_cg, C_SUBW |-> c_subw_cg,
   C_ADDW |-> c_addw_cg, C_LD |-> c_ld_cg, C_SD |-> c_sd_cg, C_LDSP |-> c_ldsp_cg,
   C_SDSP |-> c_sdsp_cg, LWU |-> lwu_cg, LD |-> ld_cg, SD |-> sd_cg, ADDIW |-> addiw_cg,
   SLLIW |-> slliw_cg, SRLIW |-> srliw_cg, SRAIW |-> sraiw_cg, ADDW |-> addw_cg,
   SUBW |-> subw_cg, SLLW |-> sllw_cg, SRLW |-> srlw_cg, SRAW |-> sraw_cg]

(* What a point reads of an instruction.                                    *)
Bits(v, low, n) == (v \div 2^low) % 2^n
Sampled(i, field) ==
  CASE field = "rd_value[0]"    -> Bits(i.rd_value, 0, 1)
    [] field = "rd_value[1]"    -> Bits(i.rd_value, 1, 1)
    [] field = "rd_value[2:0]"  -> Bits(i.rd_value, 0, 3)
    [] field = "rs1_value[1:0]" -> Bits(i.rs1_value, 0, 2)
    [] field = "rs1_value[2:0]" -> Bits(i.rs1_value, 0, 3)
    [] field = "imm[1]"         -> Bits(i.imm, 1, 1)
    [] field = "imm[2:0]"       -> Bits(i.imm, 0, 3)
    [] field = "binary[6:2]"    -> Bits(i.binary[3], 0, 3) * 4 + i.binary[4] \div 4
    [] field = "instr"          -> IF i.instr \in DOMAIN riscv_instr_name_t
                                   THEN riscv_instr_name_t[i.instr] ELSE 99
    [] field \in DOMAIN i       -> i[field]

(* The bins an instruction hits: <<point, bin>>, and for a cross the bins   *)
(* of its points when every one of them has a bin.                          *)
(* Mutant of PointHits: every pattern of a bin must match. *)
PointHits_EveryPattern(i, p) ==
  IF "patterns" \in DOMAIN p
  THEN {n \in DOMAIN p.patterns : \A w \in p.patterns[n] : Matches(i.binary, w)}
  ELSE {n \in DOMAIN p.bins : Sampled(i, p.field) \in p.bins[n]}
PointHits(i, p) ==
  IF "patterns" \in DOMAIN p
  THEN {n \in DOMAIN p.patterns : \E w \in p.patterns[n] : Matches(i.binary, w)}
  ELSE {n \in DOMAIN p.bins : Sampled(i, p.field) \in p.bins[n]}
Points(group) == {p \in group : "cross" \notin DOMAIN p}
Hits(i, group) == UNION {{<<p, n>> : n \in PointHits(i, p)} : p \in Points(group)}
CrossHits(i, group) ==
  {<<c, [p \in c.cross |-> PointHits(i, p)]>> :
     c \in {c \in group \ Points(group) : \A p \in c.cross : PointHits(i, p) # {}}}

(* The groups sample() samples with an instruction, rv32c: RV32C supported. *)
NotCompressed(i) == i.binary[4] % 4 = 3
MEPC == "MEPC"
GroupsOf(i, rv32c) ==
  (IF ~NotCompressed(i) /\ rv32c
   THEN {"hint_cg", "illegal_compressed_instr_cg"} ELSE {})
    \cup (IF NotCompressed(i) THEN {"opcode_cg"} ELSE {})
    \cup (IF i.instr \in DOMAIN cg_i THEN {i.instr} ELSE {})
    \cup (IF i.group = "RV32I" THEN {"rv32i_misc_cg"} ELSE {})
    \cup (IF i.category = "CSR" /\ i.csr = MEPC THEN {"mepc_alignment_cg"} ELSE {})
=============================================================================
