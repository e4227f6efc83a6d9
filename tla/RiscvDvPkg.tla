----------------------------- MODULE RiscvDvPkg ------------------------------
(* Enumerations and the instruction attribute table of riscv-dv's Python    *)
(* package (riscv_instr_pkg.py). An enumeration is a function from its      *)
(* names to their values, for the coverage bins are matched by value.       *)
EXTENDS Integers, Sequences, FiniteSets, TLC

Enum(first, names) ==
  [n \in {names[k] : k \in 1 .. Len(names)} |->
     first - 1 + CHOOSE k \in 1 .. Len(names) : names[k] = n]

GprNames ==
  <<"ZERO", "RA", "SP", "GP", "TP", "T0", "T1", "T2", "S0", "S1", "A0", "A1",
    "A2", "A3", "A4", "A5", "A6", "A7", "S2", "S3", "S4", "S5", "S6", "S7",
    "S8", "S9", "S10", "S11", "T3", "T4", "T5", "T6">>

riscv_reg_t == Enum(0, GprNames)
riscv_fpr_t ==
  Enum(0, <<"FT0", "FT1", "FT2", "FT3", "FT4", "FT5", "FT6", "FT7", "FS0",
            "FS1", "FA0", "FA1", "FA2", "FA3", "FA4", "FA5", "FA6", "FA7",
            "FS2", "FS3", "FS4", "FS5", "FS6", "FS7", "FS8", "FS9", "FS10",
            "FS11", "FT8", "FT9", "FT10", "FT11">>)
compressed_gpr == Enum(8, SubSeq(GprNames, 9, 16))
riscv_reg_ex_zero_sp_t == [RA |-> 1] @@ Enum(3, SubSeq(GprNames, 4, 32))
riscv_reg_ex_zero_t == Enum(1, SubSeq(GprNames, 2, 32))
jalr_riscv_reg_t == Enum(0, <<"RA", "T1">>)

hazard_e == Enum(0, <<"NO_HAZARD", "RAW_HAZARD", "WAR_HAZARD", "WAW_HAZARD">>)
branch_hazard_e == Enum(0, <<"NO_HAZARD", "RAW_HAZARD">>)
store_lsu_hazard_e == Enum(0, <<"NO_HAZARD", "WAR_HAZARD", "WAW_HAZARD">>)
operand_sign_e == Enum(0, <<"POSITIVE", "NEGATIVE">>)
div_result_e == Enum(0, <<"DIV_NORMAL", "DIV_BY_ZERO", "DIV_OVERFLOW">>)
div_result_ex_overflow_e == Enum(0, <<"DIV_NORMAL", "DIV_BY_ZERO">>)
logical_similarity_e ==
  Enum(0, <<"IDENTICAL", "OPPOSITE", "SIMILAR", "DIFFERENT">>)
rv32i_misc_instrs == Enum(0, <<"FENCE", "FENCE_I", "EBREAK", "ECALL", "MRET">>)

(* The names that open riscv_instr_name_t; the others have larger values.   *)
riscv_instr_name_t ==
  Enum(0, <<"LUI", "AUIPC", "JAL", "JALR", "BEQ", "BNE", "BLT", "BGE", "BLTU",
            "BGEU", "LB", "LH", "LW", "LBU", "LHU", "SB", "SH", "SW">>)

-----------------------------------------------------------------------------
(* get_attr_list: the names that share a format, a category, a group and    *)
(* the kind of immediate.                                                   *)
Attr(names, format, category, group, imm_type) ==
  [names |-> names, format |-> format, category |-> category,
   group |-> group, imm_type |-> imm_type]

RV32I_Attr ==
  { Attr({"LB", "LH", "LW", "LBU", "LHU"}, "I", "LOAD", "RV32I", "IMM"),
    Attr({"SB", "SH", "SW"}, "S", "STORE", "RV32I", "IMM"),
    Attr({"SLL", "SRL", "SRA"}, "R", "SHIFT", "RV32I", "IMM"),
    Attr({"SLLI", "SRLI", "SRAI"}, "I", "SHIFT", "RV32I", "IMM"),
    Attr({"ADD", "SUB"}, "R", "ARITHMETIC", "RV32I", "IMM"),
    Attr({"ADDI", "NOP"}, "I", "ARITHMETIC", "RV32I", "IMM"),
    Attr({"LUI", "AUIPC"}, "U", "ARITHMETIC", "RV32I", "UIMM"),
    Attr({"XOR", "OR", "AND"}, "R", "LOGICAL", "RV32I", "IMM"),
    Attr({"XORI", "ORI", "ANDI"}, "I", "LOGICAL", "RV32I", "IMM"),
    Attr({"SLT", "SLTU"}, "R", "COMPARE", "RV32I", "IMM"),
    Attr({"SLTI", "SLTIU"}, "I", "COMPARE", "RV32I", "IMM"),
    Attr({"BEQ", "BNE", "BLT", "BGE", "BLTU", "BGEU"}, "B", "BRANCH", "RV32I", "IMM"),
    Attr({"JAL"}, "J", "JUMP", "RV32I", "IMM"),
    Attr({"JALR"}, "I", "JUMP", "RV32I", "IMM"),
    Attr({"FENCE", "FENCE_I"}, "I", "SYNCH", "RV32I", "IMM"),
    Attr({"SFENCE_VMA"}, "R", "SYNCH", "RV32I", "IMM"),
    Attr({"ECALL", "EBREAK", "URET", "SRET", "MRET", "DRET"}, "I", "SYSTEM", "RV32I", "IMM"),
    Attr({"WFI"}, "I", "INTERRUPT", "RV32I", "IMM"),
    Attr({"CSRRW", "CSRRS", "CSRRC"}, "R", "CSR", "RV32I", "UIMM"),
    Attr({"CSRRWI", "CSRRSI", "CSRRCI"}, "I", "CSR", "RV32I", "UIMM") }

RV32M_Attr ==
  { Attr({"MUL", "MULH", "MULHU", "MULHSU", "DIV", "DIVU", "REM", "REMU"},
         "R", "ARITHMETIC", "RV32M", "IMM") }

RV32C_Attr ==
  { Attr({"C_LW"}, "CL", "LOAD", "RV32C", "UIMM"),
    Attr({"C_SW"}, "CS", "STORE", "RV32C", "UIMM"),
    Attr({"C_LWSP"}, "CI", "LOAD", "RV32C", "UIMM"),
    Attr({"C_SWSP"}, "CSS", "STORE", "RV32C", "UIMM"),
    Attr({"C_ADDI4SPN"}, "CIW", "ARITHMETIC", "RV32C", "NZUIMM"),
    Attr({"C_ADDI", "C_ADDI16SP", "C_LUI"}, "CI", "ARITHMETIC", "RV32C", "NZIMM"),
    Attr({"C_LI", "C_NOP"}, "CI", "ARITHMETIC", "RV32C", "IMM"),
    Attr({"C_SUB"}, "CA", "ARITHMETIC", "RV32C", "IMM"),
    Attr({"C_ADD", "C_MV"}, "CR", "ARITHMETIC", "RV32C", "IMM"),
    Attr({"C_ANDI"}, "CB", "LOGICAL", "RV32C", "IMM"),
    Attr({"C_XOR", "C_OR", "C_AND"}, "CA", "LOGICAL", "RV32C", "IMM"),
    Attr({"C_BEQZ", "C_BNEZ"}, "CB", "BRANCH", "RV32C", "IMM"),
    Attr({"C_SRLI", "C_SRAI"}, "CB", "SHIFT", "RV32C", "NZUIMM"),
    Attr({"C_SLLI"}, "CI", "SHIFT", "RV32C", "NZUIMM"),
    Attr({"C_J", "C_JAL"}, "CJ", "JUMP", "RV32C", "IMM"),
    Attr({"C_JR", "C_JALR"}, "CR", "JUMP", "RV32C", "IMM"),
    Attr({"C_EBREAK"}, "CI", "SYSTEM", "RV32C", "IMM") }

RV32F_Attr ==
  { Attr({"FLW"}, "I", "LOAD", "RV32F", "IMM"),
    Attr({"FSW"}, "S", "STORE", "RV32F", "IMM"),
    Attr({"FMADD_S", "FMSUB_S", "FNMSUB_S", "FNMADD_S"}, "R4", "ARITHMETIC", "RV32F", "IMM"),
    Attr({"FADD_S", "FSUB_S", "FMUL_S", "FDIV_S", "FSGNJ_S", "FSGNJN_S", "FSGNJX_S",
          "FMIN_S", "FMAX_S", "FCLASS_S"}, "R", "ARITHMETIC", "RV32F", "IMM"),
    Attr({"FSQRT_S", "FCVT_W_S", "FCVT_WU_S", "FMV_X_W", "FCVT_S_W", "FCVT_S_WU",
          "FMV_W_X"}, "I", "ARITHMETIC", "RV32F", "IMM"),
    Attr({"FEQ_S", "FLT_S", "FLE_S"}, "R", "COMPARE", "RV32F", "IMM") }

RV32D_Attr ==
  { Attr({"FLD", "FSD"}, "I", "LOAD", "RV32D", "IMM"),
    Attr({"FMADD_D", "FMSUB_D", "FNMSUB_D", "FNMADD_D"}, "R4", "ARITHMETIC", "RV32D", "IMM"),
    Attr({"FADD_D", "FSUB_D", "FMUL_D", "FDIV_D", "FSGNJ_D", "FSGNJN_D", "FSGNJX_D",
          "FMIN_D", "FMAX_D", "FCLASS_D"}, "R", "ARITHMETIC", "RV32D", "IMM"),
    Attr({"FSQRT_D", "FCVT_S_D", "FCVT_D_S", "FCVT_W_D", "FCVT_WU_D", "FCVT_D_W",
          "FCVT_D_WU"}, "I", "ARITHMETIC", "RV32D", "IMM"),
    Attr({"FEQ_D", "FLT_D", "FLE_D"}, "R", "COMPARE", "RV32D", "IMM") }

RV64_Attr ==
  { Attr({"LWU", "LD"}, "I", "LOAD", "RV64I", "IMM"),
    Attr({"SD"}, "S", "STORE", "RV64I", "IMM"),
    Attr({"SLLW", "SRLW", "SRAW"}, "R", "SHIFT", "RV64I", "IMM"),
    Attr({"SLLIW", "SRLIW", "SRAIW"}, "I", "SHIFT", "RV64I", "IMM"),
    Attr({"ADDW", "SUBW"}, "R", "ARITHMETIC", "RV64I", "IMM"),
    Attr({"ADDIW"}, "I", "ARITHMETIC", "RV64I", "IMM"),
    Attr({"MULW", "DIVW", "DIVUW", "REMW", "REMUW"}, "R", "ARITHMETIC", "RV64M", "IMM"),
    Attr({"C_ADDIW"}, "CI", "ARITHMETIC", "RV64C", "IMM"),
    Attr({"C_SUBW", "C_ADDW"}, "CA", "ARITHMETIC", "RV64C", "IMM"),
    Attr({"C_LD"}, "CL", "LOAD", "RV64C", "UIMM"),
    Attr({"C_SD"}, "CS", "STORE", "RV64C", "UIMM"),
    Attr({"C_LDSP"}, "CI", "LOAD", "RV64C", "UIMM"),
    Attr({"C_SDSP"}, "CSS", "STORE", "RV64C", "UIMM") }

AttrTable == RV32I_Attr \cup RV32M_Attr \cup RV32C_Attr \cup RV32F_Attr
               \cup RV32D_Attr \cup RV64_Attr
NamesWithAttr == UNION {a.names : a \in AttrTable}
get_attr_list(name) == CHOOSE a \in AttrTable : name \in a.names
=============================================================================
