--------------------------- MODULE MCEnvironment ----------------------------
(* Instances of the programs around the core.                               *)
EXTENDS Environment

(* Both applications, and an IMEM that may read back wrong; five polls are  *)
(* enough for the core to be done before the last one, and few enough for   *)
(* it not to be.                                                            *)
MCApps == {"gcc", "selftest"}

(* A program with a loop run three times, a subroutine and an ECALL, and    *)
(* one deviation of the core anywhere in it.                                *)
At(p, v) == [pc |-> p, rd |-> v]
SpikeLog ==
  <<At(0, <<1>>), At(4, <<1>>), At(8, <<>>), At(4, <<2>>), At(8, <<>>),
    At(4, <<3>>), At(8, <<>>), At(12, <<5>>), At(20, <<4>>), At(24, <<>>),
    At(16, <<>>), At(28, <<>>), At(40, <<6>>)>>
MCFaults ==
  {[kind |-> "none", at |-> 0]} \cup
  [kind : {"data", "jump", "lost", "wait"}, at : 2 .. Len(SpikeLog) - 2]

(* Programs of three instructions on two registers, among them writes of    *)
(* the value the register has, and every deviation of the core in them.     *)
Executed(k, r, v) == [kind |-> k, rd |-> r, val |-> v]
MCPrograms ==
  [1 .. 3 -> {Executed("write", "a", 0), Executed("write", "a", 1),
              Executed("write", "b", 1), Executed("write", "zero", 1),
              Executed("store", "zero", 0), Executed("illegal", "zero", 0)}]
MCDeviations ==
  [kind : {"none", "handler"}, at : {0}]
    \cup [kind : {"data", "lost", "extra", "cut"}, at : 1 .. 3]

(* The traces: of programs, given as the instructions they may execute,     *)
(* over a few registers and values of four bits.                            *)
MinValue == 2^(XLEN - 1)
Instr(name, rd, rs1, rs2, imm, val) ==
  [name |-> name, rd |-> rd, rs1 |-> rs1, rs2 |-> rs2, rs3 |-> "", imm |-> imm,
   val |-> val, form |-> "plain"]
In(form, m) == [m EXCEPT !.form = form]
Alu ==
  {Instr("ADD", "T0", "RA", "T0", 0, v) : v \in {1, MinValue, 2^XLEN - 1}}
    \cup {Instr("ADDI", "RA", "T0", "", k, 1) : k \in {-1, 1}}
    \cup {Instr("DIV", "T0", "RA", "T0", 0, 0), Instr("XOR", "RA", "T0", "RA", 0, 0)}
Memory ==
  {Instr("LW", "T0", r, "", 1, 0) : r \in {"ZERO", "RA"}}
    \cup {Instr("SW", "", r, "T0", 1, 0) : r \in {"ZERO", "RA"}}
    \cup {Instr("SW", "", "ZERO", "T0", 2, 0)}
    \cup {Instr("C_LW", "RA", "T0", "", 0, 8), Instr("C_SW", "", "T0", "RA", 0, 0)}
Branches == {Instr(n, "", "RA", "T0", 2, 0) : n \in {"BEQ", "BGEU"}}
Others ==
  {Instr("LUI", "RA", "", "", 1, 8), Instr("CSRRW", "T0", "RA", "", 0, 0),
   Instr("JAL", "RA", "", "", -2, 0), Instr("ECALL", "", "", "", 0, 0),
   Instr("C_ADDI", "RA", "", "", 1, 1), Instr("C_MV", "T0", "", "RA", 0, 8),
   Instr("C_JR", "", "RA", "", 0, 0), Instr("C_J", "", "", "", 2, 0)}
Unread ==
  {Instr("li", "RA", "", "", 0, 8), Instr("JALR", "RA", "T0", "", 0, 0),
   Instr("unknown", "", "", "", 0, 0), In("illegal", Instr("unknown", "", "", "", 0, 0)),
   In("malformed", Instr("ADDI", "RA", "T0", "", 1, 1)), Instr("FADD_D", "", "", "", 0, 0),
   Instr("FCVT_L_S", "", "", "", 0, 0)}
(* A program whose values come to the corners of the division.              *)
Divides ==
  {Instr("ADDI", r, "ZERO", "", 0, v) : r \in {"RA", "T0"}, v \in {0, 1, 8, 15}}
    \cup {Instr(n, "T0", "RA", "T0", 0, 0) : n \in {"DIV", "REMU", "BLTU", "BGEU"}}
Fused(c) == [Instr("FMADD_S", "FT0", "FT1", "FT0", 0, c) EXCEPT !.rs3 = "FT1"]
Float ==
  {Fused(c) : c \in {"inf", "-normal"}}
    \cup {Instr("FMV_W_X", "FT1", "RA", "", 0, c) : c \in {"nan", "normal"}}
    \cup {Instr("FCVT_W_S", "RA", "FT0", "", 0, v) : v \in {1, 8}}
    \cup {Instr("FSQRT_S", "FT0", "FT1", "", 0, "zero"),
          Instr("FADD_S", "FT1", "FT1", "FT0", 0, "largest"),
          Instr("FLW", "FT0", "RA", "", 0, "zero"), Instr("ADDI", "RA", "RA", "", 1, 1)}
Trace(instrs, f, r, order) == [instrs |-> instrs, files |-> f, rows |-> r, order |-> order]
MCRegs == {"ZERO", "RA", "T0", "SP", "FT0", "FT1"}
MCTraces ==
  {Trace(Alu \cup Memory \cup Branches \cup Others \cup Unread, 2, 2, "imm_base"),
   Trace(Memory \cup {Instr("ADDI", "RA", "T0", "", k, 1) : k \in {-1, 1}}, 2, 3, "imm_base"),
   Trace(Alu \cup Memory, 1, 2, "base_imm"),
   Trace(Divides, 1, 3, "imm_base"), Trace(Float, 1, 3, "imm_base")}
=============================================================================
