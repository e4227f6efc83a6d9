---------------------------- MODULE MCRiscvCore -----------------------------
(* Instances of the core for TLC: programs of a few instructions over small *)
(* alphabets, each alphabet aimed at one kind of hazard.                    *)
EXTENDS RiscvCoreIsa

Encode(opcode, funct3, funct7, rd, rs1, rs2, imm) ==
  [opcode |-> opcode, funct3 |-> funct3, funct7 |-> funct7, rd |-> rd,
   rs1 |-> rs1, rs2 |-> rs2, imm |-> Wrap(imm), sys |-> "none"]

ADDI(rd, rs1, imm) == Encode("OP_IMM", 0, 0, rd, rs1, 0, imm)
ADD(rd, rs1, rs2)  == Encode("OP", 0, 0, rd, rs1, rs2, 0)
SUB(rd, rs1, rs2)  == Encode("OP", 0, 32, rd, rs1, rs2, 0)
MUL(rd, rs1, rs2)  == Encode("OP", 0, 1, rd, rs1, rs2, 0)
DIVU(rd, rs1, rs2) == Encode("OP", 5, 1, rd, rs1, rs2, 0)
REM(rd, rs1, rs2)  == Encode("OP", 6, 1, rd, rs1, rs2, 0)
LW(rd, rs1, imm)   == Encode("LOAD", 2, 0, rd, rs1, 0, imm)
LB(rd, rs1, imm)   == Encode("LOAD", 0, 0, rd, rs1, 0, imm)
LHU(rd, rs1, imm)  == Encode("LOAD", 5, 0, rd, rs1, 0, imm)
SW(rs2, rs1, imm)  == Encode("STORE", 2, 0, 0, rs1, rs2, imm)
SB(rs2, rs1, imm)  == Encode("STORE", 0, 0, 0, rs1, rs2, imm)
SH(rs2, rs1, imm)  == Encode("STORE", 1, 0, 0, rs1, rs2, imm)
BEQ(rs1, rs2, imm) == Encode("BRANCH", 0, 0, 0, rs1, rs2, imm)
BLT(rs1, rs2, imm) == Encode("BRANCH", 4, 0, 0, rs1, rs2, imm)
JAL(rd, imm)       == Encode("JAL", 0, 0, rd, 0, 0, imm)
JALR(rd, rs1, imm) == Encode("JALR", 0, 0, rd, rs1, 0, imm)
AUIPC(rd, imm)     == Encode("AUIPC", 0, 0, rd, 0, 0, imm)
System(sys)        == [Encode("SYSTEM", 0, 0, 0, 0, 0, 0) EXCEPT !.sys = sys]
Csr(funct3, rd, name, rs1) ==
  [Encode("SYSTEM", funct3, 0, rd, rs1, 0, 0) EXCEPT !.sys = name]
CSRRW(rd, name, rs1)   == Csr(1, rd, name, rs1)
CSRRS(rd, name, rs1)   == Csr(2, rd, name, rs1)
CSRRC(rd, name, rs1)   == Csr(3, rd, name, rs1)
CSRRWI(rd, name, zimm) == Csr(5, rd, name, zimm)
CSRRSI(rd, name, zimm) == Csr(6, rd, name, zimm)

(* A program of n instructions followed by jumps to self, as the programs   *)
(* built by GCC/ end: a skip over the last one still halts.                 *)
HaltAfter(n, p) ==
  [i \in 0 .. ImemWords - 1 |-> IF i < n THEN p[i] ELSE JAL(0, 0)]
ProgramsOver(alphabet, n) ==
  {HaltAfter(n, p) : p \in [0 .. n - 1 -> alphabet]}

-----------------------------------------------------------------------------
MCReg == 0 .. 2
TwoWords == [i \in 0 .. 1 |-> 5 - 2 * i]           \* 5 and 3
(* -28, whose four lanes are 0, 1, 2, 3, and 8, a jump target.               *)
DataWords == [i \in 0 .. 1 |-> 228 - 220 * i]

(* Register and memory dependences at every distance.                       *)
DataAlphabet ==
  {ADDI(1, 0, 4), ADD(1, 1, 2), SUB(2, 0, 1), LW(1, 0, 0), LW(2, 1, 0),
   SW(1, 0, 0), ADD(0, 1, 1)}

(* Redirects: taken and untaken branches, jumps, a jump through a register  *)
(* computed just before, a store and a load that make fetch run ahead.      *)
ControlAlphabet ==
  {ADDI(1, 0, 12), BEQ(1, 2, 8), BLT(2, 1, 8), JAL(2, 8), JALR(1, 1, 0),
   AUIPC(1, 8), LW(1, 0, 4)}

(* Multicycle operations next to the instructions that feed and use them.   *)
MulDivAlphabet ==
  {LW(1, 0, 0), LW(2, 0, 4), MUL(1, 1, 2), DIVU(2, 1, 2), REM(1, 2, 1),
   SW(1, 0, 4), BEQ(1, 2, 8)}

(* Sub-word accesses, aligned and not.                                      *)
LaneAlphabet ==
  {LW(1, 0, 0), LB(2, 0, 3), LHU(2, 0, 2), LHU(1, 0, 5), SB(1, 0, 1),
   SH(1, 0, 6), SW(2, 0, 2), ADDI(2, 1, 255)}

UserPrograms ==
  ProgramsOver(DataAlphabet, 4) \cup ProgramsOver(ControlAlphabet, 3)
    \cup ProgramsOver(MulDivAlphabet, 3) \cup ProgramsOver(LaneAlphabet, 3)

-----------------------------------------------------------------------------
(* Traps. The prologue sets the trap vector, unmasks interrupt 0 and enables*)
(* interrupts; the two instructions of the body vary; the handler at slot 6 *)
(* reads a trap CSR, computes with the result and returns. Data memory      *)
(* starts at 4: an access to 0 is a fault.                                  *)
TrapProgram(x, y, h) ==
  [i \in 0 .. 7 |->
     <<CSRRWI(0, "mtvec", 24), CSRRWI(0, "meimask", 1),
       CSRRSI(0, "mstatus", 8), x, y, JAL(0, 0), h, System("mret")>>[i + 1]]
TrapBody ==
  {System("ecall"), System("ebreak"), LW(1, 0, 2), SW(1, 0, 1), LW(1, 0, 4),
   SW(1, 0, 4), LW(1, 0, 0), SW(1, 0, 8), ADDI(1, 2, 1), MUL(2, 2, 1),
   BEQ(1, 2, -4), JAL(1, 4)}
TrapHandler ==
  {CSRRS(2, "mcause", 0), CSRRS(1, "mepc", 0), CSRRW(2, "mscratch", 2),
   CSRRS(1, "mtval", 0)}

(* A body that reads and writes CSRs, interrupts left disabled.             *)
CsrAlphabet ==
  {CSRRW(1, "mscratch", 2), CSRRS(2, "mscratch", 1), CSRRC(1, "mscratch", 2),
   CSRRWI(2, "mepc", 22), CSRRS(1, "mstatus", 2), CSRRS(2, "mip", 0),
   CSRRW(1, "meipend", 1), CSRRW(1, "time", 2), ADDI(1, 2, 9), SW(1, 0, 4),
   LW(2, 0, 4), System("ecall"), System("mret")}
CsrProgram(x, y, z) ==
  HaltAfter(4, [i \in 0 .. 3 |-> <<CSRRWI(0, "mtvec", 16), x, y, z>>[i + 1]])

MachinePrograms ==
  {TrapProgram(x, y, h) : x \in TrapBody, y \in TrapBody, h \in TrapHandler}
    \cup {CsrProgram(x, y, z) : x \in CsrAlphabet, y \in CsrAlphabet, z \in CsrAlphabet}

(* A CSR instruction that an interrupt may hit.                             *)
CsrInterruptPrograms ==
  {TrapProgram(ADDI(2, 0, 1), CSRRS(1, "mscratch", 2), CSRRS(1, "mcause", 0))}

-----------------------------------------------------------------------------
(* Every kind of stall and redirect, with interrupts and resets at any time. *)
PipelinePrograms ==
  {TrapProgram(x, y, CSRRS(2, "mepc", 0)) :
     x \in {LW(1, 0, 4), MUL(1, 2, 1), System("ecall")},
     y \in {BEQ(1, 1, -4), DIVU(1, 1, 2), SW(1, 0, 1)}}
=============================================================================
