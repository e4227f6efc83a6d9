---------------------------- MODULE MCFunctions -----------------------------
(* The pure functions of the repository against references, each over all   *)
(* its small inputs: the combinational blocks of the core, the multicycle   *)
(* units (which take clock cycles), the assembler of the self-test and the  *)
(* bins of the coverage collector. A behaviour is one call of one of them.  *)
EXTENDS RiscvPkg

VARIABLES
  part,                           \* whose call
  opcode, funct3, funct7, a, b,   \* RiscvOps
  mul, div, ex,                   \* RiscvMulDivUnit
  form, imm, r1, r2,              \* SelfTestAsm
  half                            \* CoverEncodings

others == <<part, opcode, funct3, funct7, a, b, form, imm, r1, r2, half>>
vars   == <<others, mul, div, ex>>

(* Immediates with one or two bits set, with a run of ones from the top     *)
(* (negative), and the ends of the range: each bit is placed on its own.    *)
Patterns(n) ==      \* signed values of n bits
  LET pairs == {2^i + 2^j : i \in 0 .. n - 2, j \in 0 .. n - 2} \cup {2^i : i \in 0 .. n - 2}
      small == {v \in pairs \cup {0, 2^(n - 1) - 1} : v < 2^(n - 1)}
  IN small \cup {v - 2^(n - 1) : v \in small}

Ops  == INSTANCE RiscvOps WITH
  Opcodes <- {"OP", "OP_IMM", "BRANCH", "LOAD", "STORE"}, Operands <- Word
Unit == INSTANCE RiscvMulDivUnit WITH MemStall <- BOOLEAN
Asm  == INSTANCE SelfTestAsm WITH
  Registers <- {0, 10, 31}, LiBits <- 14, LiLow <- 6,
  Imm12 <- Patterns(12), Imm13 <- {v \in Patterns(13) : v % 2 = 0},
  Imm20 <- {v \in Patterns(21) : v >= 0}, Imm21 <- {v \in Patterns(21) : v % 2 = 0}
Enc  == INSTANCE CoverEncodings WITH XLEN <- 4

Init ==
  /\ part \in {"ops", "unit", "asm", "encodings"}
  /\ IF part = "ops" THEN Ops!Init
     ELSE opcode = "OP" /\ funct3 = 0 /\ funct7 = 0 /\ a = 0 /\ b = 0
  /\ IF part = "unit" THEN Unit!Init
     ELSE mul = Unit!MulIdle /\ div = Unit!DivIdle /\ ex = Unit!NoInstr
  /\ IF part = "asm" THEN Asm!Init ELSE form = "r" /\ imm = 0 /\ r1 = 0 /\ r2 = 0
  /\ IF part = "encodings" THEN Enc!Init ELSE half = [k \in 1 .. 4 |-> 0]

UnitStep(A) == part = "unit" /\ A /\ UNCHANGED others
Next == UnitStep(Unit!Next) \/ (part # "unit" /\ UNCHANGED vars)

Spec == Init /\ [][Next]_vars

(* Memory does not stall for ever (RiscvMulDivUnit, FairSpec).              *)
FairSpec ==
  /\ Spec
  /\ WF_vars(UnitStep(Unit!Wait(FALSE))) /\ WF_vars(UnitStep(Unit!Leave))

-----------------------------------------------------------------------------
(* Decoder and ALU compute the integer instructions, decoder and comparator *)
(* decide the branches (riscv_alu.sv); loads and stores pick, extend and    *)
(* place their bytes (riscv_lsu.sv).                                        *)
DatapathImplements ==
  part = "ops" => /\ Ops!AluImplements /\ Ops!BranchImplements
                  /\ Ops!LoadImplements /\ Ops!StoreImplements

(* The multicycle units deliver the RV32M result, keeping the division's    *)
(* invariant on the way, and always come to an end (riscv_core.sv).         *)
UnitResult == part = "unit" => Unit!DivisionInvariant /\ Unit!UnitResult
Completes  == Unit!Completes

(* The assembler of the self-test and the decoder of the core agree; li     *)
(* builds its constant (FW/simple_test.c).                                  *)
AssemblyDecodes == part = "asm" => Asm!EncodingsDecode /\ Asm!LiBuildsConstant

(* Hint and illegal bins hold the encodings they name, and no other         *)
(* (riscv_instr_cover_group.py).                                            *)
BinsExact == part = "encodings" => Enc!HintBinsExact /\ Enc!IllegalBinsExact
=============================================================================
