------------------------------ MODULE RiscvIsa ------------------------------
(* What the core promises: a machine that executes the program one whole    *)
(* instruction at a time (the instruction, CSR and trap tables of           *)
(* specs/core_specs.md). It has no pipeline, and its definitions share only *)
(* the word arithmetic of RiscvPkg with the model of the core. Memory is an *)
(* array of bytes; a CSR is a word in a function on CSR names.              *)
EXTENDS RiscvIsaOps

CONSTANTS Reg, RESET_PC, ImemWords, MemInit, IrqInputs,
          NumExtInterrupts, TRAP_ACCESS_FAULTS, DMEM_BASE, DMEM_LIMIT

VARIABLES pc, regs, mem, csr, imem
vars == <<pc, regs, mem, csr, imem>>

ArchCsrs == {"mstatus", "mie", "mtvec", "mscratch", "mepc", "mcause",
             "mtval", "meimask"}

Init ==
  /\ pc = RESET_PC
  /\ regs = [r \in Reg |-> 0]
  /\ mem = MemInit
  /\ csr = [c \in ArchCsrs |-> 0]

-----------------------------------------------------------------------------
Instr == imem[(pc \div 4) % ImemWords]
Rs1   == IF Instr.rs1 = 0 THEN 0 ELSE regs[Instr.rs1]
Rs2   == IF Instr.rs2 = 0 THEN 0 ELSE regs[Instr.rs2]

WriteRd(v) ==
  regs' = IF Instr.rd = 0 THEN regs ELSE [regs EXCEPT ![Instr.rd] = Wrap(v)]
NextPc == pc' = Wrap(pc + 4)
Jump(target) == pc' = Wrap(target)

Address     == Wrap(Rs1 + Instr.imm)
Misaligned  == Address % AccessBytes(Instr.funct3) # 0
OutOfRange  == TRAP_ACCESS_FAULTS /\ (Address < DMEM_BASE
                                        \/ Address >= DMEM_LIMIT)

-----------------------------------------------------------------------------
(* CSRs: which bits of each register can be written.                        *)
Legal(name, v) ==
  CASE name = "mstatus" -> Bit(v, 3) * 2^3 + Bit(v, 7) * 2^7
                             + Bit(v, 11) * 2^11 + Bit(v, 12) * 2^12
    [] name = "mie"     -> Bit(v, 11) * 2^11
    [] name = "mepc"    -> v - (v % 4)
    [] name = "meimask" -> v % 2^NumExtInterrupts
    [] OTHER            -> v

MIE  == Bit(csr["mstatus"], 3)
MPIE == Bit(csr["mstatus"], 7)

Trap(cause, tval) ==
  /\ csr' = [csr EXCEPT !["mepc"] = pc, !["mcause"] = cause,
                        !["mtval"] = tval,
                        !["mstatus"] = MIE * 2^7 + 3 * 2^11]
  /\ Jump(csr["mtvec"] - (csr["mtvec"] % 4))
  /\ UNCHANGED <<regs, mem, imem>>

(* What a read of a CSR may return: MIP and MEIPEND follow the lines.       *)
CsrValues(name) ==
  CASE name \in ArchCsrs -> {csr[name]}
    [] name = "meipend"  -> IrqInputs \cup {0}
    [] name = "mip"      -> {0, 2^11}
    [] OTHER             -> {0}

-----------------------------------------------------------------------------
(* One instruction each.                                                    *)
Upper ==
  /\ Instr.opcode \in {"LUI", "AUIPC"}
  /\ WriteRd(IF Instr.opcode = "LUI" THEN Instr.imm ELSE pc + Instr.imm)
  /\ NextPc /\ UNCHANGED <<mem, csr, imem>>

JumpAndLink ==
  /\ Instr.opcode \in {"JAL", "JALR"}
  /\ Jump(IF Instr.opcode = "JAL" THEN pc + Instr.imm
          ELSE LET t == Wrap(Rs1 + Instr.imm) IN t - (t % 2))
  /\ WriteRd(pc + 4) /\ UNCHANGED <<mem, csr, imem>>

Branch ==
  /\ Instr.opcode = "BRANCH"
  /\ IF Taken(Instr.funct3, Rs1, Rs2) THEN Jump(pc + Instr.imm) ELSE NextPc
  /\ UNCHANGED <<regs, mem, csr, imem>>

Arithmetic ==
  /\ \/ /\ Instr.opcode = "OP_IMM"
        /\ WriteRd(IntegerOp(Instr.funct3,
                             Instr.funct3 = 5 /\ Instr.funct7 = 32,
                             Rs1, Instr.imm))
     \/ /\ Instr.opcode = "OP" /\ Instr.funct7 # 1
        /\ WriteRd(IntegerOp(Instr.funct3, Instr.funct7 = 32, Rs1, Rs2))
     \/ /\ Instr.opcode = "OP" /\ Instr.funct7 = 1
        /\ WriteRd(MulDivOp(Instr.funct3, Rs1, Rs2))
  /\ NextPc /\ UNCHANGED <<mem, csr, imem>>

Load ==
  /\ Instr.opcode = "LOAD" /\ ~Misaligned /\ ~OutOfRange
  /\ WriteRd(LoadedValue(mem, Instr.funct3, Address)) /\ NextPc /\ UNCHANGED <<mem, csr, imem>>

Store ==
  /\ Instr.opcode = "STORE" /\ ~Misaligned /\ ~OutOfRange
  /\ mem' = StoredMemory(mem, Instr.funct3, Address, Rs2)
  /\ NextPc /\ UNCHANGED <<regs, csr, imem>>

MemoryTrap ==
  LET load == Instr.opcode = "LOAD" IN
  /\ Instr.opcode \in {"LOAD", "STORE"}
  /\ \/ Misaligned /\ Trap(IF load THEN 4 ELSE 6, Address)
     \/ ~Misaligned /\ OutOfRange /\ Trap(IF load THEN 5 ELSE 7, Address)

SystemCall ==
  /\ Instr.opcode = "SYSTEM" /\ Instr.funct3 = 0
  /\ \/ Instr.sys = "ecall"  /\ Trap(11, 0)
     \/ Instr.sys = "ebreak" /\ Trap(3, pc)

Mret ==
  /\ Instr.opcode = "SYSTEM" /\ Instr.funct3 = 0 /\ Instr.sys = "mret"
  /\ csr' = [csr EXCEPT !["mstatus"] = MPIE * 2^3]
  /\ Jump(csr["mepc"]) /\ UNCHANGED <<regs, mem, imem>>

CsrInstr ==
  LET src    == IF Instr.funct3 < 4 THEN Rs1 ELSE Instr.rs1
      writes == Instr.funct3 % 4 = 1 \/ Instr.rs1 # 0
      new(old) == OfBits([i \in 0 .. XLEN - 1 |->
                    CASE Instr.funct3 % 4 = 1 -> Bit(src, i)
                      [] Instr.funct3 % 4 = 2 ->
                           IF Bit(old, i) + Bit(src, i) > 0 THEN 1 ELSE 0
                      [] Instr.funct3 % 4 = 3 ->
                           IF Bit(src, i) = 1 THEN 0 ELSE Bit(old, i)])
  IN
  /\ Instr.opcode = "SYSTEM" /\ Instr.funct3 % 4 # 0
  /\ \E old \in CsrValues(Instr.sys) :
       /\ WriteRd(old)
       /\ csr' = IF writes /\ Instr.sys \in ArchCsrs
                   THEN [csr EXCEPT ![Instr.sys] = Legal(Instr.sys, new(old))]
                   ELSE csr
  /\ NextPc /\ UNCHANGED <<mem, imem>>

(* Fences and unimplemented encodings do nothing. *)
NoOperation ==
  /\ \/ Instr.opcode \in {"MISC_MEM", "NONE"}
     \/ /\ Instr.opcode = "SYSTEM" /\ Instr.funct3 % 4 = 0
        /\ ~(Instr.funct3 = 0 /\ Instr.sys \in {"ecall", "ebreak", "mret"})
  /\ NextPc /\ UNCHANGED <<regs, mem, csr, imem>>

(* An interrupt is taken between instructions, when enabled and unmasked.   *)
TakeInterrupt ==
  /\ MIE = 1
  /\ \E lines \in IrqInputs : BitAnd(csr["meimask"], lines) # 0
  /\ Trap(2^(XLEN - 1) + 11, 0)

Next ==
  \/ Upper \/ JumpAndLink \/ Branch \/ Arithmetic \/ Load \/ Store
  \/ MemoryTrap \/ SystemCall \/ Mret \/ CsrInstr \/ NoOperation
  \/ TakeInterrupt

Spec == Init /\ [][Next]_vars
=============================================================================
