---------------------------- MODULE RiscvCoreIsa ----------------------------
(* The pipeline implements the instruction set: the architectural state     *)
(* that the registers of the pipeline stand for, and the abstract machine   *)
(* of RiscvIsa read over it.                                                *)
EXTENDS RiscvCoreSafety

(* The oldest instruction that has not left EX is the next one to execute:  *)
(* in EX, else in ID, else the one fetch will deliver.                      *)
ArchPc ==
  IF id_ex.valid THEN id_ex.pc
  ELSE IF if_id.valid THEN if_id.pc
  ELSE pc_f

Overlay(file, stage, value) ==
  IF stage.valid /\ stage.op.reg_write /\ stage.op.rd # 0
    THEN [file EXCEPT ![stage.op.rd] = value]
    ELSE file

(* Results on their way to the register file count as written. *)
ExMemResult ==
  IF ex_mem.op.wb_sel = "LOAD" THEN mem_load_data ELSE ex_mem_forward_data
ArchRegs == Overlay(Overlay(regs, mem_wb, wb_data), ex_mem, ExMemResult)

(* So does a store waiting in MEM. *)
ArchMem ==
  [m \in 0 .. 4 * DmemWords - 1 |-> Lane(DmemAfterWrite[m \div 4], m % 4)]

ArchCsr ==
  [c \in CsrNames \ {"mip", "meipend"} |-> CsrRead(csr, c)]

Machine ==
  INSTANCE RiscvIsa WITH
    pc <- ArchPc, regs <- ArchRegs, mem <- ArchMem, csr <- ArchCsr,
    MemInit <- [m \in 0 .. 4 * DmemWords - 1 |->
                  Lane(DmemInit[m \div 4], m % 4)]

(* The core, with any memory wait states and interrupt timing, behaves as   *)
(* the one-instruction-at-a-time machine: stalls, forwarding, flushes and   *)
(* traps never lose, repeat, reorder or corrupt an instruction.             *)
ImplementsIsa == Machine!Spec
=============================================================================
