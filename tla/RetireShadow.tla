---------------------------- MODULE RetireShadow ----------------------------
(* The retirement trace of the UVM bench: the shadow pipeline cpu_top.sv    *)
(* keeps beside the core, and the flow monitor that samples it. The core    *)
(* runs with both memories always ready, as cpu_top ties them.              *)
EXTENDS RiscvCore

VARIABLES
  id_ex_instr, ex_mem_instr, mem_wb_instr,  \* instruction bits by stage
  ex_mem_v, mem_wb_v,                       \* the bench's own valid bits
  prev_pc,                                  \* of cpu_flow_monitor
  flow_stopped                              \* it saw an ECALL retire

shadowVars == <<id_ex_instr, ex_mem_instr, mem_wb_instr, ex_mem_v, mem_wb_v>>
monitorVars == <<prev_pc, flow_stopped>>
allVars == <<vars, shadowVars, monitorVars>>

(* The NOP put in the slot of a flush: addi x0, x0, 0. *)
FlushNop == [Nop EXCEPT !.opcode = "OP_IMM"]

retired_pc    == Wrap(mem_wb.pc4 - 4)
retired_instr == mem_wb_instr
retired_valid == mem_wb_v
reg_write_o   == mem_wb.valid /\ mem_wb.op.reg_write

ShadowInit ==
  /\ Init
  /\ id_ex_instr = Nop /\ ex_mem_instr = Nop /\ mem_wb_instr = Nop
  /\ ex_mem_v = FALSE /\ mem_wb_v = FALSE
  /\ prev_pc = RESET_PC /\ flow_stopped = FALSE

(* Mutants of ShadowClock: the instruction skips a stage; the instruction   *)
(* that redirects is not reported; nor is the one that traps.               *)
ShadowClock_SkipsStage ==
  LET stall == load_hazard \/ load_use_hold_q \/ m_stall
  IN  /\ id_ex_instr' = IF ex_redirect(FALSE) \/ load_hazard THEN FlushNop
                        ELSE IF ~stall THEN if_id.instr ELSE id_ex_instr
      /\ ex_mem_instr' = id_ex_instr /\ ex_mem_v' = id_ex.valid
      /\ mem_wb_instr' = id_ex_instr /\ mem_wb_v' = ex_mem_v
ShadowClock_DropsRedirect ==
  LET stall == load_hazard \/ load_use_hold_q \/ m_stall
  IN  /\ id_ex_instr' = IF ex_redirect(FALSE) \/ load_hazard THEN FlushNop
                        ELSE IF ~stall THEN if_id.instr ELSE id_ex_instr
      /\ ex_mem_instr' = id_ex_instr
      /\ ex_mem_v' = (id_ex.valid /\ ~ex_redirect(FALSE))
      /\ mem_wb_instr' = ex_mem_instr /\ mem_wb_v' = ex_mem_v
ShadowClock_DropsTrap ==
  LET stall == load_hazard \/ load_use_hold_q \/ m_stall
  IN  /\ id_ex_instr' = IF ex_redirect(FALSE) \/ load_hazard THEN FlushNop
                        ELSE IF ~stall THEN if_id.instr ELSE id_ex_instr
      /\ ex_mem_instr' = id_ex_instr
      /\ ex_mem_v' = (id_ex.valid /\ ~ex_is_trap(FALSE))
      /\ mem_wb_instr' = ex_mem_instr /\ mem_wb_v' = ex_mem_v

ShadowClock ==
  LET stall == load_hazard \/ load_use_hold_q \/ m_stall
  IN  /\ id_ex_instr' = IF ex_redirect(FALSE) \/ load_hazard THEN FlushNop
                        ELSE IF ~stall THEN if_id.instr ELSE id_ex_instr
      /\ ex_mem_instr' = id_ex_instr /\ ex_mem_v' = id_ex.valid
      /\ mem_wb_instr' = ex_mem_instr /\ mem_wb_v' = ex_mem_v

(* The monitor samples before the edge and stops for good at an ECALL.      *)
FlowMonitor ==
  IF retired_valid /\ ~flow_stopped
    THEN IF retired_instr.sys = "ecall"
           THEN flow_stopped' = TRUE /\ UNCHANGED prev_pc
           ELSE prev_pc' = retired_pc /\ UNCHANGED flow_stopped
    ELSE UNCHANGED monitorVars

ShadowNext ==
  \E imem_ready \in ImemReady, dmem_ready \in DmemReady,
     global_interrupts \in IrqInputs :
    /\ Clock(imem_ready, dmem_ready, global_interrupts)
    /\ IF mem_stall(dmem_ready)
         THEN mem_wb_v' = FALSE /\ UNCHANGED <<id_ex_instr, ex_mem_instr,
                                               mem_wb_instr, ex_mem_v>>
         ELSE ShadowClock
    /\ FlowMonitor

ShadowSpec == ShadowInit /\ [][ShadowNext]_allVars

-----------------------------------------------------------------------------
Fetched(pc) == imem[(pc \div 4) % ImemWords]

(* What is reported as retired is the instruction at the reported address:  *)
(* the monitor's fallback for addresses outside the memory image is sound.  *)
ReportedInstr == retired_valid => retired_instr = Fetched(retired_pc)

(* The monitor looks at the register write only in a cycle that reports a   *)
(* retirement: no write of the core happens without one.                    *)
WritesReported == reg_write_o => retired_valid
ReportsExact == ReportedInstr /\ WritesReported

(* Where an instruction may continue. *)
Successors(pc) ==
  LET i == Fetched(pc)
      there == Wrap(pc + i.imm)
  IN  CASE i.opcode = "BRANCH" -> {Wrap(pc + 4), there}
        [] i.opcode = "JAL" -> {there}
        [] i.sys = "ebreak" -> {csr.mtvec}
        [] i.sys = "mret" -> {csr.mepc}
        [] OTHER -> {Wrap(pc + 4)}

(* The flow the monitor sends to the scoreboard, with its repeats dropped,  *)
(* is a path of the program: no instruction is lost, invented or reported   *)
(* out of order, whether it redirects, traps, returns or waits in EX.       *)
FlowIsPath ==
  [][prev_pc' # prev_pc => prev_pc' \in Successors(prev_pc)]_allVars
=============================================================================
