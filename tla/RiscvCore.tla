----------------------------- MODULE RiscvCore ------------------------------
(* The five-stage RV32IM pipeline (riscv_core.sv) between an instruction    *)
(* memory and a data memory. One step of Next is one rising clock edge: the *)
(* inputs of the cycle (reset, imem_ready, dmem_ready, the interrupt lines) *)
(* are chosen and every register takes its next value. Stage registers are  *)
(* records named as in the source; op is the decoded instruction.           *)
EXTENDS RiscvAlu, RiscvDecode, RiscvLsu, RiscvHazard, RiscvCsr, RiscvMulDiv,
        Sequences

CONSTANTS
  Reg,              \* register numbers; 0 .. 31 in the RTL
  RESET_PC,         \* a byte address
  ImemWords,        \* size of the instruction memory, in instructions
  Programs,         \* the contents of the instruction memory considered
  DmemWords,        \* size of the data memory, in words
  DmemInit,         \* its initial contents
  ImemReady,        \* values imem_ready may take: {TRUE} is a memory without
  DmemReady,        \* wait states, BOOLEAN one with any number of them
  IrqInputs,        \* values of global_interrupts considered
  ResetInputs,      \* values reset may take after power-up
  TRAP_ACCESS_FAULTS, DMEM_BASE, DMEM_LIMIT

ASSUME CoreAssumption ==
  /\ 0 \in Reg /\ Reg \subseteq Nat
  /\ RESET_PC \in Word
  /\ ImemWords \in Nat \ {0} /\ DmemWords \in Nat \ {0}
  /\ Programs # {}
  /\ DmemInit \in [0 .. DmemWords - 1 -> Word]
  /\ ImemReady \subseteq BOOLEAN /\ DmemReady \subseteq BOOLEAN
  /\ IrqInputs \subseteq Word
  /\ ResetInputs \subseteq BOOLEAN
  /\ TRAP_ACCESS_FAULTS \in BOOLEAN
  /\ DMEM_BASE \in Word /\ DMEM_LIMIT \in Nat

(* The ranges of an instruction's fields; Decode takes any encoding.        *)
IsInstruction(i) ==
  /\ i.funct3 \in 0 .. 7 /\ i.funct7 \in 0 .. 127
  /\ {i.rd, i.rs1, i.rs2} \subseteq 0 .. 31 /\ i.imm \in Word

ASSUME ProgramAssumption ==
  \A program \in Programs :
    /\ DOMAIN program = 0 .. ImemWords - 1
    /\ \A n \in 0 .. ImemWords - 1 : IsInstruction(program[n])

VARIABLES
  pc_f, if_pending_valid, if_discard_pending,
  if_buf,           \* [valid, instr, pc]
  if_id,            \* [valid, instr, pc]
  id_ex,            \* [valid, pc, rs1_data, ..., forward_a, forward_b, op]
  ex_mem,           \* [valid, pc4, alu_result, store_data, csr_old, op]
  mem_wb,           \* [valid, pc4, alu_result, load_data, csr_old, op]
  load_use_hold_q,
  mul, div,         \* the RV32M units
  regs, csr,
  imem,             \* instruction memory, fixed
  imem_requests,    \* addresses of the fetch requests not yet answered
  dmem              \* data memory, words

fetchRegs == <<pc_f, if_pending_valid, if_discard_pending, if_buf>>
stageRegs == <<if_id, id_ex, ex_mem, mem_wb, load_use_hold_q>>
vars == <<fetchRegs, stageRegs, mul, div, regs, csr,
          imem, imem_requests, dmem>>

Nop == [opcode |-> "NONE", funct3 |-> 0, funct7 |-> 0,
        rd |-> 0, rs1 |-> 0, rs2 |-> 0, imm |-> 0, sys |-> "none"]

-----------------------------------------------------------------------------
(* Reset values.                                                            *)
IfIdReset  == [valid |-> FALSE, instr |-> Nop, pc |-> 0]
IdExReset  == [valid |-> FALSE, pc |-> 0, rs1_data |-> 0, rs2_data |-> 0,
               imm |-> 0, csr_old |-> 0, forward_a |-> "REG",
               forward_b |-> "REG", op |-> Decode(Nop)]
ExMemReset == [valid |-> FALSE, pc4 |-> 0, alu_result |-> 0,
               store_data |-> 0, csr_old |-> 0, op |-> Decode(Nop)]
MemWbReset == [valid |-> FALSE, pc4 |-> 0, alu_result |-> 0,
               load_data |-> 0, csr_old |-> 0, op |-> Decode(Nop)]

Init ==
  /\ pc_f = RESET_PC
  /\ if_pending_valid = FALSE /\ if_discard_pending = FALSE
  /\ if_buf = IfIdReset /\ if_id = IfIdReset
  /\ id_ex = IdExReset /\ ex_mem = ExMemReset /\ mem_wb = MemWbReset
  /\ load_use_hold_q = FALSE
  /\ mul = MulIdle /\ div = DivIdle
  /\ regs = [r \in Reg |-> 0]
  /\ csr = CsrReset
  /\ imem \in Programs
  /\ imem_requests = <<>>
  /\ dmem = DmemInit

-----------------------------------------------------------------------------
(* Memories. The instruction memory answers requests in their order, each   *)
(* after any number of cycles, and says which address it answers; a ready   *)
(* without a request means nothing. The data memory is addressed by word    *)
(* and wraps at its size.                                                   *)
imem_resp_pc == IF imem_requests = <<>> THEN pc_f ELSE Head(imem_requests)
imem_instr   == imem[(imem_resp_pc \div 4) % ImemWords]

ImemUnanswered(imem_ready) ==
  IF imem_ready /\ imem_requests # <<>> THEN Tail(imem_requests)
                                       ELSE imem_requests

dmem_addr      == ex_mem.alu_result
dmem_index     == (dmem_addr \div 4) % DmemWords
dmem_read_en   == ex_mem.valid /\ ex_mem.op.mem_read
dmem_write_en  == ex_mem.valid /\ ex_mem.op.mem_write
dmem_read_data == dmem[dmem_index]
dmem_wstrb     == IF dmem_write_en
                    THEN LsuWstrb(ex_mem.op.mem_size, dmem_addr % 4) ELSE {}
dmem_write_data ==
  LsuWriteData(ex_mem.op.mem_size, dmem_addr % 4, ex_mem.store_data)
mem_load_data ==
  LsuLoadData(ex_mem.op.mem_size, ex_mem.op.mem_unsigned, dmem_addr % 4,
              dmem_read_data)

DmemAfterWrite ==
  IF dmem_write_en
    THEN [dmem EXCEPT ![dmem_index] =
            MergeLanes(@, dmem_write_data, dmem_wstrb)]
    ELSE dmem

mem_stall(dmem_ready) == (dmem_read_en \/ dmem_write_en) /\ ~dmem_ready

-----------------------------------------------------------------------------
(* WB: write-back select, register file with write-first bypass.            *)
wb_data ==
  CASE mem_wb.op.wb_sel = "PC4"  -> mem_wb.pc4
    [] mem_wb.op.wb_sel = "LOAD" -> mem_wb.load_data
    [] mem_wb.op.wb_sel = "CSR"  -> mem_wb.csr_old
    [] OTHER -> mem_wb.alu_result

RegWe == mem_wb.valid /\ mem_wb.op.reg_write /\ mem_wb.op.rd # 0

RegsAfterWrite ==
  IF RegWe THEN [regs EXCEPT ![mem_wb.op.rd] = wb_data] ELSE regs

(* Mutant of RegRead: no write-first bypass. *)
RegRead_NoBypass(r) == IF r \notin Reg \ {0} THEN 0 ELSE regs[r]

(* Registers left out of Reg are never written: they hold their reset 0.    *)
RegRead(r) ==
  IF r \notin Reg \ {0} THEN 0
  ELSE IF RegWe /\ mem_wb.op.rd = r THEN wb_data
  ELSE regs[r]

-----------------------------------------------------------------------------
(* EX: operands, results and the multicycle units.                          *)
ex_mem_forward_data ==
  CASE ex_mem.op.wb_sel = "PC4" -> ex_mem.pc4
    [] ex_mem.op.wb_sel = "CSR" -> ex_mem.csr_old
    [] OTHER -> ex_mem.alu_result

Forwarded(sel, captured) ==
  CASE sel = "MEM" -> ex_mem_forward_data
    [] sel = "WB"  -> wb_data
    [] OTHER       -> captured

ex_forward_a_data == Forwarded(id_ex.forward_a, id_ex.rs1_data)
ex_forward_b_data == Forwarded(id_ex.forward_b, id_ex.rs2_data)
ex_alu_src_a == IF id_ex.op.src_a_pc  THEN id_ex.pc  ELSE ex_forward_a_data
ex_alu_src_b == IF id_ex.op.src_b_imm THEN id_ex.imm ELSE ex_forward_b_data

mul_is_op == id_ex.op.alu_op \in ALU_MUL_OPS
div_is_op == id_ex.op.alu_op \in ALU_DIV_OPS
mul_start(stall) == MulStart(id_ex.valid, id_ex.op.alu_op, mul, stall)
div_start(stall) == DivStartNow(id_ex.valid, id_ex.op.alu_op, div, stall)
m_stall == MStall(id_ex.valid, id_ex.op.alu_op, mul, div)

ex_alu_result ==
  IF div_is_op THEN div.result
  ELSE IF mul_is_op THEN MulResult(mul)
  ELSE AluResult(id_ex.op.alu_op, ex_alu_src_a, ex_alu_src_b)

-----------------------------------------------------------------------------
(* EX: traps, CSR writes and redirects of the instruction in EX. They take  *)
(* effect in the cycle ExFire holds. NoTrap stands for ex_is_trap = 0.      *)
(* Mutant of ex_misaligned: a half needs the alignment of a word. *)
ex_misaligned_HalfAsWord ==
  /\ id_ex.op.mem_read \/ id_ex.op.mem_write
  /\ id_ex.op.mem_size \in {1, 2}
  /\ (ex_alu_src_a + ex_alu_src_b) % 4 # 0

ex_misaligned ==
  LET addr_lo == (ex_alu_src_a + ex_alu_src_b) % 4
  IN  /\ id_ex.op.mem_read \/ id_ex.op.mem_write
      /\ \/ id_ex.op.mem_size = 1 /\ addr_lo % 2 = 1
         \/ id_ex.op.mem_size = 2 /\ addr_lo # 0

ex_access_fault ==
  /\ TRAP_ACCESS_FAULTS
  /\ ex_alu_result < DMEM_BASE \/ ex_alu_result >= DMEM_LIMIT
  /\ id_ex.op.mem_read \/ id_ex.op.mem_write
  /\ ~ex_misaligned

NoTrap == [cause |-> 0, tval |-> 0]

ex_trap ==
  IF id_ex.op.is_ecall THEN [cause |-> CAUSE_ECALL_M, tval |-> 0]
  ELSE IF id_ex.op.is_ebreak
    THEN [cause |-> CAUSE_BREAKPOINT, tval |-> id_ex.pc]
  ELSE IF ex_misaligned
    THEN [cause |-> IF id_ex.op.mem_read THEN CAUSE_LOAD_MISALIGNED
                                         ELSE CAUSE_STORE_MISALIGNED,
          tval |-> ex_alu_result]
  ELSE IF ex_access_fault
    THEN [cause |-> IF id_ex.op.mem_read THEN CAUSE_LOAD_ACCESS
                                         ELSE CAUSE_STORE_ACCESS,
          tval |-> ex_alu_result]
  ELSE IF ExternalIrqActive(csr)
    THEN [cause |-> CAUSE_MACHINE_EXTERNAL_INTERRUPT, tval |-> 0]
  ELSE NoTrap

ExFire(stall) == ~stall /\ ~m_stall /\ id_ex.valid

ex_is_trap(stall) == ExFire(stall) /\ ex_trap # NoTrap

ExBranchTaken ==
  id_ex.op.jal \/ id_ex.op.jalr
    \/ BranchCond(id_ex.op.branch_kind, ex_forward_a_data, ex_forward_b_data)

ex_redirect(stall) ==
  ExFire(stall) /\ (ex_trap # NoTrap \/ id_ex.op.is_mret \/ ExBranchTaken)

ex_redirect_target ==
  IF ex_trap # NoTrap THEN csr.mtvec - (csr.mtvec % 4)
  ELSE IF id_ex.op.is_mret THEN csr.mepc
  ELSE IF id_ex.op.jalr
    THEN LET t == Wrap(ex_forward_a_data + id_ex.imm) IN t - (t % 2)
  ELSE Wrap(id_ex.pc + id_ex.imm)

(* CSRRW/S/C take rs1's value, the I forms the rs1 field itself.            *)
ex_csr_write(stall) ==
  LET funct3 == id_ex.op.funct3
      src    == IF funct3 < 4 THEN ex_forward_a_data ELSE id_ex.op.rs1
  IN  [en   |-> /\ ExFire(stall) /\ id_ex.op.csr_read
                /\ funct3 \in {1, 5} \/ id_ex.op.rs1 # 0,
       addr |-> id_ex.op.csr_addr,
       data |-> CASE funct3 % 4 = 1 -> src
                  [] funct3 % 4 = 2 -> BitOr(id_ex.csr_old, src)
                  [] OTHER -> BitAnd(id_ex.csr_old, BitNot(src))]

-----------------------------------------------------------------------------
(* IF and pipeline control wires.                                           *)
load_hazard == LoadHazardEx(if_id.valid, Decode(if_id.instr), id_ex)
stall_if    == load_hazard \/ load_use_hold_q \/ m_stall

if_live_resp_valid(imem_ready) ==
  imem_ready /\ if_pending_valid /\ ~if_discard_pending

if_accept(imem_ready, stall) ==
  /\ ~stall /\ ~stall_if /\ ~ex_redirect(stall)
  /\ if_buf.valid \/ if_live_resp_valid(imem_ready)

(* Mutants of imem_req: a request in the cycle that takes a response; a     *)
(* request while an abandoned one is unanswered.                            *)
imem_req_WhileAccepting(imem_ready, stall) ==
  /\ ~stall /\ ~stall_if /\ ~ex_redirect(stall)
  /\ ~if_pending_valid \/ if_live_resp_valid(imem_ready)
  /\ ~if_discard_pending
imem_req_WhileDiscarding(imem_ready, stall) ==
  /\ ~stall /\ ~stall_if /\ ~ex_redirect(stall)
  /\ ~if_buf.valid /\ ~if_live_resp_valid(imem_ready) /\ ~if_pending_valid

imem_req(imem_ready, stall) ==
  /\ ~stall /\ ~stall_if /\ ~ex_redirect(stall)
  /\ ~if_buf.valid /\ ~if_live_resp_valid(imem_ready)
  /\ ~if_pending_valid /\ ~if_discard_pending

if_resp ==
  IF if_buf.valid THEN if_buf
  ELSE [valid |-> TRUE, instr |-> imem_instr, pc |-> imem_resp_pc]

-----------------------------------------------------------------------------
(* The register blocks, one per part of the clocked process.                *)
(* Mutant of FetchRedirect: the abandoned response is not awaited. *)
FetchRedirect_NoDiscard(imem_ready) ==
  /\ if_buf' = [if_buf EXCEPT !.valid = FALSE]
  /\ if_pending_valid' = FALSE
  /\ if_discard_pending' = FALSE
  /\ pc_f' = ex_redirect_target

FetchRedirect(imem_ready) ==
  /\ if_buf' = [if_buf EXCEPT !.valid = FALSE]
  /\ if_pending_valid' = FALSE
  /\ if_discard_pending' = (if_pending_valid /\ ~imem_ready)
  /\ pc_f' = ex_redirect_target

(* Mutants of FetchAdvance: the PC moves when a response comes, taken or    *)
(* not; only a live response ends the wait for an abandoned one.            *)
FetchAdvance_PcOnResponse(imem_ready, accept, request) ==
  LET live == if_live_resp_valid(imem_ready)
  IN  /\ if_buf' =
           IF accept /\ if_buf.valid THEN [if_buf EXCEPT !.valid = FALSE]
           ELSE IF live /\ ~accept
             THEN [valid |-> TRUE, instr |-> imem_instr, pc |-> imem_resp_pc]
           ELSE if_buf
      /\ if_pending_valid' = (request \/ (if_pending_valid /\ ~live))
      /\ if_discard_pending' = (if_discard_pending /\ ~imem_ready)
      /\ pc_f' = IF accept \/ live THEN Wrap(pc_f + 4) ELSE pc_f
FetchAdvance_DiscardSticks(imem_ready, accept, request) ==
  LET live == if_live_resp_valid(imem_ready)
  IN  /\ if_buf' =
           IF accept /\ if_buf.valid THEN [if_buf EXCEPT !.valid = FALSE]
           ELSE IF live /\ ~accept
             THEN [valid |-> TRUE, instr |-> imem_instr, pc |-> imem_resp_pc]
           ELSE if_buf
      /\ if_pending_valid' = (request \/ (if_pending_valid /\ ~live))
      /\ if_discard_pending' = (if_discard_pending /\ ~live)
      /\ pc_f' = IF accept THEN Wrap(pc_f + 4) ELSE pc_f

(* A response nobody can take yet goes to the one-entry buffer. *)
FetchAdvance(imem_ready, accept, request) ==
  /\ if_buf' =
       IF accept /\ if_buf.valid THEN [if_buf EXCEPT !.valid = FALSE]
       ELSE IF if_live_resp_valid(imem_ready) /\ ~accept /\ ~if_buf.valid
         THEN [valid |-> TRUE, instr |-> imem_instr, pc |-> imem_resp_pc]
       ELSE if_buf
  /\ if_pending_valid' =
       (\/ request
        \/ if_pending_valid /\ ~if_live_resp_valid(imem_ready))
  /\ if_discard_pending' = (if_discard_pending /\ ~imem_ready)
  /\ pc_f' = IF accept THEN Wrap(pc_f + 4) ELSE pc_f

IfIdNext(redirect, accept) ==
  if_id' = IF redirect THEN [if_id EXCEPT !.valid = FALSE]
           ELSE IF stall_if THEN if_id
           ELSE IF accept THEN if_resp
           ELSE [if_id EXCEPT !.valid = FALSE]

(* Data fields are captured whenever decode is not stalled; control fields  *)
(* only when, besides, the stage is not flushed.                            *)
IdExNext(redirect) ==
  LET op     == Decode(if_id.instr)
      stall_id == stall_if
      flush  == redirect \/ (load_hazard /\ ~m_stall)
      data   == IF stall_id THEN id_ex
                ELSE [id_ex EXCEPT
                        !.pc = if_id.pc, !.imm = if_id.instr.imm,
                        !.rs1_data = RegRead(op.rs1),
                        !.rs2_data = RegRead(op.rs2),
                        !.csr_old = CsrRead(csr, op.csr_addr)]
  IN  id_ex' =
        IF flush THEN [data EXCEPT !.valid = FALSE, !.forward_a = "REG",
                                   !.forward_b = "REG"]
        ELSE IF stall_id THEN data
        ELSE [data EXCEPT
                !.valid = if_id.valid,
                !.forward_a = ForwardSel(if_id.valid, op.use_rs1, op.rs1,
                                         id_ex, ex_mem),
                !.forward_b = ForwardSel(if_id.valid, op.use_rs2, op.rs2,
                                         id_ex, ex_mem),
                !.op = op]

(* Mutant of ExMemNext: the instruction that traps goes on to MEM. *)
ExMemNext_TrapRetires(is_trap) ==
  ex_mem' = [valid |-> id_ex.valid /\ ~m_stall /\ ~id_ex.op.is_mret,
             pc4 |-> Wrap(id_ex.pc + 4), alu_result |-> ex_alu_result,
             store_data |-> ex_forward_b_data, csr_old |-> id_ex.csr_old,
             op |-> id_ex.op]

ExMemNext(is_trap) ==
  ex_mem' = [valid |-> /\ id_ex.valid /\ ~m_stall /\ ~is_trap
                       /\ ~id_ex.op.is_mret,
             pc4 |-> Wrap(id_ex.pc + 4), alu_result |-> ex_alu_result,
             store_data |-> ex_forward_b_data, csr_old |-> id_ex.csr_old,
             op |-> id_ex.op]

MemWbNext ==
  mem_wb' = [valid |-> ex_mem.valid, pc4 |-> ex_mem.pc4,
             alu_result |-> ex_mem.alu_result, load_data |-> mem_load_data,
             csr_old |-> ex_mem.csr_old, op |-> ex_mem.op]

CsrClock(stall, global_interrupts) ==
  csr' = CsrNext(csr, global_interrupts, ex_csr_write(stall),
                 [en |-> ex_is_trap(stall), epc |-> id_ex.pc,
                  cause |-> ex_trap.cause, tval |-> ex_trap.tval],
                 id_ex.valid /\ ~stall /\ id_ex.op.is_mret)

(* Everything that moves at an edge whether or not memory stalls the pipe.  *)
CommonClock(imem_ready, stall, global_interrupts) ==
  /\ imem_requests' = IF imem_req(imem_ready, stall)
                        THEN Append(ImemUnanswered(imem_ready), pc_f)
                        ELSE ImemUnanswered(imem_ready)
  /\ mul' = MulNext(mul, mul_start(stall), id_ex.op.alu_op, ex_alu_src_a,
                    ex_alu_src_b, stall)
  /\ div' = DivNext(div, div_start(stall), id_ex.op.alu_op, ex_alu_src_a,
                    ex_alu_src_b, stall)
  /\ regs' = RegsAfterWrite
  /\ dmem' = DmemAfterWrite
  /\ CsrClock(stall, global_interrupts)
  /\ UNCHANGED imem

-----------------------------------------------------------------------------
(* A clock edge with the data memory making the pipeline wait: only fetch   *)
(* responses, the RV32M units and write-back go on.                         *)
ClockMemStall(imem_ready, dmem_ready, global_interrupts) ==
  /\ mem_stall(dmem_ready)
  /\ FetchAdvance(imem_ready, FALSE, FALSE)
  /\ mem_wb' = [mem_wb EXCEPT !.valid = FALSE]
  /\ UNCHANGED <<load_use_hold_q, if_id, id_ex, ex_mem>>
  /\ CommonClock(imem_ready, TRUE, global_interrupts)

(* The instruction in EX redirects fetch: trap, MRET, jump, taken branch.   *)
ClockRedirect(imem_ready, dmem_ready, global_interrupts) ==
  /\ ~mem_stall(dmem_ready) /\ ex_redirect(FALSE)
  /\ FetchRedirect(imem_ready)
  /\ load_use_hold_q' = FALSE
  /\ IfIdNext(TRUE, FALSE) /\ IdExNext(TRUE)
  /\ ExMemNext(ex_is_trap(FALSE)) /\ MemWbNext
  /\ CommonClock(imem_ready, FALSE, global_interrupts)

(* Any other edge: the pipeline advances where it is not stalled.           *)
ClockAdvance(imem_ready, dmem_ready, global_interrupts) ==
  /\ ~mem_stall(dmem_ready) /\ ~ex_redirect(FALSE)
  /\ FetchAdvance(imem_ready, if_accept(imem_ready, FALSE),
                  imem_req(imem_ready, FALSE))
  /\ load_use_hold_q' = load_hazard
  /\ IfIdNext(FALSE, if_accept(imem_ready, FALSE)) /\ IdExNext(FALSE)
  /\ ExMemNext(FALSE) /\ MemWbNext
  /\ CommonClock(imem_ready, FALSE, global_interrupts)

(* Synchronous reset. Both memories keep their contents: the write enables  *)
(* of the data memory are off while the core is held in reset.              *)
Reset ==
  /\ pc_f' = RESET_PC
  /\ if_pending_valid' = FALSE /\ if_discard_pending' = FALSE
  /\ if_buf' = IfIdReset /\ if_id' = IfIdReset
  /\ id_ex' = IdExReset /\ ex_mem' = ExMemReset /\ mem_wb' = MemWbReset
  /\ load_use_hold_q' = FALSE
  /\ mul' = MulIdle /\ div' = DivIdle
  /\ regs' = [r \in Reg |-> 0]
  /\ csr' = CsrReset
  /\ imem_requests' = <<>>
  /\ UNCHANGED <<imem, dmem>>

Clock(imem_ready, dmem_ready, global_interrupts) ==
  \/ ClockMemStall(imem_ready, dmem_ready, global_interrupts)
  \/ ClockRedirect(imem_ready, dmem_ready, global_interrupts)
  \/ ClockAdvance(imem_ready, dmem_ready, global_interrupts)

Next ==
  \/ TRUE \in ResetInputs /\ Reset
  \/ \E imem_ready \in ImemReady, dmem_ready \in DmemReady,
        global_interrupts \in IrqInputs :
       Clock(imem_ready, dmem_ready, global_interrupts)

Spec == Init /\ [][Next]_vars
=============================================================================
