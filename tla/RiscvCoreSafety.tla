-------------------------- MODULE RiscvCoreSafety ---------------------------
(* Safety and progress properties of the pipeline that the instruction set  *)
(* does not show: how fetch requests, stage registers, forwarding and the   *)
(* multicycle units relate to each other from one cycle to the next.        *)
EXTENDS RiscvCore

Selects == {"REG", "MEM", "WB"}

(* Types of the control state.                                              *)
TypeOK ==
  /\ {if_pending_valid, if_discard_pending, load_use_hold_q} \subseteq BOOLEAN
  /\ {if_buf.valid, if_id.valid, id_ex.valid, ex_mem.valid, mem_wb.valid}
       \subseteq BOOLEAN
  /\ {id_ex.forward_a, id_ex.forward_b} \subseteq Selects
  /\ {mul.busy, mul.done, div.busy, div.done} \subseteq BOOLEAN
  /\ div.count \in 0 .. XLEN - 1

(* At most one fetch request is unanswered, of a live or of an abandoned    *)
(* fetch, and a live response has a place to go; the instruction awaited or *)
(* buffered is the one at pc_f.                                             *)
FetchConsistent ==
  /\ ~(if_pending_valid /\ if_buf.valid)
  /\ if_pending_valid => imem_requests = <<pc_f>>
  /\ if_discard_pending => Len(imem_requests) = 1
  /\ ~if_pending_valid /\ ~if_discard_pending => imem_requests = <<>>
  /\ if_buf.valid => if_buf.pc = pc_f

(* While the response of an abandoned fetch is awaited the front end is     *)
(* empty. So no second redirect can overwrite if_discard_pending and let    *)
(* the abandoned response in as if it were the instruction at pc_f.         *)
DiscardIsAlone ==
  if_discard_pending =>
    ~if_pending_valid /\ ~if_buf.valid /\ ~if_id.valid /\ ~id_ex.valid

(* The fetch handshake (if_pending_valid, if_discard_pending): no response  *)
(* is lost, none is taken for that of another fetch.                        *)
FetchHandshake == FetchConsistent /\ DiscardIsAlone

(* The program counters in flight are consecutive: nothing is skipped or    *)
(* fetched twice between two redirects.                                     *)
FrontInOrder ==
  /\ if_id.valid => pc_f = Wrap(if_id.pc + 4)
  /\ id_ex.valid => pc_f = Wrap(id_ex.pc + 4)

(* Fetch never runs ahead of decode: it cannot ask for an instruction in    *)
(* the cycle in which it accepts one, nor while the pipeline waits, so two  *)
(* adjacent stages of ID, EX and MEM are never occupied together. A CSR     *)
(* instruction in ID relies on this (it reads the CSR file without looking  *)
(* at EX), and an instruction in EX never waits for data memory.            *)
FetchSpacing ==
  /\ if_id.valid => ~if_pending_valid /\ ~if_buf.valid /\ ~id_ex.valid
  /\ id_ex.valid => ~ex_mem.valid

(* A multicycle unit works for the instruction in EX only, one unit at a    *)
(* time, and is never busy and done together.                               *)
UnitsServeEx ==
  /\ mul.busy \/ mul.done => id_ex.valid /\ mul_is_op
  /\ div.busy \/ div.done => id_ex.valid /\ div_is_op
  /\ ~(mul.busy /\ mul.done) /\ ~(div.busy /\ div.done)

-----------------------------------------------------------------------------
Writes(stage, r) ==
  stage.valid /\ stage.op.reg_write /\ stage.op.rd = r /\ r # 0

(* The value program order gives register r for the instruction in EX: that *)
(* of the youngest older instruction that writes it.                        *)
ProgramOrderValue(r) ==
  IF r = 0 THEN 0
  ELSE IF Writes(ex_mem, r)
    THEN IF ex_mem.op.wb_sel = "LOAD" THEN mem_load_data
                                      ELSE ex_mem_forward_data
  ELSE IF Writes(mem_wb, r) THEN wb_data
  ELSE regs[r]

UnitActive == mul.busy \/ mul.done \/ div.busy \/ div.done

(* Forwarding selects, computed in ID before the stages move and used in EX *)
(* any number of wait cycles later, deliver the operands of program order,  *)
(* up to the cycle a multicycle unit has captured them.                     *)
OperandsInOrder ==
  id_ex.valid /\ ~UnitActive =>
    /\ id_ex.op.use_rs1 /\ id_ex.op.rs1 \in Reg =>
         ex_forward_a_data = ProgramOrderValue(id_ex.op.rs1)
    /\ id_ex.op.use_rs2 /\ id_ex.op.rs2 \in Reg =>
         ex_forward_b_data = ProgramOrderValue(id_ex.op.rs2)

-----------------------------------------------------------------------------
(* "Old CSR value is written to rd" (specs/core_specs.md): the value a CSR   *)
(* instruction carries in EX is that of the CSR before its own write. MIP   *)
(* and MEIPEND, which follow the interrupt lines, are left out.             *)
CsrReadReturnsOld ==
  id_ex.valid /\ id_ex.op.csr_read
    /\ id_ex.op.csr_addr \in CsrNames \ {"mip", "meipend"}
    => id_ex.csr_old = CsrRead(csr, id_ex.op.csr_addr)

(* CSR instructions "read/modify a CSR atomically and return its old value  *)
(* in rd" (README.md): a CSR that no trap writes changes only with the CSR  *)
(* instruction going on to MEM, to write rd.                                *)
CsrWriteRetires ==
  [][\A c \in {"mtvec", "mie", "mscratch", "meimask"} :
        csr'[c] # csr[c] => ex_mem'.valid /\ ex_mem'.op = id_ex.op]_vars

(* The clock runs, and each memory is ready again and again, together with  *)
(* the other or not, whatever the interrupt lines do.                       *)
Fairness ==
  /\ WF_vars(\E dmem_ready \in DmemReady, global_interrupts \in IrqInputs :
               Clock(TRUE, dmem_ready, global_interrupts))
  /\ WF_vars(\E imem_ready \in ImemReady, global_interrupts \in IrqInputs :
               Clock(imem_ready, TRUE, global_interrupts))

FairSpec == Spec /\ Fairness

(* The pipeline never wedges: an instruction is ready to leave EX again and *)
(* again, unless it is reset again and again. So an abandoned fetch         *)
(* response is always consumed: while it is awaited EX is empty.            *)
Progress == []<>(id_ex.valid /\ ~m_stall) \/ []<><<Reset>>_vars
=============================================================================
