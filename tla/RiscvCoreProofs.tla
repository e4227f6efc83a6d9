-------------------------- MODULE RiscvCoreProofs ---------------------------
(* Proofs of the safety properties of the pipeline, and that it implements  *)
(* the instruction set, for every program, size of word, memory and         *)
(* register file, and every behaviour of the memories and interrupt lines.  *)
EXTENDS RiscvCoreIsa, RiscvOpsProofs

(* The fields the steps read of the registers they update in part.          *)
IfFields   == {"valid", "instr", "pc"}
IdExFields == {"valid", "pc", "rs1_data", "rs2_data", "imm", "csr_old",
               "forward_a", "forward_b", "op"}
Shapes ==
  /\ DOMAIN if_buf = IfFields /\ DOMAIN if_id = IfFields
  /\ DOMAIN id_ex = IdExFields
  /\ "valid" \in DOMAIN mem_wb
  /\ {if_buf.valid, if_id.valid, id_ex.valid, ex_mem.valid, mem_wb.valid}
       \subseteq BOOLEAN
  /\ {id_ex.forward_a, id_ex.forward_b} \subseteq Selects
  /\ {if_pending_valid, if_discard_pending} \subseteq BOOLEAN
  /\ MulShape(mul) /\ DivShape(div)

(* At most one request is unanswered, and whose it is.                      *)
Requests ==
  /\ if_pending_valid => imem_requests = <<pc_f>>
  /\ if_discard_pending => imem_requests = <<Head(imem_requests)>>
  /\ ~if_pending_valid /\ ~if_discard_pending => imem_requests = <<>>

(* The inductive invariant.                                                 *)
IInv ==
  /\ Shapes
  /\ load_use_hold_q = FALSE
  /\ Requests
  /\ ~(if_pending_valid /\ if_buf.valid)
  /\ if_buf.valid => if_buf.pc = pc_f
  /\ DiscardIsAlone /\ FrontInOrder /\ FetchSpacing /\ UnitsServeEx

-----------------------------------------------------------------------------
(* What reset leaves in the stage registers and units.                      *)
LEMMA ResetValues ==
  /\ DOMAIN IfIdReset = IfFields /\ IfIdReset.valid = FALSE
  /\ DOMAIN IdExReset = IdExFields /\ IdExReset.valid = FALSE
  /\ IdExReset.forward_a \in Selects /\ IdExReset.forward_b \in Selects
  /\ ExMemReset.valid = FALSE
  /\ "valid" \in DOMAIN MemWbReset /\ MemWbReset.valid = FALSE
  /\ MulShape(MulIdle) /\ MulIdle.busy = FALSE /\ MulIdle.done = FALSE
  /\ DivShape(DivIdle) /\ DivIdle.busy = FALSE /\ DivIdle.done = FALSE
<1>1. DOMAIN IfIdReset = IfFields /\ IfIdReset.valid = FALSE
  BY DEF IfIdReset, IfFields
<1>2. /\ DOMAIN IdExReset = IdExFields /\ IdExReset.valid = FALSE
      /\ IdExReset.forward_a \in Selects /\ IdExReset.forward_b \in Selects
  BY DEF IdExReset, IdExFields, Selects
<1>3. ExMemReset.valid = FALSE
  BY DEF ExMemReset
<1>4. "valid" \in DOMAIN MemWbReset /\ MemWbReset.valid = FALSE
  BY DEF MemWbReset
<1>5. MulShape(MulIdle) /\ MulIdle.busy = FALSE /\ MulIdle.done = FALSE
  BY DEF MulShape, MulIdle
<1>6. DivShape(DivIdle) /\ DivIdle.busy = FALSE /\ DivIdle.done = FALSE
  BY XlenPositive DEF DivShape, DivIdle
<1> QED BY <1>1, <1>2, <1>3, <1>4, <1>5, <1>6

LEMMA InitIInv == Init => IInv
BY ResetValues
   DEF Init, IInv, Shapes, Requests, DiscardIsAlone, FrontInOrder,
       FetchSpacing, UnitsServeEx

(* Reset starts over.                                                       *)
LEMMA ResetIInv == Reset => IInv'
BY ResetValues
   DEF Reset, IInv, Shapes, Requests, DiscardIsAlone, FrontInOrder,
       FetchSpacing, UnitsServeEx

LEMMA StutterIInv == IInv /\ UNCHANGED vars => IInv'
BY DEF IInv, vars, fetchRegs, stageRegs, Shapes, Requests, DiscardIsAlone,
       FrontInOrder, FetchSpacing, UnitsServeEx, mul_is_op, div_is_op

(* Since ID and EX are never occupied together, no instruction in ID waits  *)
(* for a load in EX: only a multicycle unit stalls decode.                  *)
LEMMA OnlyUnitsStall ==
  ASSUME IInv
  PROVE  ~load_hazard /\ stall_if = m_stall
BY DEF IInv, FetchSpacing, Shapes, load_hazard, LoadHazardEx, stall_if, m_stall,
       MStall

(* The RV32M units at an edge: they start for the instruction in EX, and go *)
(* idle in the cycle that instruction leaves.                               *)
LEMMA UnitsClock ==
  ASSUME IInv, NEW stall \in BOOLEAN, stall => ~id_ex.valid,
         mul' = MulNext(mul, mul_start(stall), id_ex.op.alu_op, ex_alu_src_a,
                        ex_alu_src_b, stall),
         div' = DivNext(div, div_start(stall), id_ex.op.alu_op, ex_alu_src_a,
                        ex_alu_src_b, stall)
  PROVE  /\ MulShape(mul') /\ DivShape(div')
         /\ ~(mul'.busy /\ mul'.done) /\ ~(div'.busy /\ div'.done)
         /\ mul'.busy \/ mul'.done => m_stall /\ mul_is_op
         /\ div'.busy \/ div'.done => m_stall /\ div_is_op
         /\ m_stall => UnitActive'
<1>1. /\ MulShape(mul) /\ DivShape(div) /\ UnitsServeEx
      /\ ~(mul.busy /\ mul.done) /\ ~(div.busy /\ div.done)
      /\ id_ex.valid \in BOOLEAN
  BY DEF IInv, Shapes, UnitsServeEx
<1>2. /\ mul_start(stall) \in BOOLEAN /\ div_start(stall) \in BOOLEAN
      /\ mul_start(stall) => ~mul.busy /\ ~mul.done
      /\ div_start(stall) => ~div.busy /\ ~div.done
  BY DEF mul_start, div_start, MulStart, DivStartNow
<1>3. /\ MulShape(mul') /\ mul'.busy = mul_start(stall)
      /\ mul'.done = (mul.busy \/ (mul.done /\ stall))
  BY <1>1, <1>2, MulNextFlags
<1>4. /\ DivShape(div') /\ ~(div'.busy /\ div'.done)
      /\ (div'.busy \/ div'.done)
           = (div_start(stall) \/ div.busy \/ (div.done /\ stall))
  BY <1>1, <1>2, DivNextFlags
<1>5. mul'.busy \/ mul'.done => m_stall /\ mul_is_op
  BY <1>1, <1>3 DEF UnitsServeEx, mul_start, MulStart, m_stall, MStall,
                    mul_is_op, MulShape
<1>6. div'.busy \/ div'.done => m_stall /\ div_is_op
  BY <1>1, <1>4 DEF UnitsServeEx, div_start, DivStartNow, m_stall, MStall,
                    div_is_op, DivShape
<1>7. ~(mul'.busy /\ mul'.done)
  BY <1>2, <1>3
<1>8. ASSUME m_stall PROVE UnitActive'
  <2>1. ~stall /\ id_ex.valid
    BY <1>8 DEF m_stall, MStall
  <2>2. CASE mul_is_op /\ ~mul.done
    BY <1>3, <2>1, <2>2 DEF mul_start, MulStart, mul_is_op, UnitActive, MulShape
  <2>3. CASE div_is_op /\ ~div.done
    BY <1>4, <2>1, <2>3
       DEF div_start, DivStartNow, div_is_op, UnitActive, DivShape
  <2> QED BY <1>8, <2>2, <2>3 DEF m_stall, MStall, mul_is_op, div_is_op
<1> QED BY <1>3, <1>4, <1>5, <1>6, <1>7, <1>8

-----------------------------------------------------------------------------
LEMMA OneElement ==
  ASSUME NEW x
  PROVE  /\ <<x>> # <<>> /\ Head(<<x>>) = x /\ Tail(<<x>>) = <<>>
         /\ Append(<<>>, x) = <<x>>
OBVIOUS

(* A response answers the one request there may be.                         *)
LEMMA Answered ==
  ASSUME IInv, NEW imem_ready \in BOOLEAN
  PROVE  /\ imem_ready => ImemUnanswered(imem_ready) = <<>>
         /\ ~imem_ready => ImemUnanswered(imem_ready) = imem_requests
<1>1. \/ imem_requests = <<>>
      \/ imem_requests = <<pc_f>>
      \/ imem_requests = <<Head(imem_requests)>>
  BY DEF IInv, Requests, Shapes
<1>2. imem_requests # <<>> => Tail(imem_requests) = <<>>
  BY <1>1, OneElement
<1> QED BY <1>2 DEF ImemUnanswered

(* The fetch registers at an edge without a redirect, with the conditions   *)
(* under which an instruction is accepted and a request made: a response is *)
(* taken, buffered or discarded, and at most one fetch is outstanding.      *)
LEMMA FetchAdvanceIInv ==
  ASSUME IInv, NEW imem_ready \in BOOLEAN, NEW accept \in BOOLEAN,
         NEW request \in BOOLEAN,
         FetchAdvance(imem_ready, accept, request),
         accept => if_buf.valid \/ if_live_resp_valid(imem_ready),
         request => /\ ~if_buf.valid /\ ~if_live_resp_valid(imem_ready)
                    /\ ~if_pending_valid /\ ~if_discard_pending,
         imem_requests' = IF request
                            THEN Append(ImemUnanswered(imem_ready), pc_f)
                            ELSE ImemUnanswered(imem_ready)
  PROVE  /\ DOMAIN if_buf' = IfFields /\ if_buf'.valid \in BOOLEAN
         /\ {if_pending_valid', if_discard_pending'} \subseteq BOOLEAN
         /\ Requests'
         /\ ~(if_pending_valid' /\ if_buf'.valid)
         /\ if_buf'.valid => if_buf'.pc = pc_f'
         /\ accept => /\ pc_f' = Wrap(pc_f + 4)
                      /\ ~if_pending_valid' /\ ~if_buf'.valid
         /\ ~accept => pc_f' = pc_f
         /\ if_pending_valid' \/ if_buf'.valid =>
              request \/ if_pending_valid \/ if_buf.valid
         /\ if_discard_pending' => if_discard_pending /\ ~accept /\ ~request
<1> USE DEF if_live_resp_valid
<1>1. /\ {if_pending_valid, if_discard_pending, if_buf.valid} \subseteq BOOLEAN
      /\ DOMAIN if_buf = IfFields
      /\ Requests /\ ~(if_pending_valid /\ if_buf.valid)
      /\ if_discard_pending => ~if_pending_valid /\ ~if_buf.valid
      /\ if_buf.valid => if_buf.pc = pc_f
  BY DEF IInv, Shapes, DiscardIsAlone
<1>2. /\ if_pending_valid' =
           (request \/ (if_pending_valid /\ ~(imem_ready /\ if_pending_valid
                                               /\ ~if_discard_pending)))
      /\ if_discard_pending' = (if_discard_pending /\ ~imem_ready)
      /\ pc_f' = IF accept THEN Wrap(pc_f + 4) ELSE pc_f
  BY DEF FetchAdvance
<1>3. CASE accept /\ if_buf.valid
  <2>1. if_buf' = [if_buf EXCEPT !.valid = FALSE]
    BY <1>3 DEF FetchAdvance
  <2>2. DOMAIN if_buf' = IfFields /\ if_buf'.valid = FALSE
    BY <1>1, <2>1 DEF IfFields
  <2>3. Requests' /\ ~request /\ ~if_pending_valid' /\ ~if_discard_pending'
    BY <1>1, <1>2, <1>3, Answered DEF Requests
  <2> QED BY <1>1, <1>2, <1>3, <2>2, <2>3
<1>4. CASE accept /\ ~if_buf.valid
  <2>1. if_buf' = if_buf /\ if_live_resp_valid(imem_ready) /\ ~request
    BY <1>4 DEF FetchAdvance
  <2>2. ~if_pending_valid' /\ ~if_discard_pending'
    BY <1>1, <1>2, <2>1
  <2>3. Requests'
    BY <1>1, <2>1, <2>2, Answered DEF Requests
  <2> QED BY <1>1, <1>2, <1>4, <2>1, <2>2, <2>3
<1>5. CASE ~accept /\ if_live_resp_valid(imem_ready)
  <2>1. if_buf' = [valid |-> TRUE, instr |-> imem_instr, pc |-> imem_resp_pc]
    BY <1>1, <1>5 DEF FetchAdvance
  <2>2. imem_resp_pc = pc_f
    BY <1>1, <1>5 DEF Requests, imem_resp_pc
  <2>3. /\ DOMAIN if_buf' = IfFields /\ if_buf'.valid = TRUE
        /\ if_buf'.pc = pc_f
    BY <2>1, <2>2 DEF IfFields
  <2>4. ~if_pending_valid' /\ ~if_discard_pending' /\ ~request
    BY <1>1, <1>2, <1>5
  <2>5. Requests'
    BY <1>1, <1>5, <2>4, Answered DEF Requests
  <2> QED BY <1>1, <1>2, <1>5, <2>3, <2>4, <2>5
<1>6. CASE ~accept /\ ~if_live_resp_valid(imem_ready)
  <2>1. if_buf' = if_buf
    BY <1>6 DEF FetchAdvance
  <2>2. Requests'
    BY <1>1, <1>2, <1>6, Answered, OneElement DEF Requests
  <2> QED BY <1>1, <1>2, <1>6, <2>1, <2>2
<1> QED BY <1>3, <1>4, <1>5, <1>6

(* An edge with a memory stall: the instruction in MEM is alone, so EX is   *)
(* empty and the units idle; only fetch moves.                              *)
LEMMA MemStallIInv ==
  ASSUME IInv, NEW imem_ready \in BOOLEAN, NEW dmem_ready \in BOOLEAN,
         NEW irq, ClockMemStall(imem_ready, dmem_ready, irq)
  PROVE  IInv'
<1>1. ex_mem.valid
  BY DEF ClockMemStall, mem_stall, dmem_read_en, dmem_write_en
<1>2. ~id_ex.valid
  BY <1>1 DEF IInv, FetchSpacing
<1>3. /\ MulShape(mul') /\ DivShape(div')
      /\ ~(mul'.busy \/ mul'.done) /\ ~(div'.busy \/ div'.done)
  <2>1. ~m_stall
    BY <1>2 DEF m_stall, MStall
  <2> QED BY <1>2, <2>1, UnitsClock DEF ClockMemStall, CommonClock
<1>4. /\ if_id' = if_id /\ id_ex' = id_ex /\ ex_mem' = ex_mem
      /\ load_use_hold_q' = load_use_hold_q
      /\ "valid" \in DOMAIN mem_wb' /\ mem_wb'.valid = FALSE
  BY DEF ClockMemStall, IInv, Shapes
<1>5. FetchAdvance(imem_ready, FALSE, FALSE)
  BY DEF ClockMemStall
<1>6. imem_requests' = ImemUnanswered(imem_ready)
  BY DEF ClockMemStall, CommonClock, imem_req
<1>7. /\ DOMAIN if_buf' = IfFields /\ if_buf'.valid \in BOOLEAN
      /\ {if_pending_valid', if_discard_pending'} \subseteq BOOLEAN
      /\ Requests'
      /\ ~(if_pending_valid' /\ if_buf'.valid)
      /\ if_buf'.valid => if_buf'.pc = pc_f'
      /\ pc_f' = pc_f
      /\ if_pending_valid' \/ if_buf'.valid =>
           if_pending_valid \/ if_buf.valid
      /\ if_discard_pending' => if_discard_pending
  BY <1>5, <1>6, FetchAdvanceIInv
<1>8. DiscardIsAlone' /\ FetchSpacing' /\ FrontInOrder'
  BY <1>2, <1>4, <1>7 DEF IInv, DiscardIsAlone, FetchSpacing, FrontInOrder
<1>9. UnitsServeEx'
  BY <1>3 DEF UnitsServeEx
<1> QED BY <1>3, <1>4, <1>7, <1>8, <1>9 DEF IInv, Shapes

-----------------------------------------------------------------------------
LEMMA ForwardSelects ==
  ASSUME NEW v, NEW use, NEW rs, NEW ex, NEW mem
  PROVE  ForwardSel(v, use, rs, ex, mem) \in Selects
BY DEF ForwardSel, Selects

(* The register ID/EX: empty after a redirect, held by a busy unit, and     *)
(* otherwise the instruction from ID with its operands.                     *)
LEMMA IdExClock ==
  ASSUME IInv, NEW redirect \in BOOLEAN, IdExNext(redirect),
         redirect => ~m_stall
  PROVE  /\ DOMAIN id_ex' = IdExFields
         /\ {id_ex'.forward_a, id_ex'.forward_b} \subseteq Selects
         /\ redirect => id_ex'.valid = FALSE
         /\ m_stall => id_ex' = id_ex
         /\ ~redirect /\ ~m_stall =>
              LET op == Decode(if_id.instr)
              IN  /\ id_ex'.valid = if_id.valid /\ id_ex'.pc = if_id.pc
                  /\ id_ex'.op = op
                  /\ id_ex'.rs1_data = RegRead(op.rs1)
                  /\ id_ex'.rs2_data = RegRead(op.rs2)
                  /\ id_ex'.csr_old = CsrRead(csr, op.csr_addr)
                  /\ id_ex'.forward_a =
                       ForwardSel(if_id.valid, op.use_rs1, op.rs1, id_ex, ex_mem)
                  /\ id_ex'.forward_b =
                       ForwardSel(if_id.valid, op.use_rs2, op.rs2, id_ex, ex_mem)
<1> DEFINE op   == Decode(if_id.instr)
           imm  == if_id.instr.imm
           fwdA == ForwardSel(if_id.valid, op.use_rs1, op.rs1, id_ex, ex_mem)
           fwdB == ForwardSel(if_id.valid, op.use_rs2, op.rs2, id_ex, ex_mem)
           rs1  == RegRead(op.rs1)
           rs2  == RegRead(op.rs2)
           old  == CsrRead(csr, op.csr_addr)
           data == [id_ex EXCEPT !.pc = if_id.pc, !.imm = imm,
                                 !.rs1_data = rs1, !.rs2_data = rs2,
                                 !.csr_old = old]
<1>1. /\ fwdA \in Selects /\ fwdB \in Selects /\ "REG" \in Selects
      /\ {id_ex.forward_a, id_ex.forward_b} \subseteq Selects
      /\ DOMAIN id_ex = IdExFields /\ m_stall \in BOOLEAN
  BY ForwardSelects DEF Selects, IInv, Shapes, m_stall, MStall
<1>2. CASE redirect
  <2>1. id_ex' = [data EXCEPT !.valid = FALSE, !.forward_a = "REG",
                              !.forward_b = "REG"]
    BY <1>2, OnlyUnitsStall DEF IdExNext
  <2> HIDE DEF op, imm, rs1, rs2, old
  <2>2. /\ DOMAIN id_ex' = IdExFields /\ id_ex'.valid = FALSE
        /\ id_ex'.forward_a = "REG" /\ id_ex'.forward_b = "REG"
    BY <1>1, <2>1 DEF IdExFields
  <2> QED BY <1>1, <1>2, <2>2
<1>3. CASE m_stall
  <2>1. id_ex' = id_ex
    BY <1>3, OnlyUnitsStall DEF IdExNext
  <2> QED BY <1>1, <1>3, <2>1
<1>4. CASE ~redirect /\ ~m_stall
  <2>1. id_ex' = [data EXCEPT !.valid = if_id.valid, !.forward_a = fwdA,
                              !.forward_b = fwdB, !.op = op]
    BY <1>4, OnlyUnitsStall DEF IdExNext
  <2>2. /\ DOMAIN id_ex' = IdExFields
        /\ id_ex'.valid = if_id.valid /\ id_ex'.pc = if_id.pc
        /\ id_ex'.op = op /\ id_ex'.rs1_data = rs1 /\ id_ex'.rs2_data = rs2
        /\ id_ex'.csr_old = old
        /\ id_ex'.forward_a = fwdA /\ id_ex'.forward_b = fwdB
    <3> HIDE DEF op, imm, rs1, rs2, old, fwdA, fwdB
    <3> QED BY <1>1, <2>1 DEF IdExFields
  <2> QED BY <1>1, <1>4, <2>2
<1> QED BY <1>1, <1>2, <1>3, <1>4

-----------------------------------------------------------------------------
(* An edge with a redirect: the instruction in EX is alone in ID, EX and    *)
(* MEM and no abandoned response is awaited, so none is lost.               *)
LEMMA RedirectIInv ==
  ASSUME IInv, NEW imem_ready \in BOOLEAN, NEW dmem_ready \in BOOLEAN,
         NEW irq, ClockRedirect(imem_ready, dmem_ready, irq)
  PROVE  IInv'
<1>1. id_ex.valid /\ ~m_stall
  BY DEF ClockRedirect, ex_redirect, ExFire
<1>2. ~if_discard_pending
  BY <1>1 DEF IInv, DiscardIsAlone
<1>3. /\ MulShape(mul') /\ DivShape(div')
      /\ ~(mul'.busy \/ mul'.done) /\ ~(div'.busy \/ div'.done)
  BY <1>1, UnitsClock DEF ClockRedirect, CommonClock
<1>4. /\ DOMAIN if_id' = IfFields /\ if_id'.valid = FALSE
      /\ load_use_hold_q' = FALSE
      /\ "valid" \in DOMAIN mem_wb' /\ mem_wb'.valid = ex_mem.valid
      /\ ex_mem'.valid \in BOOLEAN
  BY DEF ClockRedirect, IInv, Shapes, IfIdNext, IfFields, MemWbNext, ExMemNext
<1>5. /\ DOMAIN id_ex' = IdExFields /\ id_ex'.valid = FALSE
      /\ {id_ex'.forward_a, id_ex'.forward_b} \subseteq Selects
  BY <1>1, IdExClock DEF ClockRedirect
<1>6. /\ DOMAIN if_buf' = IfFields /\ if_buf'.valid = FALSE
      /\ if_pending_valid' = FALSE
      /\ if_discard_pending' = (if_pending_valid /\ ~imem_ready)
  BY DEF ClockRedirect, FetchRedirect, IInv, Shapes, IfFields
<1>7. imem_requests' = ImemUnanswered(imem_ready)
  BY DEF ClockRedirect, CommonClock, imem_req
<1>8. Requests'
  BY <1>2, <1>6, <1>7, Answered, OneElement DEF IInv, Requests
<1>9. DiscardIsAlone' /\ FetchSpacing' /\ FrontInOrder' /\ UnitsServeEx'
  BY <1>3, <1>4, <1>5, <1>6
     DEF DiscardIsAlone, FetchSpacing, FrontInOrder, UnitsServeEx
<1> QED BY <1>3, <1>4, <1>5, <1>6, <1>8, <1>9 DEF IInv, Shapes

(* Any other edge. While a unit works nothing moves in front of EX; else    *)
(* the instruction in ID goes to EX, which is empty, and one is accepted    *)
(* into ID only if ID is empty.                                             *)
LEMMA AdvanceIInv ==
  ASSUME IInv, NEW imem_ready \in BOOLEAN, NEW dmem_ready \in BOOLEAN,
         NEW irq, ClockAdvance(imem_ready, dmem_ready, irq)
  PROVE  IInv'
<1> DEFINE accept  == if_accept(imem_ready, FALSE)
           request == imem_req(imem_ready, FALSE)
<1>1. stall_if = m_stall /\ m_stall \in BOOLEAN /\ (m_stall => id_ex.valid)
  BY OnlyUnitsStall DEF m_stall, MStall, IInv, Shapes
<1>2. /\ accept \in BOOLEAN /\ request \in BOOLEAN
      /\ accept \/ request => ~m_stall
      /\ accept => if_buf.valid \/ if_live_resp_valid(imem_ready)
      /\ request => /\ ~if_buf.valid /\ ~if_live_resp_valid(imem_ready)
                    /\ ~if_pending_valid /\ ~if_discard_pending
  BY <1>1 DEF if_accept, imem_req, IInv, Shapes, if_live_resp_valid
<1>3. accept => ~if_id.valid
  BY <1>2 DEF IInv, FetchSpacing, if_live_resp_valid
<1>4. accept => if_resp.pc = pc_f /\ if_resp.valid = TRUE
                /\ DOMAIN if_resp = IfFields
  <2>1. CASE if_buf.valid
    BY <2>1 DEF IInv, Shapes, if_resp
  <2>2. CASE ~if_buf.valid
    <3>1. if_resp = [valid |-> TRUE, instr |-> imem_instr,
                     pc |-> imem_resp_pc]
      BY <2>2 DEF if_resp
    <3>2. accept => imem_resp_pc = pc_f
      BY <1>2, <2>2, OneElement
         DEF IInv, Requests, if_live_resp_valid, imem_resp_pc
    <3> QED BY <3>1, <3>2 DEF IfFields
  <2> QED BY <2>1, <2>2
<1>5. imem_requests' = IF request
                         THEN Append(ImemUnanswered(imem_ready), pc_f)
                         ELSE ImemUnanswered(imem_ready)
  BY DEF ClockAdvance, CommonClock
<1>6. FetchAdvance(imem_ready, accept, request)
  BY DEF ClockAdvance
<1>7. /\ MulShape(mul') /\ DivShape(div')
      /\ ~(mul'.busy /\ mul'.done) /\ ~(div'.busy /\ div'.done)
      /\ mul'.busy \/ mul'.done => m_stall /\ mul_is_op
      /\ div'.busy \/ div'.done => m_stall /\ div_is_op
  BY UnitsClock DEF ClockAdvance, CommonClock
<1>8. /\ if_id' = IF m_stall THEN if_id
                  ELSE IF accept THEN if_resp
                  ELSE [if_id EXCEPT !.valid = FALSE]
      /\ load_use_hold_q' = FALSE
      /\ "valid" \in DOMAIN mem_wb' /\ mem_wb'.valid = ex_mem.valid
      /\ ex_mem'.valid \in BOOLEAN
      /\ ex_mem'.valid => id_ex.valid /\ ~m_stall
  BY <1>1, OnlyUnitsStall
     DEF ClockAdvance, IfIdNext, MemWbNext, ExMemNext, load_hazard, LoadHazardEx
<1>9. /\ DOMAIN id_ex' = IdExFields
      /\ {id_ex'.forward_a, id_ex'.forward_b} \subseteq Selects
      /\ m_stall => id_ex' = id_ex
      /\ ~m_stall => id_ex'.valid = if_id.valid /\ id_ex'.pc = if_id.pc
  BY IdExClock DEF ClockAdvance
<1>10. /\ DOMAIN if_id' = IfFields /\ if_id'.valid \in BOOLEAN
       /\ m_stall => if_id' = if_id
       /\ ~m_stall /\ if_id'.valid => accept /\ if_id'.pc = pc_f
  BY <1>4, <1>8 DEF IInv, Shapes, IfFields
<1> HIDE DEF accept, request
<1>11. /\ DOMAIN if_buf' = IfFields /\ if_buf'.valid \in BOOLEAN
       /\ {if_pending_valid', if_discard_pending'} \subseteq BOOLEAN
       /\ Requests'
       /\ ~(if_pending_valid' /\ if_buf'.valid)
       /\ if_buf'.valid => if_buf'.pc = pc_f'
       /\ accept => /\ pc_f' = Wrap(pc_f + 4)
                    /\ ~if_pending_valid' /\ ~if_buf'.valid
       /\ ~accept => pc_f' = pc_f
       /\ if_pending_valid' \/ if_buf'.valid =>
            request \/ if_pending_valid \/ if_buf.valid
       /\ if_discard_pending' => if_discard_pending /\ ~accept /\ ~request
  BY <1>2, <1>5, <1>6, FetchAdvanceIInv
<1>12. CASE m_stall
  <2>1. DiscardIsAlone' /\ FrontInOrder' /\ FetchSpacing'
    BY <1>1, <1>2, <1>8, <1>9, <1>10, <1>11, <1>12
       DEF IInv, DiscardIsAlone, FrontInOrder, FetchSpacing
  <2>2. UnitsServeEx'
    BY <1>1, <1>7, <1>9, <1>12 DEF UnitsServeEx, mul_is_op, div_is_op
  <2> QED
    BY <1>7, <1>8, <1>9, <1>10, <1>11, <1>12, <2>1, <2>2 DEF IInv, Shapes
<1>13. CASE ~m_stall
  <2>1. DiscardIsAlone'
    BY <1>9, <1>10, <1>11, <1>13 DEF IInv, DiscardIsAlone
  <2>2. FetchSpacing'
    BY <1>3, <1>8, <1>9, <1>10, <1>11, <1>13 DEF IInv, FetchSpacing
  <2>3. FrontInOrder'
    BY <1>3, <1>9, <1>10, <1>11, <1>13 DEF IInv, FrontInOrder
  <2>4. UnitsServeEx'
    BY <1>7, <1>13 DEF UnitsServeEx
  <2>5. id_ex'.valid \in BOOLEAN
    BY <1>9, <1>13 DEF IInv, Shapes
  <2> QED
    BY <1>7, <1>8, <1>9, <1>10, <1>11, <2>1, <2>2, <2>3, <2>4, <2>5
       DEF IInv, Shapes
<1> QED BY <1>1, <1>12, <1>13

-----------------------------------------------------------------------------
(* Every clock edge keeps IInv, whatever the inputs of the cycle.            *)
LEMMA ClockIInv ==
  ASSUME IInv, NEW imem_ready \in BOOLEAN, NEW dmem_ready \in BOOLEAN,
         NEW irq, Clock(imem_ready, dmem_ready, irq)
  PROVE  IInv'
BY MemStallIInv, RedirectIInv, AdvanceIInv DEF Clock

(* IInv is inductive.                                                       *)
LEMMA NextIInv == IInv /\ [Next]_vars => IInv'
<1> SUFFICES ASSUME IInv, [Next]_vars PROVE IInv'
  OBVIOUS
<1>1. CASE Reset
  BY <1>1, ResetIInv
<1>2. CASE \E imem_ready \in ImemReady, dmem_ready \in DmemReady,
              irq \in IrqInputs : Clock(imem_ready, dmem_ready, irq)
  BY <1>2, ClockIInv, CoreAssumption
<1>3. CASE UNCHANGED vars
  BY <1>3, StutterIInv
<1> QED BY <1>1, <1>2, <1>3 DEF Next

THEOREM InductiveInvariant == Spec => []IInv
BY InitIInv, NextIInv, PTL DEF Spec

-----------------------------------------------------------------------------
(* The control state of the core always has its type.                       *)
THEOREM TypeCorrect == Spec => []TypeOK
<1>1. IInv => TypeOK
  BY DEF IInv, Shapes, MulShape, DivShape, TypeOK
<1> QED BY <1>1, InductiveInvariant, PTL

(* The fetch handshake of IF never has two requests unanswered, never loses *)
(* or confuses a response, and an abandoned one is awaited by an empty      *)
(* front end only.                                                          *)
THEOREM FetchSafe == Spec => []FetchHandshake
<1>1. ASSUME NEW x PROVE Len(<<x>>) = 1
  OBVIOUS
<1>2. IInv => FetchHandshake
  BY <1>1 DEF IInv, Requests, FetchConsistent, FetchHandshake
<1> QED BY <1>2, InductiveInvariant, PTL

(* Fetch skips and repeats nothing between two redirects.                   *)
THEOREM FetchInOrder == Spec => []FrontInOrder
<1>1. IInv => FrontInOrder
  BY DEF IInv
<1> QED BY <1>1, InductiveInvariant, PTL

(* No two adjacent stages of ID, EX and MEM are ever occupied together.     *)
THEOREM StagesSpaced == Spec => []FetchSpacing
<1>1. IInv => FetchSpacing
  BY DEF IInv
<1> QED BY <1>1, InductiveInvariant, PTL

(* The multiplier and the divider work for the instruction in EX only.      *)
THEOREM UnitsServe == Spec => []UnitsServeEx
<1>1. IInv => UnitsServeEx
  BY DEF IInv
<1> QED BY <1>1, InductiveInvariant, PTL

(* The load-use stall of the hazard unit and its hold flag are never raised *)
(* in this core: the instruction after a load reaches ID too late for them. *)
THEOREM LoadUseNeverStalls == Spec => [](~load_hazard /\ ~load_use_hold_q)
<1>1. IInv => ~load_hazard /\ ~load_use_hold_q
  BY OnlyUnitsStall DEF IInv
<1> QED BY <1>1, InductiveInvariant, PTL

-----------------------------------------------------------------------------
(* An instruction in EX has the operands that program order gives it,       *)
(* whatever the wait states.                                                *)

LEMMA ResetEmptiesEx ==
  /\ Init => ~id_ex.valid /\ DOMAIN regs = Reg
  /\ Reset => ~id_ex'.valid /\ DOMAIN regs' = Reg
BY ResetValues DEF Init, Reset

LEMMA RegsDomain ==
  ASSUME DOMAIN regs = Reg, regs' = RegsAfterWrite
  PROVE  DOMAIN regs' = Reg
BY DEF RegsAfterWrite

(* What a register read in ID, with the bypass from WB, captures is what    *)
(* the register file holds after the edge.                                  *)
LEMMA CapturedValue ==
  ASSUME DOMAIN regs = Reg, regs' = RegsAfterWrite, NEW r \in Reg, r # 0
  PROVE  RegRead(r) = regs'[r]
<1>1. RegRead(r) = IF RegWe /\ mem_wb.op.rd = r THEN wb_data ELSE regs[r]
  BY DEF RegRead
<1>2. CASE RegWe
  BY <1>1, <1>2 DEF RegsAfterWrite
<1>3. CASE ~RegWe
  BY <1>1, <1>3 DEF RegsAfterWrite
<1> QED BY <1>2, <1>3

(* The next program-order value of a register when MEM is empty then.       *)
ValueAfter(r) ==
  IF r = 0 THEN 0 ELSE IF Writes(mem_wb', r) THEN wb_data' ELSE regs'[r]

(* One operand of the instruction that moves from ID to EX, with nothing in *)
(* EX before it.                                                            *)
LEMMA OperandMoves ==
  ASSUME DOMAIN regs = Reg, regs' = RegsAfterWrite,
         ~id_ex.valid,
         mem_wb'.valid = ex_mem.valid, mem_wb'.op = ex_mem.op,
         NEW rs \in Reg, NEW sel, NEW captured,
         sel = ForwardSel(TRUE, TRUE, rs, id_ex, ex_mem),
         captured = RegRead(rs)
  PROVE  \/ sel = "REG" /\ captured = ValueAfter(rs)
         \/ sel = "WB" /\ wb_data' = ValueAfter(rs)
<1>1. CASE rs = 0
  BY <1>1 DEF ForwardSel, ValueAfter, RegRead
<1>2. CASE rs # 0 /\ ~(ex_mem.valid /\ ex_mem.op.reg_write /\ ex_mem.op.rd = rs)
  <2>1. sel = "REG" /\ ~Writes(mem_wb', rs)
    BY <1>2 DEF ForwardSel, Writes
  <2>2. captured = regs'[rs]
    BY <1>2, CapturedValue
  <2> QED BY <1>2, <2>1, <2>2 DEF ValueAfter
<1>3. CASE rs # 0 /\ ex_mem.valid /\ ex_mem.op.reg_write /\ ex_mem.op.rd = rs
  <2>1. sel = "WB" /\ Writes(mem_wb', rs)
    BY <1>3 DEF ForwardSel, Writes
  <2> QED BY <1>3, <2>1 DEF ValueAfter
<1> QED BY <1>1, <1>2, <1>3

-----------------------------------------------------------------------------
(* An edge that leaves an instruction in EX that was not started there is   *)
(* one that moves it from ID to an empty EX.                                *)
LEMMA EntersEx ==
  ASSUME IInv, NEW imem_ready \in BOOLEAN, NEW dmem_ready \in BOOLEAN,
         NEW irq, Clock(imem_ready, dmem_ready, irq),
         id_ex'.valid, ~UnitActive'
  PROVE  /\ ClockAdvance(imem_ready, dmem_ready, irq)
         /\ ~m_stall /\ if_id.valid /\ ~id_ex.valid
<1>1. CASE ClockMemStall(imem_ready, dmem_ready, irq)
  <2>1. ex_mem.valid /\ id_ex' = id_ex
    BY <1>1 DEF ClockMemStall, mem_stall, dmem_read_en, dmem_write_en
  <2> QED BY <2>1 DEF IInv, FetchSpacing
<1>2. CASE ClockRedirect(imem_ready, dmem_ready, irq)
  <2>1. ~m_stall
    BY <1>2 DEF ClockRedirect, ex_redirect, ExFire
  <2> QED BY <1>2, <2>1, IdExClock DEF ClockRedirect
<1>3. CASE ClockAdvance(imem_ready, dmem_ready, irq)
  <2>1. ~m_stall
    BY <1>3, UnitsClock DEF ClockAdvance, CommonClock
  <2>2. id_ex'.valid = if_id.valid
    BY <1>3, <2>1, IdExClock DEF ClockAdvance
  <2> QED BY <1>3, <2>1, <2>2 DEF IInv, FetchSpacing
<1> QED BY <1>1, <1>2, <1>3 DEF Clock

LEMMA OperandsEnter ==
  ASSUME IInv, IInv', DOMAIN regs = Reg,
         NEW imem_ready \in BOOLEAN, NEW dmem_ready \in BOOLEAN, NEW irq,
         Clock(imem_ready, dmem_ready, irq), id_ex'.valid, ~UnitActive'
  PROVE  OperandsInOrder'
<1> DEFINE op == Decode(if_id.instr)
<1>1. /\ ClockAdvance(imem_ready, dmem_ready, irq)
      /\ ~m_stall /\ if_id.valid = TRUE /\ ~id_ex.valid
  BY EntersEx DEF IInv, Shapes
<1>2. ~ex_mem'.valid
  BY DEF IInv, FetchSpacing
<1>3. /\ mem_wb'.valid = ex_mem.valid /\ mem_wb'.op = ex_mem.op
      /\ regs' = RegsAfterWrite
  BY <1>1 DEF ClockAdvance, MemWbNext, CommonClock
<1>4. /\ id_ex'.op = op
      /\ id_ex'.rs1_data = RegRead(op.rs1)
      /\ id_ex'.rs2_data = RegRead(op.rs2)
      /\ id_ex'.forward_a = ForwardSel(TRUE, op.use_rs1, op.rs1, id_ex, ex_mem)
      /\ id_ex'.forward_b = ForwardSel(TRUE, op.use_rs2, op.rs2, id_ex, ex_mem)
  BY <1>1, IdExClock DEF ClockAdvance
<1> HIDE DEF op
<1>5. ASSUME op.use_rs1, op.rs1 \in Reg
      PROVE  ex_forward_a_data' = ValueAfter(op.rs1)
  <2>1. \/ id_ex'.forward_a = "REG" /\ id_ex'.rs1_data = ValueAfter(op.rs1)
        \/ id_ex'.forward_a = "WB" /\ wb_data' = ValueAfter(op.rs1)
    <3>1. id_ex'.forward_a = ForwardSel(TRUE, TRUE, op.rs1, id_ex, ex_mem)
      BY ONLY <1>4, <1>5 DEF ForwardSel
    <3>2. ~id_ex.valid /\ regs' = RegsAfterWrite /\ mem_wb'.valid = ex_mem.valid /\ mem_wb'.op = ex_mem.op
      BY ONLY <1>1, <1>3, Zenon
    <3> QED BY ONLY DOMAIN regs = Reg, <1>4, <1>5, <3>1, <3>2, OperandMoves
  <2> QED BY <2>1 DEF ex_forward_a_data, Forwarded
<1>6. ASSUME op.use_rs2, op.rs2 \in Reg
      PROVE  ex_forward_b_data' = ValueAfter(op.rs2)
  <2>1. \/ id_ex'.forward_b = "REG" /\ id_ex'.rs2_data = ValueAfter(op.rs2)
        \/ id_ex'.forward_b = "WB" /\ wb_data' = ValueAfter(op.rs2)
    <3>1. id_ex'.forward_b = ForwardSel(TRUE, TRUE, op.rs2, id_ex, ex_mem)
      BY ONLY <1>4, <1>6 DEF ForwardSel
    <3>2. ~id_ex.valid /\ regs' = RegsAfterWrite /\ mem_wb'.valid = ex_mem.valid /\ mem_wb'.op = ex_mem.op
      BY ONLY <1>1, <1>3, Zenon
    <3> QED BY ONLY DOMAIN regs = Reg, <1>4, <1>6, <3>1, <3>2, OperandMoves
  <2> QED BY <2>1 DEF ex_forward_b_data, Forwarded
<1>7. \A r : ProgramOrderValue(r)' = ValueAfter(r)
  BY <1>2 DEF ProgramOrderValue, ValueAfter, Writes
<1> QED BY <1>4, <1>5, <1>6, <1>7 DEF OperandsInOrder

(* Forwarding delivers the operands of program order: the select computed   *)
(* in ID is right for the cycle in which the instruction uses it.           *)
THEOREM OperandsCorrect == Spec => []OperandsInOrder
<1> DEFINE OInv == IInv /\ DOMAIN regs = Reg /\ OperandsInOrder
<1>1. Init => OInv
  BY InitIInv, ResetEmptiesEx DEF OperandsInOrder
<1>2. OInv /\ [Next]_vars => OInv'
  <2> SUFFICES ASSUME OInv, [Next]_vars PROVE OInv'
    OBVIOUS
  <2>1. IInv'
    BY NextIInv
  <2>2. CASE Reset
    BY <2>1, <2>2, ResetEmptiesEx DEF OperandsInOrder
  <2>3. CASE \E imem_ready \in ImemReady, dmem_ready \in DmemReady,
                irq \in IrqInputs : Clock(imem_ready, dmem_ready, irq)
    <3>1. PICK imem_ready \in ImemReady, dmem_ready \in DmemReady,
               irq \in IrqInputs : Clock(imem_ready, dmem_ready, irq)
      BY <2>3
    <3>2. imem_ready \in BOOLEAN /\ dmem_ready \in BOOLEAN
      BY CoreAssumption
    <3>3. regs' = RegsAfterWrite
      BY <3>1 DEF Clock, ClockMemStall, ClockRedirect, ClockAdvance, CommonClock
    <3>4. DOMAIN regs' = Reg
      BY <3>3, RegsDomain
    <3>5. id_ex'.valid /\ ~UnitActive' => OperandsInOrder'
      BY <2>1, <3>1, <3>2, OperandsEnter
    <3>6. ~(id_ex'.valid /\ ~UnitActive') => OperandsInOrder'
      BY DEF OperandsInOrder
    <3> QED BY <2>1, <3>4, <3>5, <3>6
  <2>4. CASE UNCHANGED vars
    BY <2>1, <2>4
       DEF vars, fetchRegs, stageRegs, OperandsInOrder, UnitActive,
           ProgramOrderValue, Writes, ex_forward_a_data, ex_forward_b_data,
           Forwarded, wb_data, ex_mem_forward_data, mem_load_data,
           dmem_read_data, dmem_index, dmem_addr
  <2> QED BY <2>2, <2>3, <2>4 DEF Next
<1>3. OInv => OperandsInOrder
  OBVIOUS
<1> QED BY <1>1, <1>2, <1>3, PTL DEF Spec

-----------------------------------------------------------------------------
(* A CSR instruction returns the value its CSR had before its own write,    *)
(* although it reads it a cycle before it executes.                         *)

(* A CSR instruction never uses the RV32M units: it spends one cycle in EX. *)
LEMMA CsrOpIsAdd ==
  ASSUME NEW i
  PROVE  Decode(i).csr_read => Decode(i).alu_op = "ADD"
<1>1. NoControl(i).csr_read = FALSE /\ NoControl(i).alu_op = "ADD"
      /\ {"csr_read", "alu_op"} \subseteq DOMAIN NoControl(i)
  BY DEF NoControl
<1>2. SystemControl(i).csr_read => SystemControl(i).alu_op = "ADD"
  BY <1>1 DEF SystemControl
<1>3. CASE i.opcode = "SYSTEM"
  BY <1>2, <1>3 DEF Decode
<1>4. CASE i.opcode # "SYSTEM"
  BY <1>1, <1>4 DEF Decode
<1> QED BY <1>3, <1>4

CsrFields == (CsrNames \ {"mstatus", "mip"})
               \cup {"mstatus_mie", "mstatus_mpie", "mstatus_mpp"}

(* Without a write, a trap or an MRET only the pending bits change.         *)
LEMMA CsrSampled ==
  ASSUME NEW c, NEW irq, NEW write, NEW trap, NEW mret,
         DOMAIN c = CsrFields,
         ~write.en, ~trap.en, ~mret,
         NEW name \in CsrNames \ {"mip", "meipend"}
  PROVE  CsrRead(CsrNext(c, irq, write, trap, mret), name) = CsrRead(c, name)
<1>1. CsrNext(c, irq, write, trap, mret) = [c EXCEPT !.meipend = irq]
  BY DEF CsrNext
<1>2. CASE name = "mstatus"
  BY <1>1, <1>2 DEF CsrRead, MstatusRead, CsrFields
<1>3. CASE name # "mstatus"
  BY <1>1, <1>3 DEF CsrRead, CsrNames, CsrFields
<1> QED BY <1>2, <1>3

(* The CSR registers stay the same record of registers.                     *)
LEMMA CsrDomain ==
  ASSUME NEW c, NEW irq, NEW write, NEW trap, NEW mret, DOMAIN c = CsrFields
  PROVE  DOMAIN CsrNext(c, irq, write, trap, mret) = CsrFields
<1> DEFINE sampled == [c EXCEPT !.meipend = irq]
           written == IF write.en THEN CsrWrite(sampled, write.addr, write.data)
                                  ELSE sampled
<1>1. DOMAIN sampled = CsrFields
  OBVIOUS
<1> HIDE DEF sampled
<1>2. DOMAIN CsrWrite(sampled, write.addr, write.data) = DOMAIN sampled
  BY DEF CsrWrite
<1>3. DOMAIN written = CsrFields
  BY <1>1, <1>2
<1>4. CsrNext(c, irq, write, trap, mret) =
        CASE trap.en -> CsrTrap(written, c, trap)
          [] ~trap.en /\ mret -> CsrMret(written, c)
          [] OTHER -> written
  BY DEF CsrNext, sampled
<1> HIDE DEF written
<1>5. /\ DOMAIN CsrTrap(written, c, trap) = DOMAIN written
      /\ DOMAIN CsrMret(written, c) = DOMAIN written
  BY DEF CsrTrap, CsrMret
<1>6. CASE trap.en
  BY <1>3, <1>4, <1>5, <1>6
<1>7. CASE ~trap.en
  BY <1>3, <1>4, <1>5, <1>7
<1> QED BY <1>6, <1>7

-----------------------------------------------------------------------------
(* The inductive invariant of this proof.                                   *)
CInv ==
  /\ IInv
  /\ DOMAIN csr = CsrFields
  /\ id_ex.valid /\ id_ex.op.csr_read => id_ex.op.alu_op = "ADD"
  /\ CsrReadReturnsOld

LEMMA ResetCInv ==
  /\ Init => CInv
  /\ Reset => CInv'
<1>1. DOMAIN CsrReset = CsrFields
  BY DEF CsrReset, CsrFields, CsrNames
<1> QED
  BY <1>1, InitIInv, ResetIInv, ResetValues
     DEF Init, Reset, CInv, CsrReadReturnsOld

LEMMA ClockCInv ==
  ASSUME CInv, NEW imem_ready \in BOOLEAN, NEW dmem_ready \in BOOLEAN,
         NEW irq, Clock(imem_ready, dmem_ready, irq), IInv'
  PROVE  CInv'
<1> USE DEF CInv
<1>1. DOMAIN csr' = CsrFields
  <2>1. PICK stall \in BOOLEAN : CsrClock(stall, irq)
    BY DEF Clock, ClockMemStall, ClockRedirect, ClockAdvance, CommonClock
  <2> QED BY <2>1, CsrDomain DEF CsrClock
<1>2. id_ex'.valid /\ id_ex'.op.csr_read => id_ex'.op.alu_op = "ADD"
  <2>1. CASE ClockMemStall(imem_ready, dmem_ready, irq)
    BY <2>1 DEF ClockMemStall
  <2>2. CASE ClockRedirect(imem_ready, dmem_ready, irq)
    <3>1. ~m_stall
      BY <2>2 DEF ClockRedirect, ex_redirect, ExFire
    <3> QED BY <2>2, <3>1, IdExClock DEF ClockRedirect
  <2>3. CASE ClockAdvance(imem_ready, dmem_ready, irq)
    <3>1. id_ex' = id_ex \/ id_ex'.op = Decode(if_id.instr)
      BY <2>3, IdExClock DEF ClockAdvance
    <3> QED BY <3>1, CsrOpIsAdd
  <2> QED BY <2>1, <2>2, <2>3 DEF Clock
<1>3. CASE ~id_ex'.valid \/ ~id_ex'.op.csr_read
  BY <1>1, <1>2, <1>3 DEF CsrReadReturnsOld
<1>4. CASE id_ex'.valid /\ id_ex'.op.csr_read
  <2>1. ~UnitActive'
    BY <1>2, <1>4
       DEF IInv, UnitsServeEx, UnitActive, mul_is_op, div_is_op, ALU_MUL_OPS,
           ALU_DIV_OPS
  <2>2. /\ ClockAdvance(imem_ready, dmem_ready, irq)
        /\ ~m_stall /\ ~id_ex.valid
    BY <1>4, <2>1, EntersEx
  <2>3. id_ex'.csr_old = CsrRead(csr, id_ex'.op.csr_addr)
    BY <2>2, IdExClock DEF ClockAdvance
  <2>4. ~ex_csr_write(FALSE).en /\ ~ex_is_trap(FALSE)
    BY <2>2 DEF ex_csr_write, ex_is_trap, ExFire
  <2>5. CsrClock(FALSE, irq)
    BY <2>2 DEF ClockAdvance, CommonClock
  <2>6. ASSUME NEW name \in CsrNames \ {"mip", "meipend"}
        PROVE  CsrRead(csr', name) = CsrRead(csr, name)
    <3> DEFINE write == ex_csr_write(FALSE)
               trap  == [en |-> ex_is_trap(FALSE), epc |-> id_ex.pc,
                         cause |-> ex_trap.cause, tval |-> ex_trap.tval]
               mret  == id_ex.valid /\ ~FALSE /\ id_ex.op.is_mret
    <3>1. csr' = CsrNext(csr, irq, write, trap, mret)
      BY <2>5 DEF CsrClock
    <3>2. ~write.en /\ ~trap.en /\ ~mret
      BY <2>2, <2>4
    <3> HIDE DEF write, trap, mret
    <3> QED BY <3>1, <3>2, CsrSampled
  <2> QED BY <1>1, <1>2, <2>3, <2>6 DEF CsrReadReturnsOld
<1> QED BY <1>3, <1>4

(* "Old CSR value is written to rd": the value a CSR instruction read in ID *)
(* is that of its CSR when it executes, before its own write.               *)
THEOREM CsrReadsOld == Spec => []CsrReadReturnsOld
<1>1. Init => CInv
  BY ResetCInv
<1>2. CInv /\ [Next]_vars => CInv'
  <2> SUFFICES ASSUME CInv, [Next]_vars PROVE CInv'
    OBVIOUS
  <2>1. IInv'
    BY NextIInv DEF CInv
  <2>2. CASE Reset
    BY <2>2, ResetCInv
  <2>3. CASE \E imem_ready \in ImemReady, dmem_ready \in DmemReady,
                irq \in IrqInputs : Clock(imem_ready, dmem_ready, irq)
    BY <2>1, <2>3, ClockCInv, CoreAssumption
  <2>4. CASE UNCHANGED vars
    BY <2>1, <2>4 DEF CInv, vars, stageRegs, CsrReadReturnsOld
  <2> QED BY <2>2, <2>3, <2>4 DEF Next
<1>3. CInv => CsrReadReturnsOld
  BY DEF CInv
<1> QED BY <1>1, <1>2, <1>3, PTL DEF Spec
----------------------------------------------------------------------------
(* Words and the operations on them: results are words again.               *)

(* The numbers that need a word of 13 bits or more.                         *)
LEMMA WideWord ==
  ASSUME ByteBits >= 4
  PROVE  /\ 2^3 = 8 /\ 2^7 = 128 /\ 2^11 = 2048
         /\ 8192 <= 2^(XLEN - 1) /\ 16384 <= 2^XLEN
<1>1. 2^3 = 8 /\ 2^4 = 16
  BY PowSmall, PowStep, 2 + 1 = 3, 3 + 1 = 4
<1>2. 2^7 = 128
  BY <1>1, PowSum, 3 + 4 = 7
<1>3. 2^11 = 2048
  BY <1>1, <1>2, PowSum, 4 + 7 = 11
<1>4. 2^13 = 8192
  BY <1>3, PowSmall, PowSum, 2 + 11 = 13
<1>5. XLEN \in Nat /\ XLEN - 1 \in Nat /\ 13 <= XLEN - 1 /\ 2^XLEN = 2 * 2^(XLEN - 1)
      /\ 2^(XLEN - 1) \in Nat
  BY XlenPow, ByteBitsAssumption DEF XLEN
<1>6. 2^13 <= 2^(XLEN - 1)
  BY <1>5, PowOrder
<1> QED BY <1>1, <1>2, <1>3, <1>4, <1>5, <1>6

(* A value made smaller stays a word.                                       *)
LEMMA SmallerWord ==
  ASSUME NEW x \in Word, NEW d \in Nat \ {0}
  PROVE  x % d \in Word /\ x - (x % d) \in Word /\ x % d \in 0 .. d - 1
<1>1. x \in Int /\ 0 <= x /\ d \in Int /\ d > 0 /\ x <= 2^XLEN - 1 /\ 2^XLEN \in Int
  BY XlenPow
<1>2. PICK q \in Int, r \in Int :
        q = x \div d /\ r = x % d /\ 0 <= r /\ r <= d - 1 /\ x = d * q + r
  BY ONLY <1>1, Divided
<1>3. PICK p : p = d * q
  OBVIOUS
<1>4. q >= 0
  <2> SUFFICES ASSUME q <= -1 PROVE FALSE
    BY <1>2
  <2>1. d * q <= d * (-1)
    BY <1>1
  <2>2. PICK z : z = d * q
    OBVIOUS
  <2> QED BY ONLY <1>1, <1>2, <2>1, <2>2
<1>5. p >= 0 /\ p \in Int
  BY <1>1, <1>3, <1>4
<1>6. r <= x /\ x - r <= x /\ x - r >= 0
  BY <1>2, <1>3, <1>5
<1> QED BY <1>1, <1>2, <1>6, XlenPow

LEMMA DigitsWord ==
  ASSUME NEW x, NEW d0 \in Digit, NEW d1 \in Digit, NEW d2 \in Digit, NEW d3 \in Digit,
         Digits(x, d0, d1, d2, d3, 0)
  PROVE  x \in Word /\ d0 + Base * d1 \in Word /\ d2 + Base * d3 \in Word
<1> DEFINE Below(n, B) == n \in Int /\ 0 <= n /\ n <= B - 1
<1>1. ASSUME NEW B \in Int, B > 0, NEW y, Below(y, B), NEW d \in Digit
      PROVE  Below(Base * y + d, Base * B)
  <2>1. Base \in Int /\ Base > 1 /\ d \in Int /\ 0 <= d /\ d <= Base - 1
    BY BasePowers DEF Digit
  <2>2. Base * y >= 0 /\ Base * y \in Int
    BY <1>1, <2>1
  <2>3. Base * y <= Base * (B - 1)
    BY <1>1, <2>1
  <2>4. Base * (B - 1) = Base * B - Base /\ Base * B \in Int
    BY <1>1, <2>1
  <2> HIDE DEF Base
  <2> QED BY <2>1, <2>2, <2>3, <2>4
<1>2. PICK y1 \in Int, y2 \in Int, y3 \in Int :
        /\ x = Base * y1 + d0 /\ y1 = Base * y2 + d1
        /\ y2 = Base * y3 + d2 /\ y3 = Base * 0 + d3
  BY DEF Digits
<1>3. Base \in Int /\ Base > 0 /\ Base * Base \in Int /\ Base * Base > 0
      /\ Base * (Base * Base) \in Int /\ Base * (Base * Base) > 0
      /\ 2^XLEN = Base * (Base * (Base * Base))
  BY BasePowers
<1>4. Below(d3, Base) /\ Below(d1, Base) /\ y3 = d3
  BY <1>2, <1>3 DEF Digit
<1>5. Below(y2, Base * Base)
  BY <1>1, <1>2, <1>3, <1>4
<1>6. Below(y1, Base * (Base * Base))
  BY <1>1, <1>2, <1>3, <1>5
<1>7. Below(x, 2^XLEN)
  BY <1>1, <1>2, <1>3, <1>6
<1>8. Below(Base * d1 + d0, Base * Base) /\ Below(Base * d3 + d2, Base * Base)
  BY <1>1, <1>3, <1>4
<1>9. Base * Base <= 2^XLEN
  <2>1. PICK s : s = Base * Base
    OBVIOUS
  <2>2. Base * (Base * s) = s * s
    BY <1>3, <2>1
  <2>3. s * s >= s * 1
    BY <1>3, <2>1
  <2> QED BY <1>3, <2>1, <2>2, <2>3
<1>10. Word = 0 .. 2^XLEN - 1 /\ 2^XLEN \in Int
  BY XlenPow
<1>11. d0 + Base * d1 = Base * d1 + d0 /\ d2 + Base * d3 = Base * d3 + d2
  BY <1>3 DEF Digit
<1> QED BY <1>3, <1>7, <1>8, <1>9, <1>10, <1>11

(* What a load returns and a store leaves are words.                        *)
LEMMA LoadWord ==
  ASSUME NEW s, NEW u, NEW m \in 0 .. 3, NEW x \in Word
  PROVE  LsuLoadData(s, u, m, x) \in Word
<1>1. PICK d0 \in Digit, d1 \in Digit, d2 \in Digit, d3 \in Digit : Digits(x, d0, d1, d2, d3, 0)
  BY WordDigits
<1>2. ASSUME NEW y \in Word, NEW n \in Nat PROVE Extend(y, n, u) \in Word
  <2>1. y - 2^n \in Int
    BY <1>2, PowType, XlenPow
  <2> QED BY <1>2, <2>1, WrapIn DEF Extend
<1>3. {ByteBits, 2 * ByteBits} \subseteq Nat
  BY ByteBitsAssumption
<1>4. Digit \subseteq Word
  <2>1. ASSUME NEW d \in Digit PROVE d \in Word
    <3>1. 0 \in Digit /\ Base \in Int
      BY BasePowers DEF Digit
    <3>2. Digits(d + 0 * Base + 0 * (Base * Base) + 0 * (Base * (Base * Base)), d, 0, 0, 0, 0)
      BY <2>1, <3>1, DigitsSum
    <3>3. d + 0 * Base + 0 * (Base * Base) + 0 * (Base * (Base * Base)) = d
      BY <2>1, <3>1 DEF Digit
    <3> QED BY <2>1, <3>1, <3>2, <3>3, DigitsWord
  <2> QED BY <2>1
<1>5. Lane(x, m) \in Word
  <2>1. x \in Int
    BY XlenPow
  <2> QED BY <1>4, <2>1, LaneDigit
<1>6. Field(x, 4 * ByteBits - 1, 2 * ByteBits) \in Word /\ Field(x, 2 * ByteBits - 1, 0) \in Word
  <2>1. 0 \in Int
    OBVIOUS
  <2>2. /\ Field(x, 2 * ByteBits - 1, 0) = d0 + Base * d1
        /\ Field(x, 4 * ByteBits - 1, 2 * ByteBits) = d2 + Base * d3
    BY ONLY <1>1, <2>1, LanesOf
  <2> QED BY <1>1, <2>2, DigitsWord
<1>7. CASE s = 0
  BY <1>2, <1>3, <1>5, <1>7 DEF LsuLoadData
<1>8. CASE s = 1
  BY <1>2, <1>3, <1>6, <1>8 DEF LsuLoadData
<1>9. CASE s \notin {0, 1}
  BY <1>9 DEF LsuLoadData
<1> QED BY <1>7, <1>8, <1>9

LEMMA MergeWord ==
  ASSUME NEW x \in Word, NEW w \in Int, NEW S
  PROVE  MergeLanes(x, w, S) \in Word
<1> DEFINE d(k) == Lane(IF k \in S THEN w ELSE x, k)
<1>1. d(0) \in Digit /\ d(1) \in Digit /\ d(2) \in Digit /\ d(3) \in Digit
  <2>1. x \in Int
    BY XlenPow
  <2> QED BY <2>1, LaneDigit
<1>2. MergeLanes(x, w, S) = d(0) * 2^(ByteBits * 0) + d(1) * 2^(ByteBits * 1)
                            + d(2) * 2^(ByteBits * 2) + d(3) * 2^(ByteBits * 3)
  BY DEF MergeLanes
<1> HIDE DEF d
<1>3. d(0) \in Int
  BY <1>1, BasePowers DEF Digit
<1>4. MergeLanes(x, w, S) = d(0) + d(1) * Base + d(2) * (Base * Base) + d(3) * (Base * (Base * Base))
  BY <1>2, <1>3, Shifts
<1> QED BY <1>1, <1>4, DigitsSum, DigitsWord

LEMMA StoreInt ==
  ASSUME NEW v \in Word, NEW s, NEW m \in 0 .. 3
  PROVE  LsuWriteData(s, m, v) \in Int
<1>1. CASE s \in {0, 1}
  BY <1>1, WriteDataInt
<1>2. CASE s \notin {0, 1}
  BY <1>2, XlenPow DEF LsuWriteData
<1> QED BY <1>1, <1>2

LEMMA AluWord ==
  ASSUME NEW op, NEW x \in Word, NEW y \in Word
  PROVE  AluResult(op, x, y) \in Word
<1>1. x \in Int /\ y \in Int /\ {0, 1} \subseteq Word /\ Signed(x) \in Int
  BY XlenPow, SignedIs
<1>2. XLEN \in Nat \ {0}
  BY XlenPow
<1>3. PICK n \in Nat : n = y % XLEN
  BY <1>1, <1>2
<1>4. 2^n \in Nat \ {0}
  BY PowType
<1>5. Wrap(x + y) \in Word /\ Wrap(x - y) \in Word /\ Wrap(x * 2^n) \in Word
  BY <1>1, <1>4, WrapIn
<1>6. Signed(x) \div 2^n \in Int
  BY <1>1, <1>4
<1>7. Wrap(Signed(x) \div 2^n) \in Word
  BY <1>6, WrapIn
<1>8. x \div 2^n \in Word
  BY ShiftDown
<1>9. BitXor(x, y) \in Word /\ BitOr(x, y) \in Word /\ BitAnd(x, y) \in Word
  BY BitwiseIs
<1> QED BY <1>1, <1>3, <1>5, <1>7, <1>8, <1>9 DEF AluResult, Shamt
----------------------------------------------------------------------------
(* The CSR file and the divider hold words.                                 *)

(* The CSR file holds words, and a read of it returns one.                  *)
LEMMA CsrReadWord ==
  ASSUME ByteBits >= 4, NEW c \in CsrType, NEW a
  PROVE  CsrRead(c, a) \in Word
<1>1. 2^3 = 8 /\ 2^7 = 128 /\ 2^11 = 2048 /\ 16384 <= 2^XLEN /\ 2^XLEN \in Int
      /\ Word = 0 .. 2^XLEN - 1
  BY WideWord, XlenPow
<1>2. c.mstatus_mpp \in 0 .. 3 /\ c.mstatus_mpie \in {0, 1} /\ c.mstatus_mie \in {0, 1}
  BY DEF CsrType
<1>3. MstatusRead(c) = c.mstatus_mpp * 2048 + c.mstatus_mpie * 128 + c.mstatus_mie * 8
  BY <1>1 DEF MstatusRead, MSTATUS_MPIE_BIT, MSTATUS_MIE_BIT
<1>4. MstatusRead(c) \in Word
  <2>1. PICK p \in Int, e \in Int, m \in Int :
          /\ p = c.mstatus_mpp /\ e = c.mstatus_mpie /\ m = c.mstatus_mie
          /\ 0 <= p /\ p <= 3 /\ 0 <= e /\ e <= 1 /\ 0 <= m /\ m <= 1
    BY <1>2
  <2>2. PICK s \in Int : s = p * 2048 + e * 128 + m * 8 /\ 0 <= s /\ s <= 6280
    BY ONLY <2>1
  <2>3. MstatusRead(c) = s
    BY ONLY <1>3, <2>1, <2>2
  <2> QED BY ONLY <1>1, <2>2, <2>3
<1>5. 2^MIP_MEIP_BIT \in Word /\ 0 \in Word
  BY <1>1 DEF MIP_MEIP_BIT
<1>6. ASSUME NEW n \in CsrNames \ {"mstatus", "mip"} PROVE c[n] \in Word
  BY <1>6 DEF CsrNames, CsrType
<1> QED BY <1>4, <1>5, <1>6 DEF CsrRead

LEMMA BitIs ==
  ASSUME NEW x \in Word, NEW i \in Nat PROVE Bit(x, i) \in {0, 1}
<1>1. x \div 2^i \in Int
  BY ShiftDown, XlenPow
<1>2. PICK y \in Int : y = x \div 2^i
  BY <1>1
<1> QED BY <1>2 DEF Bit

LEMMA CsrWriteTyped ==
  ASSUME ByteBits >= 4, NEW c \in CsrType, NEW a, NEW w \in Word
  PROVE  CsrWrite(c, a, w) \in CsrType
<1>1. 2^11 = 2048 /\ 16384 <= 2^XLEN /\ 2^XLEN \in Int /\ Word = 0 .. 2^XLEN - 1
  BY WideWord, XlenPow
<1>2. Bit(w, 3) \in {0, 1} /\ Bit(w, 7) \in {0, 1} /\ Bit(w, 11) \in {0, 1}
  BY BitIs
<1>3. Field(w, 12, 11) \in 0 .. 3
  <2>1. PICK y \in Int : y = w \div 2^11
    BY ShiftDown, XlenPow
  <2>2. 12 - 11 + 1 = 2 /\ 2^2 = 4
    BY PowSmall
  <2>3. Field(w, 12, 11) = y % 4
    BY <2>1, <2>2 DEF Field
  <2> QED BY <2>1, <2>3
<1>4. Bit(w, 11) * 2^11 \in Word
  <2>1. PICK b \in {0, 1} : b = Bit(w, 11)
    BY <1>2
  <2>2. b * 2048 \in Word
    BY <1>1
  <2> QED BY <1>1, <2>1, <2>2
<1>5. w - (w % 4) \in Word
  BY SmallerWord
<1>6. w % 2^NumExtInterrupts \in Word
  <2>1. NumExtInterrupts \in Nat
    BY NumExtInterruptsAssumption, XlenPow
  <2>2. PICK d \in Nat \ {0} : d = 2^NumExtInterrupts
    BY <2>1, PowType
  <2> QED BY <2>2, SmallerWord
<1>7. CASE a = "mstatus"
  BY <1>2, <1>3, <1>7 DEF CsrWrite, CsrType, MSTATUS_MIE_BIT, MSTATUS_MPIE_BIT
<1>8. CASE a = "mie"
  BY <1>4, <1>8 DEF CsrWrite, CsrType, MIE_MEIE_BIT
<1>9. CASE a = "mepc"
  BY <1>5, <1>9 DEF CsrWrite, CsrType
<1>10. CASE a = "meimask"
  BY <1>6, <1>10 DEF CsrWrite, CsrType
<1>11. CASE a \in {"mtvec", "mscratch", "mcause", "mtval"}
  <2>1. CsrWrite(c, a, w) = [c EXCEPT ![a] = w]
    BY <1>11 DEF CsrWrite
  <2> QED BY <1>11, <2>1 DEF CsrType
<1>12. CASE a \notin {"mstatus", "mie", "mepc", "meimask", "mtvec", "mscratch", "mcause", "mtval"}
  BY <1>12 DEF CsrWrite
<1> QED BY <1>7, <1>8, <1>9, <1>10, <1>11, <1>12

LEMMA CsrNextTyped ==
  ASSUME ByteBits >= 4, NEW c \in CsrType, NEW irq \in Word,
         NEW write, write.en => write.data \in Word,
         NEW trap, trap.epc \in Word, trap.cause \in Word, trap.tval \in Word, NEW mret
  PROVE  CsrNext(c, irq, write, trap, mret) \in CsrType
<1> DEFINE sampled == [c EXCEPT !.meipend = irq]
           written == IF write.en THEN CsrWrite(sampled, write.addr, write.data)
                                  ELSE sampled
<1>1. sampled \in CsrType
  BY DEF CsrType
<1> HIDE DEF sampled
<1>2. written \in CsrType
  BY <1>1, CsrWriteTyped
<1>3. CsrNext(c, irq, write, trap, mret) =
        CASE trap.en -> CsrTrap(written, c, trap)
          [] ~trap.en /\ mret -> CsrMret(written, c)
          [] OTHER -> written
  BY DEF CsrNext, sampled
<1> HIDE DEF written
<1>4. CsrTrap(written, c, trap) \in CsrType /\ CsrMret(written, c) \in CsrType
  <2>1. PICK epc \in Word, cause \in Word, tval \in Word :
          epc = trap.epc /\ cause = trap.cause /\ tval = trap.tval
    OBVIOUS
  <2>2. CsrTrap(written, c, trap) =
          [written EXCEPT !.mepc = epc, !.mcause = cause, !.mtval = tval,
                          !.mstatus_mpie = c.mstatus_mie, !.mstatus_mie = 0, !.mstatus_mpp = 3]
    BY <2>1 DEF CsrTrap
  <2>3. c.mstatus_mie \in {0, 1} /\ c.mstatus_mpie \in {0, 1}
    BY DEF CsrType
  <2>4. PICK w1 : w1 = [written EXCEPT !.mepc = epc, !.mcause = cause, !.mtval = tval]
    OBVIOUS
  <2>5. w1 \in CsrType
    BY ONLY <1>2, <2>1, <2>4 DEF CsrType
  <2>10. PICK p \in {0, 1}, q \in {0, 1} : p = c.mstatus_mie /\ q = c.mstatus_mpie
    BY <2>3
  <2>11. 0 \in {0, 1} /\ 0 \in 0 .. 3 /\ 3 \in 0 .. 3
    OBVIOUS
  <2>6. CsrTrap(written, c, trap) =
          [w1 EXCEPT !.mstatus_mpie = p, !.mstatus_mie = 0, !.mstatus_mpp = 3]
    BY ONLY <2>2, <2>4, <2>10
  <2>7. CsrTrap(written, c, trap) \in CsrType
    BY ONLY <2>10, <2>11, <2>5, <2>6 DEF CsrType
  <2>8. CsrMret(written, c) = [written EXCEPT !.mstatus_mie = q,
                                              !.mstatus_mpie = 0, !.mstatus_mpp = 0]
    BY <2>10 DEF CsrMret
  <2>9. CsrMret(written, c) \in CsrType
    BY ONLY <1>2, <2>10, <2>11, <2>8 DEF CsrType
  <2> QED BY <2>7, <2>9
<1>5. CASE trap.en
  BY <1>3, <1>4, <1>5
<1>6. CASE ~trap.en
  BY <1>2, <1>3, <1>4, <1>6
<1> QED BY <1>5, <1>6

(* The divider's result is a word in every state.                           *)
LEMMA DivResultWord ==
  ASSUME NEW op, NEW a \in Word, NEW b \in Word
  PROVE  Wrap(DivResult(op, a, b)) \in Word
<1>1. CASE b = 0
  BY <1>1, DivByZero, XlenPow
<1>2. CASE b # 0
  <2>1. Value(op, a) \in Int /\ Value(op, b) \in Int /\ Value(op, b) # 0
    BY <1>2, MagnitudeIs
  <2>2. Divide(Value(op, a), Value(op, b)) \in Int /\ Remainder(Value(op, a), Value(op, b)) \in Int
    BY <2>1, DivideIs
  <2> QED BY <2>2, WrapIn DEF DivResult
<1> QED BY <1>1, <1>2

LEMMA DivResultChanges ==
  ASSUME NEW u \in DivRegs, NEW start, NEW op, NEW x, NEW y, NEW stall \in BOOLEAN,
         NEW n, n = DivNext(u, start, op, x, y, stall)
  PROVE  n.result = u.result \/ n.done
<1> DEFINE held == [u EXCEPT !.done = u.done /\ stall]
<1>1. held \in DivRegs /\ held.result = u.result
  BY DEF DivRegs
<1>2. n = CASE start -> DivStart(held, op, x, y)
            [] ~start /\ u.busy -> DivStep(held)
            [] OTHER -> held
  BY DEF DivNext
<1> HIDE DEF held
<1>3. LET s == DivStart(held, op, x, y) IN s.result = held.result \/ s.done
  BY <1>1 DEF DivStart, DivRegs
<1>4. LET s == DivStep(held) IN s.result = held.result \/ s.done
  <2>1. PICK last : last = (held.count = XLEN - 1)
    OBVIOUS
  <2>2. CASE last
    BY <1>1, <2>1, <2>2 DEF DivStep, DivRegs
  <2>3. CASE ~last
    BY <1>1, <2>1, <2>3 DEF DivStep, DivRegs
  <2> QED BY <2>1, <2>2, <2>3
<1>5. CASE start
  BY <1>1, <1>2, <1>3, <1>5
<1>6. CASE ~start /\ u.busy
  BY <1>1, <1>2, <1>4, <1>6
<1>7. CASE ~start /\ ~u.busy
  BY <1>1, <1>2, <1>7
<1> QED BY <1>5, <1>6, <1>7
----------------------------------------------------------------------------
(* The data invariant: DInv says of every register what is in it.           *)

InstrAt(pc) == imem[(pc \div 4) % ImemWords]
IsControl(op) == \E i : IsInstruction(i) /\ op = Decode(i)

(* What is stored, and what each stage carries: words, and the instruction  *)
(* at the address that travels with it.                                     *)
Stored ==
  /\ imem \in Programs /\ regs \in [Reg -> Word]
  /\ dmem \in [0 .. DmemWords - 1 -> Word] /\ csr \in CsrType
FrontData ==
  /\ pc_f \in Word
  /\ if_buf.pc \in Word /\ IsInstruction(if_buf.instr)
  /\ if_id.pc \in Word /\ IsInstruction(if_id.instr)
  /\ if_buf.valid => if_buf.instr = InstrAt(if_buf.pc)
  /\ if_id.valid => if_id.instr = InstrAt(if_id.pc)
ExData ==
  /\ {id_ex.pc, id_ex.imm, id_ex.rs1_data, id_ex.rs2_data, id_ex.csr_old} \subseteq Word
  /\ IsControl(id_ex.op)
  /\ id_ex.valid => /\ id_ex.op = Decode(InstrAt(id_ex.pc))
                    /\ id_ex.imm = InstrAt(id_ex.pc).imm
MemData ==
  /\ {ex_mem.pc4, ex_mem.alu_result, ex_mem.store_data, ex_mem.csr_old} \subseteq Word
  /\ IsControl(ex_mem.op)
WbData ==
  /\ {mem_wb.pc4, mem_wb.alu_result, mem_wb.load_data, mem_wb.csr_old} \subseteq Word
  /\ IsControl(mem_wb.op)
UnitsOk(a, b) ==
  MulOk(mul, id_ex.op.alu_op, a, b) /\ DivOk(div, id_ex.op.alu_op, a, b)
UnitData == div.result \in Word /\ \E a \in Word, b \in Word : UnitsOk(a, b)

DInv == IInv /\ Stored /\ FrontData /\ ExData /\ MemData /\ WbData /\ UnitData

-----------------------------------------------------------------------------
LEMMA NopInstr == IsInstruction(Nop) /\ IsControl(Decode(Nop))
<1>1. 0 \in Word /\ 0 \in 0 .. 7 /\ 0 \in 0 .. 127 /\ 0 \in 0 .. 31
  BY XlenPow
<1>2. IsInstruction(Nop)
  BY <1>1 DEF Nop, IsInstruction
<1> QED BY <1>2 DEF IsControl

LEMMA UnitsRest ==
  ASSUME NEW u \in MulRegs, ~u.busy, ~u.done, NEW w \in DivRegs, ~w.busy, ~w.done,
         NEW op, NEW a, NEW b
  PROVE  MulOk(u, op, a, b) /\ DivOk(w, op, a, b)
BY DEF MulOk, DivOk

LEMMA IdleRegs ==
  /\ MulIdle \in MulRegs /\ ~MulIdle.busy /\ ~MulIdle.done
  /\ DivIdle \in DivRegs /\ ~DivIdle.busy /\ ~DivIdle.done /\ DivIdle.result \in Word
<1>1. 0 \in Word /\ 0 \in 0 .. XLEN - 1
  BY XlenPow, XlenPositive
<1>2. "MUL" \in ALU_MUL_OPS /\ "DIVU" \in ALU_DIV_OPS
  BY DEF ALU_MUL_OPS, ALU_DIV_OPS
<1>3. MulIdle \in MulRegs /\ ~MulIdle.busy /\ ~MulIdle.done
  BY <1>2 DEF MulIdle, MulRegs
<1>4. DivIdle \in DivRegs
  BY <1>1, <1>2 DEF DivIdle, DivRegs
<1>5. ~DivIdle.busy /\ ~DivIdle.done /\ DivIdle.result \in Word
  BY <1>1 DEF DivIdle
<1> QED BY <1>3, <1>4, <1>5

LEMMA ResetCsr == CsrReset \in CsrType
<1>1. 0 \in Word /\ 0 \in {0, 1} /\ 0 \in 0 .. 3
  BY XlenPow
<1> QED BY <1>1 DEF CsrReset, CsrType

LEMMA ResetData ==
  /\ {IfIdReset.pc, IdExReset.pc, IdExReset.imm, IdExReset.rs1_data, IdExReset.rs2_data,
      IdExReset.csr_old, ExMemReset.pc4, ExMemReset.alu_result, ExMemReset.store_data,
      ExMemReset.csr_old, MemWbReset.pc4, MemWbReset.alu_result, MemWbReset.load_data,
      MemWbReset.csr_old} \subseteq Word
  /\ IsInstruction(IfIdReset.instr)
  /\ IsControl(IdExReset.op) /\ IsControl(ExMemReset.op) /\ IsControl(MemWbReset.op)
  /\ [r \in Reg |-> 0] \in [Reg -> Word] /\ RESET_PC \in Word
<1>1. 0 \in Word
  BY XlenPow
<1>2. PICK n, d : n = Nop /\ d = Decode(Nop) /\ IsInstruction(n) /\ IsControl(d)
  BY NopInstr
<1>3. IfIdReset = [valid |-> FALSE, instr |-> n, pc |-> 0]
  BY <1>2 DEF IfIdReset
<1>4. IdExReset.op = d /\ IdExReset.pc = 0 /\ IdExReset.imm = 0 /\ IdExReset.rs1_data = 0
      /\ IdExReset.rs2_data = 0 /\ IdExReset.csr_old = 0
  BY <1>2 DEF IdExReset
<1>5. ExMemReset.op = d /\ ExMemReset.pc4 = 0 /\ ExMemReset.alu_result = 0
      /\ ExMemReset.store_data = 0 /\ ExMemReset.csr_old = 0
  BY <1>2 DEF ExMemReset
<1>6. MemWbReset.op = d /\ MemWbReset.pc4 = 0 /\ MemWbReset.alu_result = 0
      /\ MemWbReset.load_data = 0 /\ MemWbReset.csr_old = 0
  BY <1>2 DEF MemWbReset
<1>7. [r \in Reg |-> 0] \in [Reg -> Word] /\ RESET_PC \in Word
  BY <1>1, CoreAssumption
<1> QED BY <1>1, <1>2, <1>3, <1>4, <1>5, <1>6, <1>7

LEMMA ResetUnits ==
  ASSUME mul = MulIdle, div = DivIdle PROVE UnitData
<1>1. 0 \in Word
  BY XlenPow
<1>2. UnitsOk(0, 0)
  BY IdleRegs, UnitsRest DEF UnitsOk
<1> QED BY <1>1, <1>2, IdleRegs DEF UnitData

LEMMA InitDInv == Init => DInv
<1> SUFFICES ASSUME Init PROVE DInv
  OBVIOUS
<1>1. IInv
  BY InitIInv
<1>2. Stored
  BY ResetCsr, ResetData, CoreAssumption DEF Init, Stored
<1>3. FrontData
  BY ResetData, ResetValues DEF Init, FrontData
<1>4. ExData /\ MemData /\ WbData
  BY ResetData, ResetValues DEF Init, ExData, MemData, WbData
<1>5. UnitData
  BY ResetUnits DEF Init
<1> QED BY <1>1, <1>2, <1>3, <1>4, <1>5 DEF DInv

LEMMA ResetDInv == DInv /\ Reset => DInv'
<1> SUFFICES ASSUME DInv, Reset PROVE DInv'
  OBVIOUS
<1>1. IInv'
  BY ResetIInv
<1>2. Stored'
  BY ResetCsr, ResetData DEF Reset, Stored, DInv
<1>3. FrontData'
  BY ResetData, ResetValues DEF Reset, FrontData
<1>4. ExData' /\ MemData' /\ WbData'
  BY ResetData, ResetValues DEF Reset, ExData, MemData, WbData
<1>5. UnitData'
  <2>1. 0 \in Word /\ mul' = MulIdle /\ div' = DivIdle
    BY XlenPow DEF Reset
  <2>2. UnitsOk(0, 0)'
    BY <2>1, IdleRegs, UnitsRest DEF UnitsOk
  <2> QED BY <2>1, <2>2, IdleRegs DEF UnitData
<1> QED BY <1>1, <1>2, <1>3, <1>4, <1>5 DEF DInv

-----------------------------------------------------------------------------
(* The values the combinational logic computes.                             *)
LEMMA InstrTyped ==
  ASSUME Stored, NEW p \in Word PROVE IsInstruction(InstrAt(p))
<1>1. \A n \in 0 .. ImemWords - 1 : IsInstruction(imem[n])
  BY ProgramAssumption DEF Stored
<1>2. ImemWords \in Nat \ {0} /\ p \in Int
  BY CoreAssumption, XlenPow
<1>3. (p \div 4) % ImemWords \in 0 .. ImemWords - 1
  <2>1. PICK q \in Int : q = p \div 4
    BY <1>2
  <2> QED BY <1>2, <2>1
<1> QED BY <1>1, <1>3 DEF InstrAt

LEMMA WbWord == ASSUME WbData PROVE wb_data \in Word
BY DEF WbData, wb_data

LEMMA ReadWord ==
  ASSUME Stored, WbData, NEW r PROVE RegRead(r) \in Word
<1>1. 0 \in Word
  BY XlenPow
<1> QED BY <1>1, WbWord DEF RegRead, Stored

LEMMA OperandWords ==
  ASSUME ExData, MemData, WbData
  PROVE  {ex_forward_a_data, ex_forward_b_data, ex_alu_src_a, ex_alu_src_b} \subseteq Word
<1>1. ex_mem_forward_data \in Word
  BY DEF MemData, ex_mem_forward_data
<1>2. ASSUME NEW s, NEW c \in Word PROVE Forwarded(s, c) \in Word
  BY <1>1, <1>2, WbWord DEF Forwarded
<1>3. ex_forward_a_data \in Word /\ ex_forward_b_data \in Word
  BY <1>2 DEF ExData, ex_forward_a_data, ex_forward_b_data
<1> QED BY <1>3 DEF ExData, ex_alu_src_a, ex_alu_src_b

LEMMA ResultWord ==
  ASSUME ExData, MemData, WbData, UnitData PROVE ex_alu_result \in Word
<1>1. AluResult(id_ex.op.alu_op, ex_alu_src_a, ex_alu_src_b) \in Word
  BY OperandWords, AluWord
<1>2. MulResult(mul) \in Word
  <2>1. PICK p \in Int : p = mul.product
    BY DEF UnitData, UnitsOk, MulOk, MulRegs
  <2>2. p \div 2^XLEN \in Int
    BY XlenPow
  <2> QED BY <2>1, <2>2, WrapIn DEF MulResult
<1> QED BY <1>1, <1>2 DEF ex_alu_result, UnitData

LEMMA TargetWord ==
  ASSUME Stored, ExData, MemData, WbData PROVE ex_redirect_target \in Word
<1>1. csr.mtvec \in Word /\ csr.mepc \in Word
  BY DEF Stored, CsrType
<1>2. ex_forward_a_data \in Int /\ id_ex.imm \in Int /\ id_ex.pc \in Int
  BY OperandWords, XlenPow DEF ExData
<1>3. Wrap(ex_forward_a_data + id_ex.imm) \in Word /\ Wrap(id_ex.pc + id_ex.imm) \in Word
  BY <1>2, WrapIn
<1>4. PICK t : t = Wrap(ex_forward_a_data + id_ex.imm)
  OBVIOUS
<1>5. t - (t % 2) \in Word /\ csr.mtvec - (csr.mtvec % 4) \in Word
  <2>1. 2 \in Nat \ {0} /\ 4 \in Nat \ {0}
    OBVIOUS
  <2> QED BY <1>1, <1>3, <1>4, <2>1, SmallerWord
<1> QED BY <1>1, <1>3, <1>4, <1>5 DEF ex_redirect_target

LEMMA TrapWords ==
  ASSUME ByteBits >= 4, ExData, MemData, WbData, UnitData
  PROVE  ex_trap.cause \in Word /\ ex_trap.tval \in Word
<1>1. /\ {0, CAUSE_BREAKPOINT, CAUSE_LOAD_MISALIGNED, CAUSE_LOAD_ACCESS, CAUSE_STORE_MISALIGNED,
          CAUSE_STORE_ACCESS, CAUSE_ECALL_M} \subseteq Word
      /\ CAUSE_MACHINE_EXTERNAL_INTERRUPT \in Word
  BY WideWord, XlenPow
     DEF CAUSE_BREAKPOINT, CAUSE_LOAD_MISALIGNED, CAUSE_LOAD_ACCESS, CAUSE_STORE_MISALIGNED,
         CAUSE_STORE_ACCESS, CAUSE_ECALL_M, CAUSE_MACHINE_EXTERNAL_INTERRUPT
<1>2. ex_alu_result \in Word /\ id_ex.pc \in Word
  BY ResultWord DEF ExData
<1>3. \E c \in Word, v \in Word : ex_trap = [cause |-> c, tval |-> v]
  <2> HIDE DEF CAUSE_BREAKPOINT
  <2> QED BY <1>1, <1>2 DEF ex_trap, NoTrap
<1> QED BY <1>3

LEMMA CsrSourceWord ==
  ASSUME ByteBits >= 4, ExData, MemData, WbData, NEW stall
  PROVE  ex_csr_write(stall).data \in Word
<1>1. id_ex.op.rs1 \in Word
  <2>1. PICK i : IsInstruction(i) /\ id_ex.op = Decode(i)
    BY DEF ExData, IsControl
  <2>2. Decode(i).rs1 = i.rs1
    BY DEF Decode, NoControl, SystemControl
  <2>3. i.rs1 \in 0 .. 31
    BY <2>1 DEF IsInstruction
  <2>4. 0 .. 31 \subseteq Word
    BY WideWord, XlenPow
  <2> QED BY <2>1, <2>2, <2>3, <2>4
<1>2. PICK src \in Word :
        src = IF id_ex.op.funct3 < 4 THEN ex_forward_a_data ELSE id_ex.op.rs1
  BY <1>1, OperandWords
<1>3. PICK old \in Word : old = id_ex.csr_old
  BY DEF ExData
<1>4. BitOr(old, src) \in Word
  BY BitwiseIs
<1>5. BitNot(src) \in Word
  BY XlenPow DEF BitNot
<1>6. BitAnd(old, BitNot(src)) \in Word
  BY <1>5, BitwiseIs
<1>7. ex_csr_write(stall).data =
        CASE id_ex.op.funct3 % 4 = 1 -> src
          [] id_ex.op.funct3 % 4 = 2 -> BitOr(old, src)
          [] OTHER -> BitAnd(old, BitNot(src))
  BY <1>2, <1>3 DEF ex_csr_write
<1> QED BY <1>4, <1>6, <1>7

LEMMA MemoryValues ==
  ASSUME Stored, MemData
  PROVE  /\ dmem_index \in 0 .. DmemWords - 1 /\ dmem_addr % 4 \in 0 .. 3
         /\ dmem_read_data \in Word /\ mem_load_data \in Word
         /\ DmemAfterWrite \in [0 .. DmemWords - 1 -> Word]
<1>1. dmem_addr \in Int /\ DmemWords \in Nat \ {0}
  BY XlenPow, CoreAssumption DEF MemData, dmem_addr
<1>2. dmem_index \in 0 .. DmemWords - 1
  <2>1. PICK q \in Int : q = dmem_addr \div 4
    BY <1>1
  <2> QED BY <1>1, <2>1 DEF dmem_index
<1>3. dmem_addr % 4 \in 0 .. 3
  BY <1>1
<1>4. dmem_read_data \in Word
  BY <1>2 DEF Stored, dmem_read_data
<1>5. mem_load_data \in Word
  BY <1>3, <1>4, LoadWord DEF mem_load_data
<1>6. dmem_write_data \in Int
  <2>1. ex_mem.store_data \in Word
    BY DEF MemData
  <2> QED BY <1>3, <2>1, StoreInt DEF dmem_write_data
<1>7. DmemAfterWrite \in [0 .. DmemWords - 1 -> Word]
  <2>1. dmem[dmem_index] \in Word /\ dmem \in [0 .. DmemWords - 1 -> Word]
    BY <1>2 DEF Stored
  <2>2. MergeLanes(dmem[dmem_index], dmem_write_data, dmem_wstrb) \in Word
    BY <1>6, <2>1, MergeWord
  <2> QED BY <2>1, <2>2 DEF DmemAfterWrite
<1> QED BY <1>2, <1>3, <1>4, <1>5, <1>7
----------------------------------------------------------------------------
(* Its steps: the units, what is stored, and the stages up to ID.            *)

(* The units work on one pair of words, those captured when they started.   *)
LEMMA StartRests ==
  ASSUME IInv, NEW stall, mul_start(stall) \/ div_start(stall)
  PROVE  ~mul.busy /\ ~mul.done /\ ~div.busy /\ ~div.done
BY DEF IInv, UnitsServeEx, mul_start, div_start, MulStart, DivStartNow, mul_is_op, div_is_op,
       ALU_MUL_OPS, ALU_DIV_OPS

LEMMA UnitsMove ==
  ASSUME IInv, NEW a0 \in Word, NEW b0 \in Word, UnitsOk(a0, b0), NEW stall \in BOOLEAN,
         ex_alu_src_a \in Word, ex_alu_src_b \in Word,
         mul' = MulNext(mul, mul_start(stall), id_ex.op.alu_op, ex_alu_src_a,
                        ex_alu_src_b, stall),
         div' = DivNext(div, div_start(stall), id_ex.op.alu_op, ex_alu_src_a,
                        ex_alu_src_b, stall),
         NEW a, NEW b,
         a = IF mul_start(stall) \/ div_start(stall) THEN ex_alu_src_a ELSE a0,
         b = IF mul_start(stall) \/ div_start(stall) THEN ex_alu_src_b ELSE b0,
         id_ex.valid
  PROVE  MulOk(mul', id_ex.op.alu_op, a, b) /\ DivOk(div', id_ex.op.alu_op, a, b)
<1>1. a \in Word /\ b \in Word
  OBVIOUS
<1>2. PICK op : op = id_ex.op.alu_op
  OBVIOUS
<1>3. id_ex.valid = TRUE
  BY DEF IInv, Shapes
<1>4. MulOk(mul, op, a0, b0) /\ DivOk(div, op, a0, b0)
  BY <1>2 DEF UnitsOk
<1>5. mul \in MulRegs /\ div \in DivRegs
  BY <1>4 DEF MulOk, DivOk
<1>6. MulOk(mul, op, a, b) /\ DivOk(div, op, a, b)
  <2>1. CASE mul_start(stall) \/ div_start(stall)
    BY <1>5, <2>1, StartRests, UnitsRest
  <2>2. CASE ~(mul_start(stall) \/ div_start(stall))
    BY <1>4, <2>2
  <2> QED BY <2>1, <2>2
<1>7. PICK ms : ms = mul_start(stall)
  OBVIOUS
<1>8. PICK ds : ds = div_start(stall)
  OBVIOUS
<1>9. ms = MulStart(TRUE, op, mul, stall) /\ ds = DivStartNow(TRUE, op, div, stall)
  BY <1>2, <1>3, <1>7, <1>8 DEF mul_start, div_start
<1>10. (ms \/ ds) => ex_alu_src_a = a /\ ex_alu_src_b = b
  BY <1>7, <1>8
<1>11. MulOk(mul', op, a, b)
  <2>1. mul' = MulNext(mul, ms, op, ex_alu_src_a, ex_alu_src_b, stall)
    BY <1>2, <1>7
  <2> QED BY ONLY <1>1, <1>6, <1>9, <1>10, <2>1, stall \in BOOLEAN, MulEdge
<1>12. DivOk(div', op, a, b)
  <2>1. div' = DivNext(div, ds, op, ex_alu_src_a, ex_alu_src_b, stall)
    BY <1>2, <1>8
  <2> QED BY ONLY <1>1, <1>6, <1>9, <1>10, <2>1, stall \in BOOLEAN, DivEdge
<1> QED BY <1>2, <1>11, <1>12

LEMMA UnitsIdleMove ==
  ASSUME IInv, ~id_ex.valid, NEW a0 \in Word, NEW b0 \in Word, UnitsOk(a0, b0),
         NEW stall \in BOOLEAN,
         mul' = MulNext(mul, mul_start(stall), id_ex.op.alu_op, ex_alu_src_a,
                        ex_alu_src_b, stall),
         div' = DivNext(div, div_start(stall), id_ex.op.alu_op, ex_alu_src_a,
                        ex_alu_src_b, stall)
  PROVE  mul' \in MulRegs /\ div' \in DivRegs /\ div'.result = div.result
<1>1. mul \in MulRegs /\ div \in DivRegs
  BY DEF UnitsOk, MulOk, DivOk
<1>2. ~mul.busy /\ ~div.busy
  BY DEF IInv, UnitsServeEx
<1>3. mul_start(stall) = FALSE /\ div_start(stall) = FALSE
  BY DEF mul_start, div_start, MulStart, DivStartNow
<1>4. mul' = [mul EXCEPT !.done = mul.done /\ stall]
  BY <1>2, <1>3 DEF MulNext
<1>5. div' = [div EXCEPT !.done = div.done /\ stall]
  BY <1>2, <1>3 DEF DivNext
<1>6. (mul.done /\ stall) \in BOOLEAN /\ (div.done /\ stall) \in BOOLEAN
  OBVIOUS
<1> QED BY <1>1, <1>4, <1>5, <1>6 DEF MulRegs, DivRegs

LEMMA UnitsData ==
  ASSUME IInv, ExData, MemData, WbData, UnitData, NEW stall \in BOOLEAN, stall => ~id_ex.valid,
         mul' = MulNext(mul, mul_start(stall), id_ex.op.alu_op, ex_alu_src_a,
                        ex_alu_src_b, stall),
         div' = DivNext(div, div_start(stall), id_ex.op.alu_op, ex_alu_src_a,
                        ex_alu_src_b, stall),
         m_stall => id_ex' = id_ex
  PROVE  UnitData'
<1>1. PICK a0 \in Word, b0 \in Word : UnitsOk(a0, b0)
  BY DEF UnitData
<1>2. ex_alu_src_a \in Word /\ ex_alu_src_b \in Word
  BY OperandWords
<1>3. /\ mul'.busy \/ mul'.done => m_stall
      /\ div'.busy \/ div'.done => m_stall
  BY UnitsClock
<1>4. 0 \in Word
  BY XlenPow
<1>5. CASE ~id_ex.valid
  <2>1. mul' \in MulRegs /\ div' \in DivRegs /\ div'.result = div.result
    BY <1>1, <1>5, UnitsIdleMove
  <2>2. ~m_stall
    BY <1>5 DEF m_stall, MStall
  <2>3. ~mul'.busy /\ ~mul'.done /\ ~div'.busy /\ ~div'.done
    BY <1>3, <2>2
  <2>4. UnitsOk(0, 0)'
    BY <2>1, <2>3, UnitsRest DEF UnitsOk
  <2> QED BY <1>4, <2>1, <2>4 DEF UnitData
<1>6. CASE id_ex.valid
  <2>1. PICK a, b :
          /\ a = IF mul_start(stall) \/ div_start(stall) THEN ex_alu_src_a ELSE a0
          /\ b = IF mul_start(stall) \/ div_start(stall) THEN ex_alu_src_b ELSE b0
    OBVIOUS
  <2>2. a \in Word /\ b \in Word
    BY <1>2, <2>1
  <2>3. MulOk(mul', id_ex.op.alu_op, a, b) /\ DivOk(div', id_ex.op.alu_op, a, b)
    BY <1>1, <1>2, <1>6, <2>1, UnitsMove
  <2>4. UnitsOk(a, b)'
    <3>1. CASE m_stall
      BY <2>3, <3>1 DEF UnitsOk
    <3>2. CASE ~m_stall
      <4>1. ~mul'.busy /\ ~mul'.done /\ ~div'.busy /\ ~div'.done
        BY <1>3, <3>2
      <4>2. mul' \in MulRegs /\ div' \in DivRegs
        BY <2>3 DEF MulOk, DivOk
      <4> QED BY <4>1, <4>2, UnitsRest DEF UnitsOk
    <3> QED BY <3>1, <3>2
  <2>5. div'.result \in Word
    <3>1. div \in DivRegs
      BY <1>1 DEF UnitsOk, DivOk
    <3>2. div'.result = div.result \/ div'.done
      BY <3>1, DivResultChanges
    <3>3. CASE div'.done
      BY <2>2, <2>3, <3>3, DivResultWord DEF DivOk, Delivers
    <3>4. div.result \in Word
      BY DEF UnitData
    <3> QED BY <3>2, <3>3, <3>4
  <2> QED BY <2>2, <2>4, <2>5 DEF UnitData
<1> QED BY <1>5, <1>6

-----------------------------------------------------------------------------
(* Memories, registers and CSRs at an edge.                                 *)
LEMMA StoredMoves ==
  ASSUME ByteBits >= 4, DInv, NEW stall, NEW irq \in Word, NEW imem_ready,
         CommonClock(imem_ready, stall, irq)
  PROVE  Stored'
<1> USE DEF DInv
<1>1. imem' = imem /\ dmem' = DmemAfterWrite /\ regs' = RegsAfterWrite /\ CsrClock(stall, irq)
  BY DEF CommonClock
<1>2. dmem' \in [0 .. DmemWords - 1 -> Word]
  BY <1>1, MemoryValues
<1>3. regs' \in [Reg -> Word]
  BY <1>1, WbWord DEF RegsAfterWrite, Stored
<1>4. csr' \in CsrType
  <2> DEFINE write == ex_csr_write(stall)
             trap  == [en |-> ex_is_trap(stall), epc |-> id_ex.pc,
                       cause |-> ex_trap.cause, tval |-> ex_trap.tval]
             mret  == id_ex.valid /\ ~stall /\ id_ex.op.is_mret
  <2>1. csr' = CsrNext(csr, irq, write, trap, mret)
    BY <1>1 DEF CsrClock
  <2>2. write.data \in Word
    BY CsrSourceWord
  <2>3. trap.epc \in Word /\ trap.cause \in Word /\ trap.tval \in Word
    BY TrapWords DEF ExData
  <2>4. csr \in CsrType
    BY DEF Stored
  <2> HIDE DEF write, trap, mret, DInv
  <2> QED BY <2>1, <2>2, <2>3, <2>4, CsrNextTyped
<1> QED BY <1>1, <1>2, <1>3, <1>4 DEF Stored

(* Fetch.                                                                   *)
LEMMA LiveResponse ==
  ASSUME DInv, NEW imem_ready, if_live_resp_valid(imem_ready)
  PROVE  imem_resp_pc = pc_f /\ imem_instr = InstrAt(pc_f) /\ IsInstruction(imem_instr)
<1>1. imem_requests = <<pc_f>>
  BY DEF DInv, IInv, Requests, if_live_resp_valid
<1>2. imem_resp_pc = pc_f
  BY <1>1, OneElement DEF imem_resp_pc
<1> QED BY <1>2, InstrTyped DEF DInv, FrontData, imem_instr, InstrAt

LEMMA PcMoves ==
  ASSUME DInv PROVE Wrap(pc_f + 4) \in Word
<1>1. pc_f + 4 \in Int
  BY XlenPow DEF DInv, FrontData
<1> QED BY <1>1, WrapIn

BufferData ==
  /\ pc_f \in Word
  /\ if_buf.pc \in Word /\ IsInstruction(if_buf.instr)
  /\ if_buf.valid => if_buf.instr = InstrAt(if_buf.pc)

LEMMA BufferMoves ==
  ASSUME DInv, NEW imem_ready \in BOOLEAN, NEW accept \in BOOLEAN, NEW request \in BOOLEAN,
         FetchAdvance(imem_ready, accept, request), imem' = imem
  PROVE  BufferData'
<1>1. /\ if_buf.pc \in Word /\ IsInstruction(if_buf.instr) /\ pc_f \in Word
      /\ if_buf.valid => if_buf.instr = InstrAt(if_buf.pc)
      /\ DOMAIN if_buf = IfFields
  BY DEF DInv, FrontData, IInv, Shapes
<1>2. pc_f' \in Word
  BY <1>1, PcMoves DEF FetchAdvance
<1>3. ASSUME NEW p PROVE InstrAt(p)' = imem[((p') \div 4) % ImemWords]
  BY DEF InstrAt
<1>4. CASE accept /\ if_buf.valid
  <2>1. if_buf' = [if_buf EXCEPT !.valid = FALSE]
    BY <1>4 DEF FetchAdvance
  <2>2. if_buf'.pc = if_buf.pc /\ if_buf'.instr = if_buf.instr /\ if_buf'.valid = FALSE
    BY <1>1, <2>1 DEF IfFields
  <2> QED BY <1>1, <1>2, <2>2 DEF BufferData
<1>5. CASE if_live_resp_valid(imem_ready) /\ ~accept /\ ~if_buf.valid
  <2>1. if_buf' = [valid |-> TRUE, instr |-> imem_instr, pc |-> imem_resp_pc]
    BY <1>5 DEF FetchAdvance
  <2>2. if_buf'.pc = pc_f /\ if_buf'.instr = InstrAt(pc_f) /\ IsInstruction(imem_instr)
        /\ if_buf'.instr = imem_instr
    BY <1>5, <2>1, LiveResponse
  <2> QED BY <1>1, <1>2, <2>2 DEF BufferData, InstrAt
<1>6. CASE ~(accept /\ if_buf.valid) /\ ~(if_live_resp_valid(imem_ready) /\ ~accept /\ ~if_buf.valid)
  <2>1. if_buf' = if_buf
    BY <1>6 DEF FetchAdvance
  <2> QED BY <1>1, <1>2, <2>1 DEF BufferData, InstrAt
<1> QED BY <1>4, <1>5, <1>6

IdData ==
  /\ if_id.pc \in Word /\ IsInstruction(if_id.instr)
  /\ if_id.valid => if_id.instr = InstrAt(if_id.pc)

LEMMA IdMoves ==
  ASSUME DInv, NEW redirect \in BOOLEAN, NEW accept \in BOOLEAN, NEW imem_ready,
         IfIdNext(redirect, accept), imem' = imem,
         accept => if_buf.valid \/ if_live_resp_valid(imem_ready)
  PROVE  IdData'
<1>1. /\ if_id.pc \in Word /\ IsInstruction(if_id.instr)
      /\ if_id.valid => if_id.instr = InstrAt(if_id.pc)
      /\ DOMAIN if_id = IfFields
  BY DEF DInv, FrontData, IInv, Shapes
<1>2. CASE if_id' = [if_id EXCEPT !.valid = FALSE]
  <2>1. if_id'.pc = if_id.pc /\ if_id'.instr = if_id.instr /\ if_id'.valid = FALSE
    BY <1>1, <1>2 DEF IfFields
  <2> QED BY <1>1, <2>1 DEF IdData
<1>3. CASE if_id' = if_id
  BY <1>1, <1>3 DEF IdData, InstrAt
<1>4. CASE accept /\ if_id' = if_resp
  <2>1. CASE if_buf.valid
    BY <1>4, <2>1 DEF if_resp, DInv, FrontData, IdData, InstrAt
  <2>2. CASE ~if_buf.valid
    <3>1. if_live_resp_valid(imem_ready)
      BY <1>4, <2>2
    <3>2. if_id'.pc = pc_f /\ if_id'.instr = InstrAt(pc_f) /\ IsInstruction(if_id'.instr)
      BY <1>4, <2>2, <3>1, LiveResponse DEF if_resp
    <3>3. pc_f \in Word
      BY DEF DInv, FrontData
    <3> QED BY <3>2, <3>3 DEF IdData, InstrAt
  <2> QED BY <2>1, <2>2
<1> QED BY <1>2, <1>3, <1>4 DEF IfIdNext
----------------------------------------------------------------------------
(* Its steps: the pipeline registers, one lemma per action, the theorem.    *)

(* The pipeline registers.                                                  *)
LEMMA ExMoves ==
  ASSUME ByteBits >= 4, DInv, NEW redirect \in BOOLEAN, IdExNext(redirect), redirect => ~m_stall,
         imem' = imem
  PROVE  ExData'
<1> DEFINE op   == Decode(if_id.instr)
           imm  == if_id.instr.imm
           fwdA == ForwardSel(if_id.valid, op.use_rs1, op.rs1, id_ex, ex_mem)
           fwdB == ForwardSel(if_id.valid, op.use_rs2, op.rs2, id_ex, ex_mem)
           rs1  == RegRead(op.rs1)
           rs2  == RegRead(op.rs2)
           old  == CsrRead(csr, op.csr_addr)
           data == [id_ex EXCEPT !.pc = if_id.pc, !.imm = imm,
                                 !.rs1_data = rs1, !.rs2_data = rs2,
                                 !.csr_old = old]
<1>1. IInv /\ Stored /\ FrontData /\ ExData /\ WbData
  BY DEF DInv
<1>2. rs1 \in Word /\ rs2 \in Word /\ old \in Word /\ if_id.pc \in Word
      /\ IsInstruction(if_id.instr) /\ imm \in Word
  BY <1>1, ReadWord, CsrReadWord DEF FrontData, Stored, IsInstruction
<1>3. IsControl(op) /\ IsControl(id_ex.op)
  BY <1>1, <1>2 DEF IsControl, ExData
<1>4. DOMAIN id_ex = IdExFields /\ m_stall \in BOOLEAN
  BY <1>1 DEF IInv, Shapes, m_stall, MStall
<1>5. CASE redirect
  <2>1. id_ex' = [data EXCEPT !.valid = FALSE, !.forward_a = "REG",
                              !.forward_b = "REG"]
    BY <1>1, <1>5, OnlyUnitsStall DEF IdExNext
  <2> HIDE DEF op, imm, rs1, rs2, old
  <2>2. /\ id_ex'.pc = if_id.pc /\ id_ex'.imm = imm /\ id_ex'.rs1_data = rs1
        /\ id_ex'.rs2_data = rs2 /\ id_ex'.csr_old = old /\ id_ex'.valid = FALSE
        /\ id_ex'.op = id_ex.op
    BY <1>4, <2>1 DEF IdExFields
  <2> QED BY <1>2, <1>3, <2>2 DEF ExData
<1>6. CASE m_stall
  <2>1. id_ex' = id_ex
    BY <1>1, <1>6, OnlyUnitsStall DEF IdExNext
  <2> QED BY <1>1, <2>1 DEF ExData, InstrAt
<1>7. CASE ~redirect /\ ~m_stall
  <2>1. id_ex' = [data EXCEPT !.valid = if_id.valid, !.forward_a = fwdA,
                              !.forward_b = fwdB, !.op = op]
    BY <1>1, <1>7, OnlyUnitsStall DEF IdExNext
  <2>2. /\ id_ex'.pc = if_id.pc /\ id_ex'.imm = imm /\ id_ex'.rs1_data = rs1
        /\ id_ex'.rs2_data = rs2 /\ id_ex'.csr_old = old /\ id_ex'.valid = if_id.valid
        /\ id_ex'.op = op
    <3> HIDE DEF op, imm, rs1, rs2, old, fwdA, fwdB
    <3> QED BY <1>4, <2>1 DEF IdExFields
  <2>3. if_id.valid => if_id.instr = InstrAt(if_id.pc)
    BY <1>1 DEF FrontData
  <2>4. ASSUME id_ex'.valid
        PROVE  id_ex'.op = Decode(InstrAt(if_id.pc)) /\ id_ex'.imm = InstrAt(if_id.pc).imm
    BY <2>2, <2>3, <2>4
  <2> QED BY <1>2, <1>3, <2>2, <2>4 DEF ExData, InstrAt
<1> QED BY <1>4, <1>5, <1>6, <1>7

LEMMA MemMoves ==
  ASSUME DInv, NEW trap, ExMemNext(trap) PROVE MemData'
<1>1. ex_alu_result \in Word /\ ex_forward_b_data \in Word /\ id_ex.csr_old \in Word
      /\ IsControl(id_ex.op) /\ id_ex.pc \in Word
  BY ResultWord, OperandWords DEF DInv, ExData
<1>2. Wrap(id_ex.pc + 4) \in Word
  <2>1. id_ex.pc + 4 \in Int
    BY ONLY <1>1, XlenPow
  <2> QED BY ONLY <2>1, WrapIn, Zenon
<1>3. /\ ex_mem'.pc4 = Wrap(id_ex.pc + 4) /\ ex_mem'.alu_result = ex_alu_result
      /\ ex_mem'.store_data = ex_forward_b_data /\ ex_mem'.csr_old = id_ex.csr_old
      /\ ex_mem'.op = id_ex.op
  BY ONLY ExMemNext(trap) DEF ExMemNext
<1>4. Word' = Word
  OBVIOUS
<1> QED BY ONLY <1>1, <1>2, <1>3, <1>4 DEF MemData, IsControl

LEMMA WbMoves == ASSUME DInv, MemWbNext PROVE WbData'
BY MemoryValues DEF DInv, MemWbNext, WbData, MemData

-----------------------------------------------------------------------------
LEMMA StallDInv ==
  ASSUME ByteBits >= 4, DInv, NEW imem_ready \in BOOLEAN, NEW dmem_ready \in BOOLEAN,
         NEW irq \in Word, ClockMemStall(imem_ready, dmem_ready, irq), IInv'
  PROVE  DInv'
<1>1. CommonClock(imem_ready, TRUE, irq) /\ imem' = imem
  BY DEF ClockMemStall, CommonClock
<1>2. Stored'
  BY <1>1, StoredMoves
<1>3. /\ if_id' = if_id /\ id_ex' = id_ex /\ ex_mem' = ex_mem
      /\ mem_wb' = [mem_wb EXCEPT !.valid = FALSE]
  BY DEF ClockMemStall
<1>4. FrontData'
  <2>1. FetchAdvance(imem_ready, FALSE, FALSE)
    BY DEF ClockMemStall
  <2>2. BufferData'
    BY <1>1, <2>1, BufferMoves
  <2> QED BY <1>1, <1>3, <2>2 DEF BufferData, FrontData, InstrAt, DInv
<1>5. ExData' /\ MemData'
  BY <1>1, <1>3 DEF ExData, MemData, DInv, InstrAt
<1>6. WbData'
  BY <1>3 DEF WbData, DInv
<1>7. UnitData'
  <2>1. ~id_ex.valid
    BY DEF ClockMemStall, mem_stall, dmem_read_en, dmem_write_en, DInv, IInv, FetchSpacing
  <2> QED BY <1>1, <1>3, <2>1, UnitsData DEF CommonClock, DInv
<1> QED BY <1>2, <1>4, <1>5, <1>6, <1>7 DEF DInv

LEMMA RedirectDInv ==
  ASSUME ByteBits >= 4, DInv, NEW imem_ready \in BOOLEAN, NEW dmem_ready \in BOOLEAN,
         NEW irq \in Word, ClockRedirect(imem_ready, dmem_ready, irq), IInv'
  PROVE  DInv'
<1>1. CommonClock(imem_ready, FALSE, irq) /\ imem' = imem /\ ~m_stall
  BY DEF ClockRedirect, CommonClock, ex_redirect, ExFire
<1>2. Stored'
  BY <1>1, StoredMoves
<1>3. FrontData'
  <2>1. if_buf' = [if_buf EXCEPT !.valid = FALSE] /\ pc_f' = ex_redirect_target
    BY DEF ClockRedirect, FetchRedirect
  <2>2. IfIdNext(TRUE, FALSE)
    BY DEF ClockRedirect
  <2>3. DOMAIN if_buf = IfFields
    BY DEF DInv, IInv, Shapes
  <2>4. pc_f' \in Word
    BY <2>1, TargetWord DEF DInv
  <2>5. if_buf'.pc = if_buf.pc /\ if_buf'.instr = if_buf.instr /\ if_buf'.valid = FALSE
    BY <2>1, <2>3 DEF IfFields
  <2>6. IdData'
    BY <1>1, <2>2, IdMoves
  <2> QED BY <2>4, <2>5, <2>6 DEF FrontData, IdData, DInv
<1>4. ExData'
  BY <1>1, ExMoves DEF ClockRedirect
<1>5. MemData' /\ WbData'
  BY MemMoves, WbMoves DEF ClockRedirect
<1>6. UnitData'
  BY <1>1, UnitsData DEF CommonClock, DInv
<1> QED BY <1>2, <1>3, <1>4, <1>5, <1>6 DEF DInv

LEMMA AdvanceDInv ==
  ASSUME ByteBits >= 4, DInv, NEW imem_ready \in BOOLEAN, NEW dmem_ready \in BOOLEAN,
         NEW irq \in Word, ClockAdvance(imem_ready, dmem_ready, irq), IInv'
  PROVE  DInv'
<1>1. CommonClock(imem_ready, FALSE, irq) /\ imem' = imem
  BY DEF ClockAdvance, CommonClock
<1>2. Stored'
  BY <1>1, StoredMoves
<1>3. FrontData'
  <2> DEFINE accept == if_accept(imem_ready, FALSE)
             request == imem_req(imem_ready, FALSE)
  <2>1. accept \in BOOLEAN /\ request \in BOOLEAN
        /\ (accept => if_buf.valid \/ if_live_resp_valid(imem_ready))
    BY DEF if_accept, imem_req
  <2>2. FetchAdvance(imem_ready, accept, request) /\ IfIdNext(FALSE, accept)
    BY DEF ClockAdvance
  <2> HIDE DEF accept, request
  <2>3. BufferData'
    BY <1>1, <2>1, <2>2, BufferMoves
  <2>4. IdData'
    BY <1>1, <2>1, <2>2, IdMoves
  <2> QED BY <2>3, <2>4 DEF FrontData, BufferData, IdData
<1>4. ExData'
  BY <1>1, ExMoves DEF ClockAdvance
<1>5. MemData' /\ WbData'
  BY MemMoves, WbMoves DEF ClockAdvance
<1>6. UnitData'
  <2>1. m_stall => id_ex' = id_ex
    BY IdExClock DEF ClockAdvance, DInv
  <2> QED BY <1>1, <2>1, UnitsData DEF CommonClock, DInv
<1> QED BY <1>2, <1>3, <1>4, <1>5, <1>6 DEF DInv

LEMMA ClockDInv ==
  ASSUME ByteBits >= 4, DInv, NEW imem_ready \in BOOLEAN, NEW dmem_ready \in BOOLEAN,
         NEW irq \in Word, Clock(imem_ready, dmem_ready, irq)
  PROVE  DInv'
<1>1. IInv'
  BY ClockIInv DEF DInv
<1> QED BY <1>1, StallDInv, RedirectDInv, AdvanceDInv DEF Clock

LEMMA StutterDInv == DInv /\ UNCHANGED vars => DInv'
<1> SUFFICES ASSUME DInv, UNCHANGED vars PROVE DInv'
  OBVIOUS
<1>1. IInv'
  BY StutterIInv DEF DInv
<1>2. /\ UNCHANGED <<pc_f, if_buf, if_id, id_ex, ex_mem, mem_wb, mul, div>>
      /\ UNCHANGED <<regs, csr, imem, dmem>>
  BY DEF vars, fetchRegs, stageRegs
<1>3. Stored' /\ FrontData' /\ ExData' /\ MemData' /\ WbData'
  BY <1>2 DEF DInv, Stored, FrontData, ExData, MemData, WbData, InstrAt
<1>4. UnitData'
  <2>1. PICK a \in Word, b \in Word : UnitsOk(a, b)
    BY DEF DInv, UnitData
  <2>2. UnitsOk(a, b)' /\ div'.result \in Word
    BY <1>2, <2>1 DEF UnitsOk, DInv, UnitData
  <2> QED BY <2>2 DEF UnitData
<1> QED BY <1>1, <1>3, <1>4 DEF DInv

(* Whatever the program, every register holds a word, and every stage holds *)
(* the decoded instruction of the address that travels with it.             *)
THEOREM DataInvariant == ASSUME ByteBits >= 4 PROVE Spec => []DInv
<1>1. DInv /\ [Next]_vars => DInv'
  <2> SUFFICES ASSUME DInv, [Next]_vars PROVE DInv'
    OBVIOUS
  <2>1. CASE \E imem_ready \in ImemReady, dmem_ready \in DmemReady,
                irq \in IrqInputs : Clock(imem_ready, dmem_ready, irq)
    BY <2>1, ClockDInv, CoreAssumption
  <2> QED BY <2>1, ResetDInv, StutterDInv DEF Next
<1> QED BY <1>1, InitDInv, PTL DEF Spec

-----------------------------------------------------------------------------
(* The abstract machine computes with the same words.                       *)
LEMMA IsaWords ==
  ASSUME NEW x, NEW y, NEW i
  PROVE  /\ Machine!XLEN = XLEN /\ Machine!Wrap(x) = Wrap(x) /\ Machine!Signed(x) = Signed(x)
         /\ Machine!Bit(x, i) = Bit(x, i) /\ Machine!OfBits(x) = OfBits(x) /\ Machine!BitAnd(x, y) = BitAnd(x, y)
BY DEF Machine!XLEN, XLEN, Machine!Wrap, Wrap, Machine!SignBit, SignBit, Machine!Signed, Signed, Machine!Bit, Bit,
       Machine!OfBits, OfBits, Machine!BitAnd, BitAnd

(* and has the same operations on them                                      *)
LEMMA IsaOps ==
  ASSUME NEW x, NEW y, NEW i, NEW j
  PROVE  /\ Machine!IntegerOp(i, j, x, y) = IntegerOp(i, j, x, y) /\ Machine!Taken(i, x, y) = Taken(i, x, y)
         /\ Machine!MulDivOp(i, x, y) = MulDivOp(i, x, y)
<1> USE DEF Machine!XLEN, XLEN, Machine!SignBit, SignBit, Machine!Signed, Signed
<1>1. Machine!IntegerOp(i, j, x, y) = IntegerOp(i, j, x, y)
  BY DEF Machine!IntegerOp, IntegerOp, Machine!Bit, Bit, Machine!OfBits, OfBits
<1>2. Machine!Taken(i, x, y) = Taken(i, x, y)
  BY DEF Machine!Taken, Taken
<1>3. Machine!MulDivOp(i, x, y) = MulDivOp(i, x, y)
  BY DEF Machine!MulDivOp, MulDivOp, Machine!Divide, Divide, Machine!Remainder, Remainder, Machine!Truncated, Truncated,
         Machine!Abs, Abs
<1> QED BY <1>1, <1>2, <1>3

(* and the same accesses to a memory of bytes.                              *)
LEMMA IsaMemory ==
  ASSUME NEW x, NEW y, NEW i, NEW j
  PROVE  /\ Machine!LoadedValue(x, i, j) = LoadedValue(x, i, j) /\ Machine!StoredMemory(x, i, j, y) = StoredMemory(x, i, j, y)
         /\ Machine!AccessBytes(i) = AccessBytes(i)
<1>1. Machine!AccessBytes(i) = AccessBytes(i)
  BY DEF Machine!AccessBytes, AccessBytes
<1>2. Machine!LoadedValue(x, i, j) = LoadedValue(x, i, j)
  BY DEF Machine!LoadedValue, LoadedValue, Machine!AccessBytes, AccessBytes, Machine!Cell, Cell, Machine!MemSize, MemSize,
         Machine!Cardinality, Cardinality, Machine!IsFiniteSet, IsFiniteSet
<1>3. Machine!StoredMemory(x, i, j, y) = StoredMemory(x, i, j, y)
  BY DEF Machine!StoredMemory, StoredMemory, Machine!AccessBytes, AccessBytes, Machine!MemSize, MemSize,
         Machine!Cardinality, Cardinality, Machine!IsFiniteSet, IsFiniteSet
<1> QED BY <1>1, <1>2, <1>3

-----------------------------------------------------------------------------
(* The bytes of a memory of words.                                          *)
MemoryOf(d) == [m \in 0 .. 4 * DmemWords - 1 |-> Lane(d[m \div 4], m % 4)]

(* A memory of words, seen as bytes, has four for each word.                *)
LEMMA MemoryShape ==
  ASSUME NEW d
  PROVE  /\ MemSize(MemoryOf(d)) = 4 * DmemWords /\ DOMAIN MemoryOf(d) = 0 .. 4 * DmemWords - 1
         /\ \A m \in 0 .. 4 * DmemWords - 1 : MemoryOf(d)[m] = Lane(d[m \div 4], m % 4)
<1>1. DOMAIN MemoryOf(d) = 0 .. 4 * DmemWords - 1
      /\ \A m \in 0 .. 4 * DmemWords - 1 : MemoryOf(d)[m] = Lane(d[m \div 4], m % 4)
  BY DEF MemoryOf
<1>2. PICK n \in Nat \ {0} : n = 4 * DmemWords
  BY CoreAssumption
<1>3. 0 \in Int /\ n - 1 \in Int
  BY <1>2
<1>4. Cardinality(0 .. n - 1) = IF 0 > n - 1 THEN 0 ELSE n - 1 - 0 + 1
  BY <1>3, FS_Interval
<1>5. Cardinality(0 .. n - 1) = n
  BY <1>2, <1>4
<1> QED BY <1>1, <1>2, <1>5 DEF MemSize

(* An aligned access stays in one word.                                     *)
LEMMA AccessFits ==
  ASSUME NEW addr \in Nat, NEW f \in {0, 1, 2, 4, 5}, addr % AccessBytes(f) = 0, NEW r, r = addr % 4
  PROVE  /\ AccessBytes(f) \in {1, 2, 4} /\ r \in 0 .. 3 /\ r + AccessBytes(f) <= 4
         /\ r % AccessBytes(f) = 0
<1>1. CASE f \in {0, 4}
  BY <1>1, Accesses
<1>2. CASE f \in {1, 5}
  BY <1>2, Accesses
<1>3. CASE f = 2
  BY <1>3, Accesses
<1> QED BY <1>1, <1>2, <1>3

(* The word an address is in.                                               *)
LEMMA AddressSplit ==
  ASSUME NEW addr \in Nat, NEW D \in Nat \ {0}, NEW q, q = addr \div 4, NEW t, t = q \div D,
         NEW i, i = q % D, NEW r, r = addr % 4, NEW p, p = D * t
  PROVE  /\ t \in Int /\ i \in Int /\ r \in Int /\ p \in Int
         /\ 0 <= i /\ i <= D - 1 /\ 0 <= r /\ r <= 3 /\ addr = 4 * p + 4 * i + r
<1>1. q \in Int /\ r \in Int /\ 0 <= r /\ r <= 3 /\ addr = 4 * q + r
  OBVIOUS
<1>2. D \in Int /\ D > 0
  OBVIOUS
<1>3. t \in Int /\ i \in Int /\ 0 <= i /\ i <= D - 1 /\ q = D * t + i
  BY ONLY <1>1, <1>2, t = q \div D, i = q % D, Divided
<1>4. p \in Int /\ q = p + i
  BY <1>2, <1>3
<1> QED BY ONLY <1>1, <1>3, <1>4

(* The byte of a word at an address is one of its lanes.                    *)
LEMMA WordOf ==
  ASSUME NEW i \in Int, NEW s \in 0 .. 3 PROVE (4 * i + s) \div 4 = i /\ (4 * i + s) % 4 = s
OBVIOUS

(* The cell at an offset within an access is a lane of the word accessed.   *)
LEMMA CellIs ==
  ASSUME NEW d, NEW addr \in Nat, NEW k \in 0 .. 3, (addr % 4) + k <= 3,
         NEW i, i = (addr \div 4) % DmemWords
  PROVE  MemoryOf(d)[Cell(MemoryOf(d), addr, k)] = Lane(d[i], (addr % 4) + k)
<1>1. PICK D \in Nat \ {0} : D = DmemWords
  BY CoreAssumption
<1>2. PICK q, t, r, p : q = addr \div 4 /\ t = q \div D /\ r = addr % 4 /\ p = D * t
  OBVIOUS
<1>2a. i = q % D
  BY <1>1, <1>2
<1>2b. /\ t \in Int /\ i \in Int /\ r \in Int /\ p \in Int
       /\ 0 <= i /\ i <= D - 1 /\ 0 <= r /\ r <= 3 /\ addr = 4 * p + 4 * i + r
  BY ONLY <1>1, <1>2, <1>2a, addr \in Nat, AddressSplit
<1>2c. D \in Int /\ D > 0 /\ k \in Int /\ 0 <= k /\ r + k <= 3
  BY <1>2
<1>3. PICK m : m = 4 * i + (r + k)
  OBVIOUS
<1>4. m \in 0 .. 4 * D - 1 /\ r + k \in 0 .. 3 /\ i \in Int /\ m \in Int
  BY ONLY <1>2b, <1>2c, <1>3
<1>5. (4 * D) * t = 4 * p
  BY <1>2, <1>2b, <1>2c
<1>6. addr + k = (4 * D) * t + m /\ 4 * D \in Int /\ 4 * D > 0 /\ 0 <= m /\ m < 4 * D
  BY ONLY <1>2b, <1>2c, <1>3, <1>4, <1>5
<1>7. (addr + k) % (4 * D) = m
  <2>1. PICK n, c : n = addr + k /\ c = 4 * D
    OBVIOUS
  <2>2. n \in Int /\ c \in Int /\ c > 0 /\ n = c * t + m /\ 0 <= m /\ m < c
    BY <1>6, <2>1
  <2>3. n % c = m
    BY ONLY <1>2b, <1>4, <2>2, ModIs
  <2> QED BY <2>1, <2>3
<1>8. Cell(MemoryOf(d), addr, k) = m
  BY <1>1, <1>7, MemoryShape DEF Cell
<1>9. m \div 4 = i /\ m % 4 = r + k
  BY <1>3, <1>4, WordOf
<1>10. MemoryOf(d)[m] = Lane(d[m \div 4], m % 4)
  BY <1>1, <1>4, MemoryShape
<1> QED BY <1>2, <1>8, <1>9, <1>10

(* A load from a memory of words.                                           *)
LEMMA MemoryLoad ==
  ASSUME NEW d, NEW addr \in Nat, NEW f \in {0, 1, 2, 4, 5}, addr % AccessBytes(f) = 0,
         NEW x, x = d[(addr \div 4) % DmemWords]
  PROVE  LoadedValue(MemoryOf(d), f, addr) = LoadedValue(LanesOfWord(x), f, addr % 4)
<1>1. PICK n, r : n = AccessBytes(f) /\ r = addr % 4
  OBVIOUS
<1>2. n \in {1, 2, 4} /\ r \in 0 .. 3 /\ r + n <= 4
  BY <1>1, AccessFits
<1>3. ASSUME NEW k \in 0 .. 3, k < n
      PROVE  MemoryOf(d)[Cell(MemoryOf(d), addr, k)] = LanesOfWord(x)[Cell(LanesOfWord(x), r, k)]
  <2>1. r + k <= 3 /\ r + k \in 0 .. 3 /\ (r + k) % 4 = r + k
    BY <1>2, <1>3
  <2>2. MemoryOf(d)[Cell(MemoryOf(d), addr, k)] = Lane(x, r + k)
    BY <1>1, <2>1, CellIs
  <2>3. LanesOfWord(x)[r + k] = Lane(x, r + k)
    BY <2>1 DEF LanesOfWord
  <2>4. Cell(LanesOfWord(x), r, k) = r + k
    BY <1>2, <2>1, MemoryOfWord
  <2> QED BY <2>2, <2>3, <2>4
<1>4. PICK M, L : M = MemoryOf(d) /\ L = LanesOfWord(x)
  OBVIOUS
<1>5. \A k \in 0 .. 3 : k < n => M[Cell(M, addr, k)] = L[Cell(L, r, k)]
  BY <1>3, <1>4
<1>6. /\ 0 < n => M[Cell(M, addr, 0)] = L[Cell(L, r, 0)]
      /\ 1 < n => M[Cell(M, addr, 1)] = L[Cell(L, r, 1)]
      /\ 2 < n => M[Cell(M, addr, 2)] = L[Cell(L, r, 2)]
      /\ 3 < n => M[Cell(M, addr, 3)] = L[Cell(L, r, 3)]
  BY <1>5
<1>7. LoadedValue(M, f, addr) = LoadedValue(L, f, r)
  BY ONLY <1>1, <1>6 DEF LoadedValue
<1> QED BY <1>1, <1>4, <1>7

(* The byte of a store that a cell gets: the same as within its word, and   *)
(* none in another word.                                                    *)
StoreNames(addr, n, r, D, m, c, k, i, j, s, z) ==
  /\ addr \in Nat /\ n \in {1, 2, 4} /\ r = addr % 4 /\ r + n <= 4 /\ r % n = 0
  /\ D \in Nat \ {0} /\ m \in 0 .. 4 * D - 1 /\ c = 4 * D /\ k = (m - addr) % c
  /\ i = (addr \div 4) % D /\ j = m \div 4 /\ s = m % 4 /\ z = (s - r) % 4

LEMMA StoreCell ==
  ASSUME NEW addr, NEW n, NEW r, NEW D, NEW m, NEW c, NEW k, NEW i, NEW j, NEW s, NEW z,
         StoreNames(addr, n, r, D, m, c, k, i, j, s, z)
  PROVE  /\ j = i => (k < n <=> z < n)
         /\ k < n => j = i /\ k \in 0 .. 3 /\ z = k
<1>0. /\ addr \in Nat /\ n \in {1, 2, 4} /\ r = addr % 4 /\ r + n <= 4 /\ r % n = 0
      /\ D \in Nat \ {0} /\ m \in 0 .. 4 * D - 1 /\ c = 4 * D /\ k = (m - addr) % c
      /\ i = (addr \div 4) % D /\ j = m \div 4 /\ s = m % 4 /\ z = (s - r) % 4
  BY DEF StoreNames
<1>0a. z = (s - r) % 4
  BY <1>0
<1>1. PICK q, t, p : q = addr \div 4 /\ t = q \div D /\ p = D * t
  OBVIOUS
<1>1a. i = q % D
  BY <1>0, <1>1
<1>1b. /\ t \in Int /\ i \in Int /\ r \in Int /\ p \in Int
       /\ 0 <= i /\ i <= D - 1 /\ 0 <= r /\ r <= 3 /\ addr = 4 * p + 4 * i + r
  BY ONLY <1>0, <1>1, <1>1a, AddressSplit
<1>1c. r + n <= 4 /\ r % n = 0 /\ n \in Int /\ D \in Int /\ D > 0
  BY <1>0
<1>3. /\ j \in Int /\ s \in Int /\ m \in Int /\ 0 <= s /\ s <= 3 /\ m = 4 * j + s
      /\ 0 <= j /\ j <= D - 1
  <2>1. m \in Int /\ 0 <= m /\ m <= 4 * D - 1
    BY <1>0
  <2> QED BY ONLY <1>0, <1>1c, <2>1
<1>4. c = 4 * D
  BY <1>0
<1>5. c * (-t) = -(4 * p) /\ c * (-t - 1) = -(4 * p) - c /\ c \in Int /\ c > 0
  BY <1>1, <1>1b, <1>1c, <1>4
<1>6. m - addr \in Int /\ m - addr = -(4 * p) + (4 * j - 4 * i + s - r)
  BY ONLY <1>1b, <1>3
<1>7. PICK e \in Int : e = 4 * j - 4 * i + s - r
  BY ONLY <1>1b, <1>3
<1>8. ASSUME e >= 0 PROVE k = e
  <2>1. m - addr = c * (-t) + e /\ e < c
    BY ONLY <1>1b, <1>1c, <1>3, <1>4, <1>5, <1>6, <1>7
  <2>2. PICK y, u : y = m - addr /\ u = -t
    OBVIOUS
  <2>3. y \in Int /\ u \in Int /\ y = c * u + e
    BY <1>1b, <1>6, <2>1, <2>2
  <2>4. y % c = e
    BY ONLY <1>5, <1>7, <1>8, <2>1, <2>3, ModIs
  <2> QED BY <1>0, <2>2, <2>4
<1>9. ASSUME e < 0 PROVE k = c + e
  <2>1. m - addr = c * (-t - 1) + (c + e) /\ c + e < c /\ c + e >= 0 /\ c + e \in Int
    BY ONLY <1>1b, <1>1c, <1>3, <1>4, <1>5, <1>6, <1>7, <1>9
  <2>2. PICK y, u, w : y = m - addr /\ u = -t - 1 /\ w = c + e
    OBVIOUS
  <2>3. y \in Int /\ u \in Int /\ y = c * u + w /\ w \in Int /\ 0 <= w /\ w < c
    BY <1>1b, <1>6, <2>1, <2>2
  <2>4. y % c = w
    BY ONLY <1>5, <2>3, ModIs
  <2> QED BY <1>0, <2>2, <2>4
<1>10. ASSUME j # i PROVE ~(k < n)
  <2>2. CASE j > i
    <3>1. e >= n /\ e >= 0
      BY ONLY <1>1b, <1>1c, <1>3, <1>7, <2>2, <1>0
    <3> QED BY <1>1c, <1>7, <1>8, <3>1
  <2>3. CASE j < i
    <3>1. c + e >= n /\ e < 0
      BY ONLY <1>1b, <1>1c, <1>3, <1>4, <1>7, <2>3
    <3> QED BY <1>1c, <1>5, <1>7, <1>9, <3>1
  <2> QED BY <1>1b, <1>3, <1>10, <2>2, <2>3
<1>11. ASSUME j = i
       PROVE  /\ k < n <=> z < n
              /\ k < n => k \in 0 .. 3 /\ z = k
  <2>1. e = s - r
    BY ONLY <1>1b, <1>3, <1>7, <1>11
  <2>2. CASE s >= r
    <3>1. s - r \in 0 .. 3 /\ z = s - r
      BY ONLY <1>0a, <1>1b, <1>3, <2>2
    <3>0. e >= 0
      BY ONLY <1>1b, <1>3, <2>1, <2>2
    <3>2. k = s - r
      BY <1>8, <2>1, <3>0
    <3> QED BY <3>1, <3>2
  <2>3. CASE s < r
    <3>1. z = 4 + s - r
      BY ONLY <1>0a, <1>1b, <1>3, <2>3
    <3>0. e < 0
      BY ONLY <1>1b, <1>3, <2>1, <2>3
    <3>2. k = c + s - r
      <4>1. k = c + e
        BY <1>9, <3>0
      <4> QED BY ONLY <1>1b, <1>3, <1>5, <2>1, <4>1
    <3>3. 4 + s - r >= n
      <4>1. n = 1 \/ (n = 2 /\ (r = 0 \/ r = 2)) \/ (n = 4 /\ r = 0)
        BY ONLY <1>1b, <1>1c, <1>0
      <4> QED BY ONLY <1>1b, <1>3, <2>3, <4>1
    <3>4. c + s - r >= n
      BY ONLY <1>1b, <1>1c, <1>3, <1>4, <3>3
    <3>5. c + s - r \in Int /\ 4 + s - r \in Int
      BY <1>1b, <1>3, <1>5
    <3> QED BY ONLY <1>1c, <3>1, <3>2, <3>3, <3>4, <3>5
  <2> QED BY <1>1b, <1>3, <2>2, <2>3
<1> QED BY <1>10, <1>11

(* A byte of a stored value is a lane of it.                                *)
LEMMA ByteOf ==
  ASSUME NEW v, NEW k \in 0 .. 3 PROVE (v \div 2^(k * ByteBits)) % 2^ByteBits = Lane(v, k)
<1>1. k = 0 \/ k = 1 \/ k = 2 \/ k = 3
  OBVIOUS
<1> QED BY <1>1, BasePowers, LaneIs DEF Base
(* A store to a memory of words.                                            *)
Storable(d, addr, f, v) ==
  /\ d \in [0 .. DmemWords - 1 -> Word] /\ addr \in Nat /\ f \in {0, 1, 2}
  /\ addr % AccessBytes(f) = 0 /\ v \in Word

LEMMA MemoryStore ==
  ASSUME NEW d, NEW addr, NEW f, NEW v, Storable(d, addr, f, v)
  PROVE  StoredMemory(MemoryOf(d), f, addr, v)
           = MemoryOf([d EXCEPT ![(addr \div 4) % DmemWords] =
                         MergeLanes(d[(addr \div 4) % DmemWords], LsuWriteData(StoreSize(f), addr % 4, v),
                                    LsuWstrb(StoreSize(f), addr % 4))])
<1>t. /\ d \in [0 .. DmemWords - 1 -> Word] /\ addr \in Nat /\ f \in {0, 1, 2}
      /\ addr % AccessBytes(f) = 0 /\ v \in Word
  BY DEF Storable
<1> USE <1>t
<1>a. PICK i : i = (addr \div 4) % DmemWords
  OBVIOUS
<1>b. PICK e : e = [d EXCEPT ![i] = MergeLanes(d[i], LsuWriteData(StoreSize(f), addr % 4, v),
                                               LsuWstrb(StoreSize(f), addr % 4))]
  OBVIOUS
<1>1. PICK n, r, D : n = AccessBytes(f) /\ r = addr % 4 /\ D = DmemWords
  OBVIOUS
<1>2. n \in {1, 2, 4} /\ r \in 0 .. 3 /\ r + n <= 4 /\ r % n = 0 /\ D \in Nat \ {0}
  <2>1. f \in {0, 1, 2, 4, 5}
    OBVIOUS
  <2>2. n \in {1, 2, 4} /\ r \in 0 .. 3 /\ r + n <= 4 /\ r % n = 0
    BY ONLY <1>1, <2>1, <1>t, AccessFits
  <2> QED BY <1>1, <2>2, CoreAssumption
<1>3. i \in 0 .. D - 1
  <2>1. PICK q \in Int : q = addr \div 4
    OBVIOUS
  <2> QED BY <1>1, <1>2, <1>a, <2>1
<1>4. PICK M, N : M = MemoryOf(d) /\ N = MemoryOf(e)
  OBVIOUS
<1>5. /\ MemSize(M) = 4 * D /\ DOMAIN M = 0 .. 4 * D - 1 /\ DOMAIN N = 0 .. 4 * D - 1
      /\ \A m \in 0 .. 4 * D - 1 : M[m] = Lane(d[m \div 4], m % 4) /\ N[m] = Lane(e[m \div 4], m % 4)
  <2>1. \A g : /\ MemSize(MemoryOf(g)) = 4 * D /\ DOMAIN MemoryOf(g) = 0 .. 4 * D - 1
              /\ \A m \in 0 .. 4 * D - 1 : MemoryOf(g)[m] = Lane(g[m \div 4], m % 4)
    BY ONLY <1>1, MemoryShape
  <2> QED BY ONLY <1>4, <2>1
<1>6. ASSUME NEW m \in 0 .. 4 * D - 1, NEW k, k = (m - addr) % (4 * D)
      PROVE  (IF k < n THEN (v \div 2^(k * ByteBits)) % 2^ByteBits ELSE M[m]) = N[m]
  <2>1. PICK j, s, z, c : j = m \div 4 /\ s = m % 4 /\ z = (s - r) % 4 /\ c = 4 * D
    OBVIOUS
  <2>2. j \in 0 .. D - 1 /\ s \in 0 .. 3
    BY <1>2, <2>1
  <2>3. M[m] = Lane(d[j], s) /\ N[m] = Lane(e[j], s)
    BY <1>5, <2>1
  <2>4. /\ j = i => (k < n <=> z < n)
        /\ k < n => j = i /\ k \in 0 .. 3 /\ z = k
    <3>1. i = (addr \div 4) % D /\ addr \in Nat /\ k = (m - addr) % c
      BY <1>1, <1>6, <1>a, <2>1
    <3>2. StoreNames(addr, n, r, D, m, c, k, i, j, s, z)
      BY ONLY <1>1, <1>2, <1>6, <2>1, <3>1, m \in 0 .. 4 * D - 1 DEF StoreNames
    <3> QED BY ONLY <3>2, StoreCell
  <2>5. CASE j = i
    <3>1. d[j] \in Word /\ e[j] = MergeLanes(d[j], LsuWriteData(StoreSize(f), r, v), LsuWstrb(StoreSize(f), r))
      BY <1>1, <1>b, <2>2, <2>5
    <3>2. N[m] = StoreLane(d[j], v, StoreSize(f), r, s)
      BY <2>3, <3>1 DEF StoreLane
    <3>3. N[m] = LaneAfter(d[j], v, n, r, s)
      <4>1. r % AccessBytes(f) = 0
        BY <1>1, <1>2
      <4> QED BY ONLY <1>1, <1>2, <2>2, <3>1, <3>2, <4>1, <1>t, StoreIs, SMTT(30)
    <3>5. N[m] = IF z < n THEN Lane(v, z) ELSE Lane(d[j], s)
      BY ONLY <2>1, <3>3 DEF LaneAfter
    <3>6. (k < n <=> z < n) /\ (k < n => k \in 0 .. 3 /\ z = k)
      <4>1. z \in Int /\ k \in Int /\ n \in Int
        BY <1>2, <1>6, <2>1, <2>2
      <4> QED BY ONLY <2>4, <2>5, <4>1
    <3>7. CASE k < n
      BY ONLY <3>5, <3>6, <3>7, ByteOf
    <3>8. CASE ~(k < n)
      BY ONLY <2>3, <3>5, <3>6, <3>8
    <3> QED BY <3>7, <3>8
  <2>6. CASE j # i
    <3>1. e[j] = d[j]
      BY <1>1, <1>b, <2>2, <2>6
    <3> QED BY <2>3, <2>4, <2>6, <3>1
  <2> QED BY <2>5, <2>6
<1>7. StoredMemory(M, f, addr, v) = [m \in 0 .. 4 * D - 1 |->
        IF (m - addr) % (4 * D) < n THEN (v \div 2^(((m - addr) % (4 * D)) * ByteBits)) % 2^ByteBits ELSE M[m]]
  BY ONLY <1>1, <1>5 DEF StoredMemory
<1>8. \A m \in 0 .. 4 * D - 1 :
        (IF (m - addr) % (4 * D) < n THEN (v \div 2^(((m - addr) % (4 * D)) * ByteBits)) % 2^ByteBits
                                    ELSE M[m]) = N[m]
  BY <1>6
<1>9. StoredMemory(M, f, addr, v) = [m \in 0 .. 4 * D - 1 |-> N[m]]
  BY ONLY <1>7, <1>8
<1>10. N = [m \in 0 .. 4 * D - 1 |-> N[m]]
  BY ONLY <1>1, <1>4 DEF MemoryOf
<1> QED BY <1>4, <1>9, <1>10, <1>a, <1>b

(* Writing the same lanes again changes nothing.                            *)
LEMMA MergeTwice ==
  ASSUME NEW x \in Word, NEW w \in Int, NEW S, NEW y, y = MergeLanes(x, w, S)
  PROVE  MergeLanes(y, w, S) = y
<1>1. y \in Word /\ x \in Int /\ y \in Int
  BY MergeWord, XlenPow
<1>2. ASSUME NEW k \in 0 .. 3 PROVE Lane(IF k \in S THEN w ELSE y, k) = Lane(IF k \in S THEN w ELSE x, k)
  BY <1>1, MergeIs
<1>3. /\ Lane(IF 0 \in S THEN w ELSE y, 0) = Lane(IF 0 \in S THEN w ELSE x, 0)
      /\ Lane(IF 1 \in S THEN w ELSE y, 1) = Lane(IF 1 \in S THEN w ELSE x, 1)
      /\ Lane(IF 2 \in S THEN w ELSE y, 2) = Lane(IF 2 \in S THEN w ELSE x, 2)
      /\ Lane(IF 3 \in S THEN w ELSE y, 3) = Lane(IF 3 \in S THEN w ELSE x, 3)
  BY <1>2
<1> QED BY <1>3 DEF MergeLanes

-----------------------------------------------------------------------------
(* Steps of the pipeline in which no instruction leaves EX.                 *)
Fires == id_ex.valid /\ ~m_stall

(* The registers and the memory the pipeline stands for, in two steps.      *)
LEMMA RegsStand ==
  /\ ArchRegs = Overlay(RegsAfterWrite, ex_mem, ExMemResult)
  /\ ArchMem = MemoryOf(DmemAfterWrite)
<1>1. Overlay(regs, mem_wb, wb_data) = RegsAfterWrite
  BY DEF Overlay, RegsAfterWrite, RegWe
<1> QED BY <1>1 DEF ArchRegs, ArchMem, MemoryOf

(* What an instruction's control says of its result.                        *)
LEMMA ControlIs ==
  ASSUME NEW i, NEW o, o = Decode(i)
  PROVE  /\ o.wb_sel = "LOAD" => ~o.mem_write
         /\ o.is_mret => o.alu_op = "ADD"
<1>1. CASE i.opcode \in {"LUI", "AUIPC", "JAL", "JALR", "BRANCH", "OP_IMM", "OP"}
  <2>1. CASE i.opcode = "LUI"
    BY <2>1 DEF Decode, NoControl
  <2>2. CASE i.opcode = "AUIPC"
    BY <2>2 DEF Decode, NoControl
  <2>3. CASE i.opcode = "JAL"
    BY <2>3 DEF Decode, NoControl
  <2>4. CASE i.opcode = "JALR"
    BY <2>4 DEF Decode, NoControl
  <2>5. CASE i.opcode = "BRANCH"
    BY <2>5 DEF Decode, NoControl
  <2>6. CASE i.opcode = "OP_IMM"
    BY <2>6 DEF Decode, NoControl
  <2>7. CASE i.opcode = "OP"
    BY <2>7 DEF Decode, NoControl
  <2> QED BY <1>1, <2>1, <2>2, <2>3, <2>4, <2>5, <2>6, <2>7
<1>2. CASE i.opcode = "LOAD"
  BY <1>2 DEF Decode, NoControl
<1>3. CASE i.opcode = "STORE"
  BY <1>3 DEF Decode, NoControl
<1>4. CASE i.opcode = "SYSTEM"
  BY <1>4 DEF Decode, NoControl, SystemControl
<1>5. CASE i.opcode \notin {"LUI", "AUIPC", "JAL", "JALR", "BRANCH", "OP_IMM", "OP", "LOAD", "STORE", "SYSTEM"}
  BY <1>5 DEF Decode, NoControl
<1> QED BY <1>1, <1>2, <1>3, <1>4, <1>5

(* Without a write, a trap or an MRET no CSR of the machine changes.        *)
LEMMA CsrStands ==
  ASSUME Stored, NEW stall, NEW irq, CsrClock(stall, irq),
         ~ex_csr_write(stall).en, ~ex_is_trap(stall), ~(id_ex.valid /\ ~stall /\ id_ex.op.is_mret)
  PROVE  ArchCsr' = ArchCsr
<1> DEFINE write == ex_csr_write(stall)
           trap  == [en |-> ex_is_trap(stall), epc |-> id_ex.pc,
                     cause |-> ex_trap.cause, tval |-> ex_trap.tval]
           mret  == id_ex.valid /\ ~stall /\ id_ex.op.is_mret
<1>1. csr' = CsrNext(csr, irq, write, trap, mret)
  BY DEF CsrClock
<1>2. ~write.en /\ ~trap.en /\ ~mret
  OBVIOUS
<1>3. DOMAIN csr = CsrFields
  BY DEF Stored, CsrType, CsrFields, CsrNames
<1> HIDE DEF write, trap, mret
<1>4. ASSUME NEW name \in CsrNames \ {"mip", "meipend"}
      PROVE  CsrRead(csr', name) = CsrRead(csr, name)
  BY <1>1, <1>2, <1>3, CsrSampled
<1> QED BY <1>4 DEF ArchCsr

(* The kinds of such steps.                                                 *)
LEMMA QuietKinds ==
  ASSUME DInv, NEW imem_ready, NEW dmem_ready, NEW irq, Clock(imem_ready, dmem_ready, irq), ~Fires
  PROVE  /\ ~id_ex.valid \/ (id_ex.valid /\ m_stall)
         /\ m_stall => id_ex.valid /\ id_ex.op.alu_op \in ALU_MUL_OPS \cup ALU_DIV_OPS
         /\ \/ ClockMemStall(imem_ready, dmem_ready, irq) /\ ~id_ex.valid /\ ~m_stall /\ ex_mem.valid
            \/ ClockAdvance(imem_ready, dmem_ready, irq)
<1>1. m_stall => id_ex.valid /\ id_ex.op.alu_op \in ALU_MUL_OPS \cup ALU_DIV_OPS
  BY DEF m_stall, MStall
<1>2. ~ClockRedirect(imem_ready, dmem_ready, irq)
  BY DEF ClockRedirect, ex_redirect, ExFire, Fires
<1>3. ClockMemStall(imem_ready, dmem_ready, irq) => ex_mem.valid
  BY DEF ClockMemStall, mem_stall, dmem_read_en, dmem_write_en
<1>4. ex_mem.valid => ~id_ex.valid
  BY DEF DInv, IInv, FetchSpacing
<1> QED BY <1>1, <1>2, <1>3, <1>4 DEF Clock, Fires

(* No such step changes a CSR of the machine.                               *)
LEMMA QuietCsr ==
  ASSUME DInv, NEW imem_ready, NEW dmem_ready, NEW irq, Clock(imem_ready, dmem_ready, irq), ~Fires
  PROVE  ArchCsr' = ArchCsr
<1>1. PICK stall : CsrClock(stall, irq)
  BY DEF Clock, ClockMemStall, ClockRedirect, ClockAdvance, CommonClock
<1>2. ~ex_csr_write(stall).en /\ ~ex_is_trap(stall)
  BY DEF ex_csr_write, ex_is_trap, ExFire, Fires
<1>3. ~(id_ex.valid /\ ~stall /\ id_ex.op.is_mret)
  <2>1. PICK i : id_ex.op = Decode(i)
    BY DEF DInv, ExData, IsControl
  <2>2. id_ex.op.is_mret => id_ex.op.alu_op = "ADD"
    BY <2>1, ControlIs
  <2> QED BY <2>2, QuietKinds DEF ALU_MUL_OPS, ALU_DIV_OPS
<1> QED BY <1>1, <1>2, <1>3, CsrStands DEF DInv

(* A store that waits in MEM writes its lanes again and again.              *)
LEMMA QuietMem ==
  ASSUME DInv, NEW imem_ready, NEW dmem_ready, NEW irq, Clock(imem_ready, dmem_ready, irq), ~Fires
  PROVE  ArchMem' = ArchMem
<1>1. dmem' = DmemAfterWrite
  BY DEF Clock, ClockMemStall, ClockRedirect, ClockAdvance, CommonClock
<1>2. DmemAfterWrite' = dmem'
  <2>1. CASE ex_mem' = ex_mem
    <3>1. PICK w, S, k : w = dmem_write_data /\ S = dmem_wstrb /\ k = dmem_index
      OBVIOUS
    <3>2. dmem_write_data' = w /\ dmem_wstrb' = S /\ dmem_index' = k /\ dmem_write_en' = dmem_write_en
      BY <2>1, <3>1 DEF dmem_write_data, dmem_wstrb, dmem_index, dmem_write_en, dmem_addr
    <3>3. CASE dmem_write_en
      <4>1. PICK y : y = MergeLanes(dmem[k], w, S)
        OBVIOUS
      <4>2. w \in Int
        <5>1. dmem_addr % 4 \in 0 .. 3 /\ ex_mem.store_data \in Word
          BY MemoryValues DEF DInv, MemData
        <5> QED BY <3>1, <5>1, StoreInt DEF dmem_write_data
      <4>3. dmem \in [0 .. DmemWords - 1 -> Word] /\ k \in 0 .. DmemWords - 1 /\ dmem[k] \in Word
        BY <3>1, MemoryValues DEF DInv, Stored
      <4>4. MergeLanes(y, w, S) = y
        BY <4>1, <4>2, <4>3, MergeTwice
      <4>5. dmem' = [dmem EXCEPT ![k] = y]
        BY <1>1, <3>1, <3>3, <4>1 DEF DmemAfterWrite
      <4>6. DmemAfterWrite' = [dmem' EXCEPT ![k] = MergeLanes(dmem'[k], w, S)]
        BY <3>2, <3>3 DEF DmemAfterWrite
      <4>7. dmem'[k] = y /\ DOMAIN dmem' = 0 .. DmemWords - 1
        BY <4>3, <4>5
      <4>8. [dmem' EXCEPT ![k] = y] = dmem'
        BY <4>3, <4>5
      <4> QED BY <4>4, <4>6, <4>7, <4>8
    <3>4. CASE ~dmem_write_en
      BY <3>2, <3>4 DEF DmemAfterWrite
    <3> QED BY <3>3, <3>4
  <2>2. CASE ~ex_mem'.valid
    BY <2>2 DEF DmemAfterWrite, dmem_write_en
  <2>3. ClockMemStall(imem_ready, dmem_ready, irq) => ex_mem' = ex_mem
    BY DEF ClockMemStall
  <2>4. ClockAdvance(imem_ready, dmem_ready, irq) => ~ex_mem'.valid
    BY DEF ClockAdvance, ExMemNext, Fires
  <2> QED BY <2>1, <2>2, <2>3, <2>4, QuietKinds
<1> QED BY <1>1, <1>2, RegsStand DEF ArchMem

(* A result moves from MEM to WB and on to the register file.               *)
LEMMA QuietRegs ==
  ASSUME DInv, NEW imem_ready, NEW dmem_ready, NEW irq, Clock(imem_ready, dmem_ready, irq), ~Fires
  PROVE  ArchRegs' = ArchRegs
<1>1. regs' = RegsAfterWrite /\ dmem' = DmemAfterWrite
  BY DEF Clock, ClockMemStall, ClockRedirect, ClockAdvance, CommonClock
<1>2. CASE ClockMemStall(imem_ready, dmem_ready, irq)
  <2>1. ex_mem' = ex_mem /\ ~mem_wb'.valid
    BY <1>2 DEF ClockMemStall, DInv, IInv, Shapes
  <2>2. RegsAfterWrite' = regs'
    BY <2>1 DEF RegsAfterWrite, RegWe
  <2>3. ex_mem_forward_data' = ex_mem_forward_data
    BY <2>1 DEF ex_mem_forward_data
  <2>4. ex_mem.op.wb_sel = "LOAD" => mem_load_data' = mem_load_data
    <3>1. PICK i : ex_mem.op = Decode(i)
      BY DEF DInv, MemData, IsControl
    <3>2. ex_mem.op.wb_sel = "LOAD" => ~dmem_write_en
      BY <3>1, ControlIs DEF dmem_write_en
    <3>3. ex_mem.op.wb_sel = "LOAD" => dmem' = dmem
      BY <1>1, <3>2 DEF DmemAfterWrite
    <3> QED BY <2>1, <3>3 DEF mem_load_data, dmem_read_data, dmem_index, dmem_addr
  <2>5. ExMemResult' = ExMemResult
    BY <2>1, <2>3, <2>4 DEF ExMemResult
  <2> QED BY <1>1, <2>1, <2>2, <2>5, RegsStand DEF ArchRegs, Overlay, RegsAfterWrite, RegWe
<1>3. CASE ClockAdvance(imem_ready, dmem_ready, irq)
  <2>1. /\ ~ex_mem'.valid /\ mem_wb'.valid = ex_mem.valid /\ mem_wb'.op = ex_mem.op
        /\ mem_wb'.pc4 = ex_mem.pc4 /\ mem_wb'.alu_result = ex_mem.alu_result
        /\ mem_wb'.csr_old = ex_mem.csr_old /\ mem_wb'.load_data = mem_load_data
    BY <1>3 DEF ClockAdvance, ExMemNext, MemWbNext, Fires
  <2>2. wb_data' = ExMemResult
    BY <2>1 DEF wb_data, ExMemResult, ex_mem_forward_data
  <2>3. ArchRegs' = RegsAfterWrite'
    BY <2>1 DEF ArchRegs, Overlay, RegsAfterWrite, RegWe
  <2>4. RegsAfterWrite' = Overlay(regs', ex_mem, ExMemResult)
    BY <2>1, <2>2 DEF RegsAfterWrite, RegWe, Overlay
  <2> QED BY <1>1, <2>3, <2>4, RegsStand
<1> QED BY <1>2, <1>3, QuietKinds

(* What goes into ID is the instruction at pc_f.                            *)
LEMMA AcceptedPc ==
  ASSUME DInv, NEW imem_ready, if_buf.valid \/ if_live_resp_valid(imem_ready)
  PROVE  if_resp.pc = pc_f /\ if_resp.valid = TRUE
<1>1. CASE if_buf.valid
  BY <1>1 DEF DInv, IInv, Shapes, if_resp
<1>2. CASE ~if_buf.valid
  BY <1>2, LiveResponse DEF if_resp
<1> QED BY <1>1, <1>2

(* With nothing in EX that leaves it the oldest instruction keeps its       *)
(* place; an instruction that leaves EX without a redirect hands over to    *)
(* the one at pc_f.                                                         *)
LEMMA FrontMoves ==
  ASSUME DInv, NEW imem_ready \in BOOLEAN, NEW dmem_ready, NEW irq,
         ClockAdvance(imem_ready, dmem_ready, irq), ~m_stall
  PROVE  ArchPc' = IF if_id.valid THEN if_id.pc ELSE pc_f
<1> DEFINE accept == if_accept(imem_ready, FALSE)
<1>1. /\ FetchAdvance(imem_ready, accept, imem_req(imem_ready, FALSE))
      /\ IfIdNext(FALSE, accept) /\ IdExNext(FALSE)
  BY DEF ClockAdvance
<1>2. id_ex'.valid = if_id.valid /\ id_ex'.pc = if_id.pc
  BY <1>1, IdExClock DEF DInv
<1>3. stall_if = FALSE
  BY OnlyUnitsStall DEF DInv, m_stall, MStall
<1>4. if_id' = IF accept THEN if_resp ELSE [if_id EXCEPT !.valid = FALSE]
  BY <1>1, <1>3 DEF IfIdNext
<1>5. pc_f' = IF accept THEN Wrap(pc_f + 4) ELSE pc_f
  BY <1>1 DEF FetchAdvance
<1>6. accept => if_resp.pc = pc_f /\ if_resp.valid = TRUE
  BY AcceptedPc DEF if_accept
<1>7. DOMAIN if_id = IfFields
  BY DEF DInv, IInv, Shapes
<1>8. \/ if_id'.valid = TRUE /\ if_id'.pc = pc_f
      \/ if_id'.valid = FALSE /\ pc_f' = pc_f
  <2>1. CASE accept
    <3>1. if_id' = if_resp
      BY <1>4, <2>1
    <3>2. if_resp.pc = pc_f /\ if_resp.valid = TRUE
      BY <1>6, <2>1
    <3> QED BY <3>1, <3>2
  <2>2. CASE ~accept
    <3>1. if_id' = [if_id EXCEPT !.valid = FALSE]
      BY <1>4, <2>2
    <3>2. if_id'.valid = FALSE
      BY <1>7, <3>1 DEF IfFields
    <3> QED BY <1>5, <2>2, <3>2
  <2> QED BY <2>1, <2>2
<1> QED BY <1>2, <1>8 DEF ArchPc

(* No such step changes the PC of the machine.                              *)
LEMMA QuietPc ==
  ASSUME DInv, NEW imem_ready \in BOOLEAN, NEW dmem_ready, NEW irq,
         Clock(imem_ready, dmem_ready, irq), ~Fires
  PROVE  ArchPc' = ArchPc
<1>1. CASE ClockMemStall(imem_ready, dmem_ready, irq)
  BY <1>1 DEF ClockMemStall, FetchAdvance, ArchPc
<1>2. CASE ClockAdvance(imem_ready, dmem_ready, irq) /\ m_stall
  <2>1. id_ex.valid /\ id_ex' = id_ex
    BY <1>2, IdExClock, QuietKinds DEF ClockAdvance, DInv
  <2> QED BY <2>1 DEF ArchPc
<1>3. CASE ClockAdvance(imem_ready, dmem_ready, irq) /\ ~m_stall
  <2>1. ~id_ex.valid
    BY <1>3 DEF Fires
  <2> QED BY <1>3, <2>1, FrontMoves DEF ArchPc
<1> QED BY <1>1, <1>2, <1>3, QuietKinds

-----------------------------------------------------------------------------
(* What a CSR instruction read of the pending bits, and of what is no CSR.  *)
PendingReads ==
  /\ csr.meipend \in IrqInputs \cup {0}
  /\ id_ex.valid /\ id_ex.op.csr_read =>
       /\ id_ex.op.csr_addr = "mip" => id_ex.csr_old \in {0, 2^11}
       /\ id_ex.op.csr_addr = "meipend" => id_ex.csr_old \in IrqInputs \cup {0}
       /\ id_ex.op.csr_addr \notin CsrNames => id_ex.csr_old = 0

(* What the machine reads of a register, and that a unit at work captured   *)
(* what it reads for the instruction in EX.                                 *)
OperandValue(r) == IF r = 0 THEN 0 ELSE ArchRegs[r]
UnitOperands ==
  id_ex.valid /\ UnitActive /\ {id_ex.op.rs1, id_ex.op.rs2} \subseteq Reg
    => UnitsOk(OperandValue(id_ex.op.rs1), OperandValue(id_ex.op.rs2))

-----------------------------------------------------------------------------
(* An instruction leaves EX: MEM and ID are empty, so what the pipeline     *)
(* stands for before is in the register file and the memory, and after it   *)
(* is that instruction's doing alone.                                       *)
Executes(irq) ==
  /\ DInv /\ OperandsInOrder /\ CsrReadReturnsOld /\ PendingReads /\ UnitOperands
  /\ id_ex.valid /\ ~m_stall /\ ~ex_mem.valid
  /\ ArchPc = id_ex.pc /\ ArchRegs = RegsAfterWrite /\ ArchMem = MemoryOf(dmem)
  /\ CsrClock(FALSE, irq) /\ dmem' = dmem /\ imem' = imem
  /\ ExMemNext(ex_trap # NoTrap)
  /\ ArchRegs' = Overlay(ArchRegs, ex_mem', ExMemResult')
  /\ ArchMem' = MemoryOf(DmemAfterWrite')
  /\ ArchPc' = IF ex_trap # NoTrap \/ id_ex.op.is_mret \/ ExBranchTaken
                 THEN ex_redirect_target ELSE Wrap(id_ex.pc + 4)

LEMMA Fired ==
  ASSUME DInv, OperandsInOrder, CsrReadReturnsOld, PendingReads, UnitOperands,
         NEW imem_ready \in BOOLEAN, NEW dmem_ready, NEW irq,
         Clock(imem_ready, dmem_ready, irq), Fires
  PROVE  Executes(irq)
<1>1. id_ex.valid /\ ~m_stall /\ ~ex_mem.valid /\ ~if_id.valid
  BY DEF Fires, DInv, IInv, FetchSpacing
<1>2. ~ClockMemStall(imem_ready, dmem_ready, irq)
  BY <1>1 DEF ClockMemStall, mem_stall, dmem_read_en, dmem_write_en
<1>3. ClockRedirect(imem_ready, dmem_ready, irq) \/ ClockAdvance(imem_ready, dmem_ready, irq)
  BY <1>2 DEF Clock
<1>4. ex_redirect(FALSE) = (ex_trap # NoTrap \/ id_ex.op.is_mret \/ ExBranchTaken)
      /\ ex_is_trap(FALSE) = (ex_trap # NoTrap)
  BY <1>1 DEF ex_redirect, ex_is_trap, ExFire
<1>5. DmemAfterWrite = dmem
  BY <1>1 DEF DmemAfterWrite, dmem_write_en
<1>6. /\ CsrClock(FALSE, irq) /\ dmem' = dmem /\ imem' = imem /\ regs' = RegsAfterWrite
      /\ MemWbNext
  BY <1>3, <1>5 DEF ClockRedirect, ClockAdvance, CommonClock
<1>7. ExMemNext(ex_trap # NoTrap)
  <2>1. CASE ClockRedirect(imem_ready, dmem_ready, irq)
    BY <1>4, <2>1 DEF ClockRedirect
  <2>2. CASE ClockAdvance(imem_ready, dmem_ready, irq)
    <3>1. (ex_trap # NoTrap) = FALSE
      BY <1>4, <2>2 DEF ClockAdvance
    <3> QED BY <2>2, <3>1 DEF ClockAdvance
  <2> QED BY <1>3, <2>1, <2>2
<1>8. ArchPc = id_ex.pc /\ ArchMem = MemoryOf(dmem) /\ ArchRegs = RegsAfterWrite
  BY <1>1, <1>5, RegsStand DEF ArchPc, Overlay
<1>9. ArchMem' = MemoryOf(DmemAfterWrite')
  BY DEF ArchMem, MemoryOf
<1>10. ArchRegs' = Overlay(ArchRegs, ex_mem', ExMemResult')
  <2>1. ~mem_wb'.valid
    BY <1>1, <1>6 DEF MemWbNext
  <2> QED BY <1>6, <1>8, <2>1 DEF ArchRegs, Overlay
<1>11. ArchPc' = IF ex_trap # NoTrap \/ id_ex.op.is_mret \/ ExBranchTaken
                   THEN ex_redirect_target ELSE Wrap(id_ex.pc + 4)
  <2>1. CASE ClockRedirect(imem_ready, dmem_ready, irq)
    <3>1. ex_redirect(FALSE) /\ pc_f' = ex_redirect_target
      BY <2>1 DEF ClockRedirect, FetchRedirect
    <3>2. ~id_ex'.valid
      BY <1>1, <2>1, IdExClock DEF ClockRedirect, DInv
    <3>3. ~if_id'.valid
      <4>1. if_id' = [if_id EXCEPT !.valid = FALSE] /\ DOMAIN if_id = IfFields
        BY <2>1 DEF ClockRedirect, IfIdNext, DInv, IInv, Shapes
      <4> QED BY <4>1 DEF IfFields
    <3> QED BY <1>4, <3>1, <3>2, <3>3 DEF ArchPc
  <2>2. CASE ClockAdvance(imem_ready, dmem_ready, irq)
    <3>1. ~ex_redirect(FALSE)
      BY <2>2 DEF ClockAdvance
    <3>2. ArchPc' = pc_f
      BY <1>1, <2>2, FrontMoves
    <3>3. pc_f = Wrap(id_ex.pc + 4)
      BY <1>1 DEF DInv, IInv, FrontInOrder
    <3> QED BY <1>4, <3>1, <3>2, <3>3
  <2> QED BY <1>3, <2>1, <2>2
<1> QED BY <1>1, <1>6, <1>7, <1>8, <1>9, <1>10, <1>11 DEF Executes

-----------------------------------------------------------------------------
(* The values of the machine's registers are words.                         *)
LEMMA ArchRegsWords ==
  ASSUME DInv, ~ex_mem.valid
  PROVE  ArchRegs \in [Reg -> Word]
         /\ \A r \in Reg : ProgramOrderValue(r) = OperandValue(r) /\ OperandValue(r) \in Word
<1>1. ArchRegs = RegsAfterWrite
  BY RegsStand DEF Overlay
<1>2. ArchRegs \in [Reg -> Word]
  BY <1>1, WbWord DEF RegsAfterWrite, DInv, Stored
<1>3. ASSUME NEW r \in Reg PROVE ProgramOrderValue(r) = OperandValue(r) /\ OperandValue(r) \in Word
  <2>1. 0 \in Word
    BY XlenPow
  <2>2. OperandValue(r) \in Word
    BY <1>2, <2>1 DEF OperandValue
  <2>3. ~Writes(ex_mem, r)
    BY DEF Writes
  <2>4. regs \in [Reg -> Word]
    BY DEF DInv, Stored
  <2>5. CASE Writes(mem_wb, r)
    <3>1. RegWe /\ mem_wb.op.rd = r /\ r # 0
      BY <2>5 DEF Writes, RegWe
    <3>2. ArchRegs[r] = wb_data
      BY <1>1, <2>4, <3>1 DEF RegsAfterWrite
    <3> QED BY <2>2, <2>3, <2>5, <3>1, <3>2 DEF ProgramOrderValue, OperandValue
  <2>6. CASE ~Writes(mem_wb, r)
    <3>1. ~(RegWe /\ mem_wb.op.rd = r /\ r # 0)
      BY <2>6 DEF Writes, RegWe
    <3>2. r # 0 => ArchRegs[r] = regs[r]
      BY <1>1, <2>4, <3>1 DEF RegsAfterWrite
    <3> QED BY <2>2, <2>3, <2>6, <3>2 DEF ProgramOrderValue, OperandValue
  <2> QED BY <2>5, <2>6
<1> QED BY <1>2, <1>3

-----------------------------------------------------------------------------
(* Only an RV32M instruction uses a multicycle unit, with both registers.   *)
LEMMA UnitControl ==
  ASSUME NEW i, IsInstruction(i), NEW o, o = Decode(i), o.alu_op \in ALU_MUL_OPS \cup ALU_DIV_OPS
  PROVE  /\ i.opcode = "OP" /\ i.funct7 = 1 /\ o.alu_op = OpName(i.funct3)
         /\ o.use_rs1 /\ o.use_rs2 /\ ~o.src_a_pc /\ ~o.src_b_imm
         /\ ~o.jal /\ ~o.jalr /\ ~o.is_mret /\ ~o.mem_write /\ ~o.mem_read
<1>1. CASE i.opcode = "OP"
  <2>1. /\ o.alu_op = OpAlu(i.funct3, i.funct7) /\ o.use_rs1 /\ o.use_rs2 /\ ~o.src_a_pc /\ ~o.src_b_imm
        /\ ~o.jal /\ ~o.jalr /\ ~o.is_mret /\ ~o.mem_write /\ ~o.mem_read
    BY <1>1 DEF Decode, NoControl
  <2>2. i.funct3 = 0 \/ i.funct3 = 1 \/ i.funct3 = 2 \/ i.funct3 = 3
        \/ i.funct3 = 4 \/ i.funct3 = 5 \/ i.funct3 = 6 \/ i.funct3 = 7
    BY DEF IsInstruction
  <2>3. i.funct7 = 1
    <3>1. CASE i.funct7 = 0
      BY <2>1, <2>2, <3>1 DEF OpAlu, ALU_MUL_OPS, ALU_DIV_OPS
    <3>2. CASE i.funct7 \notin {0, 1}
      BY <2>1, <3>2 DEF OpAlu, ALU_MUL_OPS, ALU_DIV_OPS
    <3> QED BY <3>1, <3>2
  <2>4. OpAlu(i.funct3, 1) = OpName(i.funct3)
    BY <2>2 DEF OpAlu, OpName
  <2> QED BY <1>1, <2>1, <2>3, <2>4
<1>2. CASE i.opcode = "OP_IMM"
  <2>1. o.alu_op = OpImmAlu(i.funct3, i.funct7)
    BY <1>2 DEF Decode, NoControl
  <2>2. OpImmAlu(i.funct3, i.funct7) \notin ALU_MUL_OPS \cup ALU_DIV_OPS
    BY DEF OpImmAlu, ALU_MUL_OPS, ALU_DIV_OPS
  <2> QED BY <2>1, <2>2
<1>3. CASE i.opcode \in {"LUI", "AUIPC", "JAL", "JALR"}
  <2>1. o.alu_op \in {"ADD", "COPY_B"}
    BY <1>3, UpperControl, JumpControl
  <2> QED BY <2>1 DEF ALU_MUL_OPS, ALU_DIV_OPS
<1>4. CASE i.opcode \in {"BRANCH", "LOAD", "STORE"}
  <2>1. o.alu_op = "ADD"
    BY <1>4, BranchControl, MemoryControl
  <2> QED BY <2>1 DEF ALU_MUL_OPS, ALU_DIV_OPS
<1>5. CASE i.opcode = "SYSTEM"
  BY <1>5 DEF Decode, NoControl, SystemControl, ALU_MUL_OPS, ALU_DIV_OPS
<1>6. CASE i.opcode \notin {"LUI", "AUIPC", "JAL", "JALR", "BRANCH", "OP_IMM", "OP", "LOAD", "STORE", "SYSTEM"}
  BY <1>6 DEF Decode, NoControl, ALU_MUL_OPS, ALU_DIV_OPS
<1> QED BY <1>1, <1>2, <1>3, <1>4, <1>5, <1>6

(* A unit at work keeps the operands its instruction has in program order.  *)
LEMMA UnitOperandsMove ==
  ASSUME DInv, OperandsInOrder, UnitOperands, NEW imem_ready \in BOOLEAN, NEW dmem_ready, NEW irq,
         Clock(imem_ready, dmem_ready, irq)
  PROVE  UnitOperands'
<1> SUFFICES ASSUME id_ex'.valid, UnitActive', {id_ex'.op.rs1, id_ex'.op.rs2} \subseteq Reg
             PROVE  UnitsOk(OperandValue(id_ex.op.rs1), OperandValue(id_ex.op.rs2))'
  BY DEF UnitOperands
<1>1. PICK stall \in BOOLEAN :
        /\ stall => ~id_ex.valid
        /\ mul' = MulNext(mul, mul_start(stall), id_ex.op.alu_op, ex_alu_src_a, ex_alu_src_b, stall)
        /\ div' = DivNext(div, div_start(stall), id_ex.op.alu_op, ex_alu_src_a, ex_alu_src_b, stall)
  <2>1. ClockMemStall(imem_ready, dmem_ready, irq) => ~id_ex.valid
    BY DEF ClockMemStall, mem_stall, dmem_read_en, dmem_write_en, DInv, IInv, FetchSpacing
  <2> QED BY <2>1 DEF Clock, ClockMemStall, ClockRedirect, ClockAdvance, CommonClock
<1>2. m_stall
  BY <1>1, UnitsClock DEF UnitActive, DInv
<1>3. /\ id_ex.valid /\ ~Fires /\ id_ex.op.alu_op \in ALU_MUL_OPS \cup ALU_DIV_OPS
      /\ ClockAdvance(imem_ready, dmem_ready, irq)
  BY <1>2, QuietKinds DEF Fires
<1>4. id_ex' = id_ex /\ ArchRegs' = ArchRegs /\ ~ex_mem.valid
  BY <1>2, <1>3, IdExClock, QuietRegs DEF ClockAdvance, DInv, IInv, FetchSpacing
<1>5. PICK r1, r2, op : r1 = id_ex.op.rs1 /\ r2 = id_ex.op.rs2 /\ op = id_ex.op.alu_op
  OBVIOUS
<1>6. r1 \in Reg /\ r2 \in Reg
  BY <1>4, <1>5
<1>7. PICK a \in Word, b \in Word : a = OperandValue(r1) /\ b = OperandValue(r2)
  BY <1>4, <1>6, ArchRegsWords
<1>8. OperandValue(id_ex.op.rs1)' = a /\ OperandValue(id_ex.op.rs2)' = b
  BY <1>4, <1>5, <1>7 DEF OperandValue
<1>9. ex_alu_src_a \in Word /\ ex_alu_src_b \in Word
  BY OperandWords DEF DInv
<1>10. UnitsOk(a, b) /\ (mul_start(stall) \/ div_start(stall) => ex_alu_src_a = a /\ ex_alu_src_b = b)
  <2>1. CASE UnitActive
    <3>1. UnitsOk(a, b)
      BY <1>3, <1>5, <1>6, <1>7, <2>1 DEF UnitOperands
    <3>2. ~(mul_start(stall) \/ div_start(stall))
      BY <2>1, StartRests DEF UnitActive, DInv
    <3> QED BY <3>1, <3>2
  <2>2. CASE ~UnitActive
    <3>1. mul \in MulRegs /\ div \in DivRegs
      BY DEF DInv, UnitData, UnitsOk, MulOk, DivOk
    <3>2. UnitsOk(a, b)
      BY <2>2, <3>1, UnitsRest DEF UnitsOk, UnitActive
    <3>3. PICK i : IsInstruction(i) /\ id_ex.op = Decode(i)
      BY DEF DInv, ExData, IsControl
    <3>4. id_ex.op.use_rs1 /\ id_ex.op.use_rs2 /\ ~id_ex.op.src_a_pc /\ ~id_ex.op.src_b_imm
      BY <1>3, <3>3, UnitControl
    <3>5. ex_forward_a_data = ProgramOrderValue(r1) /\ ex_forward_b_data = ProgramOrderValue(r2)
      BY <1>3, <1>5, <1>6, <2>2, <3>4 DEF OperandsInOrder
    <3>6. ex_alu_src_a = a /\ ex_alu_src_b = b
      BY <1>4, <1>6, <1>7, <3>4, <3>5, ArchRegsWords DEF ex_alu_src_a, ex_alu_src_b
    <3> QED BY <3>2, <3>6
  <2> QED BY <2>1, <2>2
<1>11. MulOk(mul', op, a, b) /\ DivOk(div', op, a, b)
  <2>1. /\ a = IF mul_start(stall) \/ div_start(stall) THEN ex_alu_src_a ELSE a
        /\ b = IF mul_start(stall) \/ div_start(stall) THEN ex_alu_src_b ELSE b
    BY <1>10
  <2>2. IInv
    BY DEF DInv
  <2> QED BY ONLY <1>1, <1>3, <1>5, <1>7, <1>9, <1>10, <2>1, <2>2, UnitsMove
<1> QED BY <1>4, <1>5, <1>8, <1>11 DEF UnitsOk

-----------------------------------------------------------------------------
(* The pending bits hold a value of the interrupt lines, and so does what a *)
(* CSR instruction read of them.                                            *)
LEMMA PendingSampled ==
  ASSUME NEW c, NEW irq, NEW write, NEW trap, NEW mret, DOMAIN c = CsrFields
  PROVE  CsrNext(c, irq, write, trap, mret).meipend = irq
<1> DEFINE sampled == [c EXCEPT !.meipend = irq]
           written == IF write.en THEN CsrWrite(sampled, write.addr, write.data)
                                  ELSE sampled
<1>1. "meipend" \in DOMAIN sampled /\ sampled.meipend = irq
  BY DEF CsrFields, CsrNames
<1>2. CsrNext(c, irq, write, trap, mret) =
        CASE trap.en -> CsrTrap(written, c, trap)
          [] ~trap.en /\ mret -> CsrMret(written, c)
          [] OTHER -> written
  BY DEF CsrNext
<1> HIDE DEF sampled
<1>3. CsrWrite(sampled, write.addr, write.data).meipend = sampled.meipend
  <2>1. PICK a, v : a = write.addr /\ v = write.data
    OBVIOUS
  <2>2. CsrWrite(sampled, a, v).meipend = sampled.meipend
    BY DEF CsrWrite
  <2> QED BY <2>1, <2>2
<1>4. written.meipend = irq
  BY <1>1, <1>3
<1> HIDE DEF written
<1>5. CsrTrap(written, c, trap).meipend = written.meipend /\ CsrMret(written, c).meipend = written.meipend
  BY DEF CsrTrap, CsrMret
<1>6. CASE trap.en
  BY <1>2, <1>4, <1>5, <1>6
<1>7. CASE ~trap.en
  BY <1>2, <1>4, <1>5, <1>7
<1> QED BY <1>6, <1>7

LEMMA PendingMoves ==
  ASSUME DInv, PendingReads, NEW imem_ready \in BOOLEAN, NEW dmem_ready, NEW irq \in IrqInputs,
         Clock(imem_ready, dmem_ready, irq)
  PROVE  PendingReads'
<1>1. csr'.meipend = irq
  <2>1. PICK stall : CsrClock(stall, irq)
    BY DEF Clock, ClockMemStall, ClockRedirect, ClockAdvance, CommonClock
  <2>2. DOMAIN csr = CsrFields
    BY DEF DInv, Stored, CsrType, CsrFields, CsrNames
  <2> QED BY <2>1, <2>2, PendingSampled DEF CsrClock
<1>2. \/ ~id_ex'.valid \/ id_ex' = id_ex
      \/ id_ex'.csr_old = CsrRead(csr, id_ex'.op.csr_addr)
  <2>1. CASE ClockMemStall(imem_ready, dmem_ready, irq)
    BY <2>1 DEF ClockMemStall
  <2>2. CASE ClockRedirect(imem_ready, dmem_ready, irq)
    <3>1. ~m_stall
      BY <2>2 DEF ClockRedirect, ex_redirect, ExFire
    <3> QED BY <2>2, <3>1, IdExClock DEF ClockRedirect, DInv
  <2>3. CASE ClockAdvance(imem_ready, dmem_ready, irq)
    BY <2>3, IdExClock DEF ClockAdvance, DInv
  <2> QED BY <2>1, <2>2, <2>3 DEF Clock
<1>3. CASE id_ex'.csr_old = CsrRead(csr, id_ex'.op.csr_addr)
  <2>1. CsrRead(csr, "mip") \in {0, 2^11} /\ CsrRead(csr, "meipend") = csr.meipend
    BY DEF CsrRead, CsrNames, MIP_MEIP_BIT
  <2>2. ASSUME NEW n, n \notin CsrNames PROVE CsrRead(csr, n) = 0
    BY <2>2 DEF CsrRead, CsrNames
  <2> QED BY <1>1, <1>3, <2>1, <2>2 DEF PendingReads
<1> QED BY <1>1, <1>2, <1>3 DEF PendingReads

-----------------------------------------------------------------------------
(* The encodings of RV32IM: those the two tables agree on. A register left  *)
(* out of Reg is no operand.                                                *)
Implemented(i) ==
  /\ i.opcode \in {"LUI", "AUIPC", "JAL", "JALR", "BRANCH", "LOAD", "STORE",
                   "OP_IMM", "OP", "SYSTEM", "MISC_MEM", "NONE"}
  /\ i.opcode = "BRANCH" => i.funct3 \in {0, 1, 4, 5, 6, 7}
  /\ i.opcode = "LOAD" => i.funct3 \in {0, 1, 2, 4, 5}
  /\ i.opcode = "STORE" => i.funct3 \in {0, 1, 2}
  /\ i.opcode = "OP_IMM" /\ i.funct3 = 5 => i.funct7 \in {0, 32}
  /\ i.opcode = "OP" =>
       i.funct7 \in {0, 1} \/ (i.funct7 = 32 /\ i.funct3 \in {0, 5})
  /\ Decode(i).use_rs1 => i.rs1 \in Reg
  /\ Decode(i).use_rs2 => i.rs2 \in Reg

(* The instruction that executes, and that it completes.                    *)
Instruction(irq, i) ==
  /\ Executes(irq) /\ i = InstrAt(id_ex.pc)
  /\ IsInstruction(i) /\ Implemented(i) /\ id_ex.op = Decode(i) /\ id_ex.imm = i.imm
Completes(irq, i) == Instruction(irq, i) /\ ex_trap = NoTrap /\ ~id_ex.op.is_mret

(* Decoding keeps the fields of an encoding.                                *)
LEMMA DecodedFields ==
  ASSUME NEW i
  PROVE  /\ Decode(i).rs1 = i.rs1 /\ Decode(i).rs2 = i.rs2 /\ Decode(i).rd = i.rd
         /\ Decode(i).funct3 = i.funct3 /\ Decode(i).csr_addr = i.sys
BY DEF Decode, NoControl, SystemControl

(* What executes is the decoded instruction at the machine's PC.            *)
LEMMA InstructionIs ==
  ASSUME NEW irq, Executes(irq), \A n \in 0 .. ImemWords - 1 : Implemented(imem[n])
  PROVE  Instruction(irq, InstrAt(id_ex.pc))
<1>1. id_ex.pc \in Word /\ id_ex.valid /\ Stored /\ ExData
  BY DEF Executes, DInv, ExData
<1>2. IsInstruction(InstrAt(id_ex.pc))
  BY <1>1, InstrTyped
<1>3. Implemented(InstrAt(id_ex.pc))
  <2>1. PICK q \in Int : q = id_ex.pc \div 4
    BY <1>1, XlenPow
  <2>2. q % ImemWords \in 0 .. ImemWords - 1
    BY <2>1, CoreAssumption
  <2> QED BY <2>1, <2>2 DEF InstrAt
<1> QED BY <1>1, <1>2, <1>3 DEF Instruction, ExData

-----------------------------------------------------------------------------
(* What the machine of RiscvIsa reads.                                      *)
LEMMA MachineReads ==
  ASSUME NEW irq, NEW i, Instruction(irq, i)
  PROVE  /\ Machine!Instr = i /\ ArchPc = id_ex.pc
         /\ Machine!Rs1 = OperandValue(i.rs1) /\ Machine!Rs2 = OperandValue(i.rs2)
<1>1. Machine!Instr = i /\ ArchPc = id_ex.pc
  BY DEF Instruction, Executes, Machine!Instr, InstrAt
<1> QED BY <1>1 DEF Machine!Rs1, Machine!Rs2, OperandValue

(* The operands of an instruction that does not use a multicycle unit.      *)
LEMMA OperandsAre ==
  ASSUME NEW irq, NEW i, Instruction(irq, i), id_ex.op.alu_op \notin ALU_MUL_OPS \cup ALU_DIV_OPS
  PROVE  /\ id_ex.op.use_rs1 => ex_forward_a_data = Machine!Rs1 /\ Machine!Rs1 \in Word
         /\ id_ex.op.use_rs2 => ex_forward_b_data = Machine!Rs2 /\ Machine!Rs2 \in Word
<1>1. DInv /\ OperandsInOrder /\ id_ex.valid /\ ~ex_mem.valid
  BY DEF Instruction, Executes
<1>2. ~UnitActive
  BY <1>1 DEF DInv, IInv, UnitsServeEx, UnitActive, mul_is_op, div_is_op
<1>3. /\ id_ex.op.rs1 = i.rs1 /\ id_ex.op.rs2 = i.rs2
      /\ (id_ex.op.use_rs1 => i.rs1 \in Reg) /\ (id_ex.op.use_rs2 => i.rs2 \in Reg)
  BY DecodedFields DEF Instruction, Implemented
<1>4. \A r \in Reg : ProgramOrderValue(r) = OperandValue(r) /\ OperandValue(r) \in Word
  BY <1>1, ArchRegsWords
<1>5. id_ex.op.use_rs1 => ex_forward_a_data = OperandValue(i.rs1) /\ OperandValue(i.rs1) \in Word
  BY <1>1, <1>2, <1>3, <1>4 DEF OperandsInOrder
<1>6. id_ex.op.use_rs2 => ex_forward_b_data = OperandValue(i.rs2) /\ OperandValue(i.rs2) \in Word
  BY <1>1, <1>2, <1>3, <1>4 DEF OperandsInOrder
<1> QED BY <1>5, <1>6, MachineReads

-----------------------------------------------------------------------------
(* What an instruction that completes leaves.                               *)
WordAddressed == (ex_alu_result \div 4) % DmemWords
LoadedWord ==
  LsuLoadData(id_ex.op.mem_size, id_ex.op.mem_unsigned, ex_alu_result % 4, dmem[WordAddressed])
ExResult ==
  CASE id_ex.op.wb_sel = "PC4"  -> Wrap(id_ex.pc + 4)
    [] id_ex.op.wb_sel = "CSR"  -> id_ex.csr_old
    [] id_ex.op.wb_sel = "LOAD" -> LoadedWord
    [] OTHER -> ex_alu_result
StoredWords ==
  [dmem EXCEPT ![WordAddressed] =
     MergeLanes(dmem[WordAddressed],
                LsuWriteData(id_ex.op.mem_size, ex_alu_result % 4, ex_forward_b_data),
                LsuWstrb(id_ex.op.mem_size, ex_alu_result % 4))]

(* It leaves its result in rd,                                              *)
LEMMA CompletesRegs ==
  ASSUME NEW irq, NEW i, Completes(irq, i)
  PROVE  ArchRegs' = IF id_ex.op.reg_write /\ i.rd # 0
                       THEN [ArchRegs EXCEPT ![i.rd] = ExResult] ELSE ArchRegs
<1>1. /\ ExMemNext(FALSE) /\ id_ex.valid /\ ~m_stall /\ dmem' = dmem
      /\ ArchRegs' = Overlay(ArchRegs, ex_mem', ExMemResult') /\ ~id_ex.op.is_mret
  BY DEF Completes, Instruction, Executes
<1>2. /\ ex_mem'.valid /\ ex_mem'.op = id_ex.op /\ ex_mem'.pc4 = Wrap(id_ex.pc + 4)
      /\ ex_mem'.alu_result = ex_alu_result /\ ex_mem'.csr_old = id_ex.csr_old
  BY <1>1 DEF ExMemNext
<1>3. id_ex.op.rd = i.rd
  BY DecodedFields DEF Completes, Instruction
<1>4. mem_load_data' = LoadedWord
  BY <1>1, <1>2 DEF mem_load_data, dmem_addr, dmem_read_data, dmem_index, LoadedWord, WordAddressed
<1>5. ExMemResult' = ExResult
  BY <1>2, <1>4 DEF ExMemResult, ex_mem_forward_data, ExResult
<1> QED BY <1>1, <1>2, <1>3, <1>5 DEF Overlay

(* its store in memory,                                                     *)
LEMMA CompletesMem ==
  ASSUME NEW irq, NEW i, Completes(irq, i)
  PROVE  ArchMem' = IF id_ex.op.mem_write THEN MemoryOf(StoredWords) ELSE ArchMem
<1>1. /\ ExMemNext(FALSE) /\ id_ex.valid /\ ~m_stall /\ dmem' = dmem
      /\ ArchMem' = MemoryOf(DmemAfterWrite') /\ ArchMem = MemoryOf(dmem) /\ ~id_ex.op.is_mret
  BY DEF Completes, Instruction, Executes
<1>2. /\ ex_mem'.valid /\ ex_mem'.op = id_ex.op /\ ex_mem'.store_data = ex_forward_b_data
      /\ ex_mem'.alu_result = ex_alu_result
  BY <1>1 DEF ExMemNext
<1>3. /\ dmem_index' = WordAddressed /\ (dmem_write_en' <=> id_ex.op.mem_write)
      /\ (id_ex.op.mem_write => dmem_wstrb' = LsuWstrb(id_ex.op.mem_size, ex_alu_result % 4))
      /\ dmem_write_data' = LsuWriteData(id_ex.op.mem_size, ex_alu_result % 4, ex_forward_b_data)
  <2>1. dmem_addr' = ex_alu_result /\ (dmem_write_en' <=> id_ex.op.mem_write)
    BY <1>2 DEF dmem_addr, dmem_write_en
  <2> QED BY <1>2, <2>1 DEF dmem_index, dmem_wstrb, dmem_write_data, WordAddressed
<1>4. DmemAfterWrite' = IF id_ex.op.mem_write THEN StoredWords ELSE dmem
  BY <1>1, <1>3 DEF DmemAfterWrite, StoredWords
<1> QED BY <1>1, <1>4

(* its successor in the PC,                                                 *)
LEMMA CompletesPc ==
  ASSUME NEW irq, NEW i, Completes(irq, i)
  PROVE  ArchPc' = IF id_ex.op.jalr THEN LET t == Wrap(ex_forward_a_data + i.imm) IN t - (t % 2)
                   ELSE IF ExBranchTaken THEN Wrap(id_ex.pc + i.imm)
                   ELSE Wrap(id_ex.pc + 4)
<1>1. /\ ArchPc' = IF ExBranchTaken THEN ex_redirect_target ELSE Wrap(id_ex.pc + 4)
      /\ ex_trap = NoTrap /\ ~id_ex.op.is_mret /\ id_ex.imm = i.imm
  BY DEF Completes, Instruction, Executes
<1>2. id_ex.op.jalr => ExBranchTaken
  BY DEF ExBranchTaken
<1> QED BY <1>1, <1>2 DEF ex_redirect_target

(* and, when it is no CSR instruction, the CSRs alone.                      *)
LEMMA CompletesCsr ==
  ASSUME NEW irq, NEW i, Completes(irq, i), ~id_ex.op.csr_read
  PROVE  ArchCsr' = ArchCsr /\ imem' = imem
<1>1. Stored /\ CsrClock(FALSE, irq) /\ imem' = imem /\ ex_trap = NoTrap /\ ~id_ex.op.is_mret
  BY DEF Completes, Instruction, Executes, DInv
<1>2. ~ex_csr_write(FALSE).en /\ ~ex_is_trap(FALSE)
  BY <1>1 DEF ex_csr_write, ex_is_trap
<1> QED BY <1>1, <1>2, CsrStands

(* So the machine writes rd with v when the result is v, and no register    *)
(* when none is written.                                                    *)
LEMMA WritesRd ==
  ASSUME NEW irq, NEW i, Completes(irq, i), id_ex.op.reg_write, NEW v, ExResult = Wrap(v)
  PROVE  Machine!WriteRd(v)
<1>1. ArchRegs' = IF i.rd # 0 THEN [ArchRegs EXCEPT ![i.rd] = Wrap(v)] ELSE ArchRegs
  BY CompletesRegs
<1>2. Machine!Instr = i
  BY MachineReads DEF Completes
<1> QED BY <1>1, <1>2, IsaWords DEF Machine!WriteRd

-----------------------------------------------------------------------------
(* An instruction that goes on to the next one and stores nothing.          *)
LEMMA GoesOn ==
  ASSUME NEW irq, NEW i, Completes(irq, i), ~id_ex.op.mem_write, ~id_ex.op.csr_read
  PROVE  /\ UNCHANGED <<ArchMem, ArchCsr, imem>>
         /\ ~id_ex.op.jal /\ ~id_ex.op.jalr /\ id_ex.op.branch_kind = "NONE" => Machine!NextPc
<1>1. UNCHANGED <<ArchMem, ArchCsr, imem>>
  BY CompletesMem, CompletesCsr
<1>2. ASSUME ~id_ex.op.jal, ~id_ex.op.jalr, id_ex.op.branch_kind = "NONE" PROVE Machine!NextPc
  <2>1. ~ExBranchTaken
    BY <1>2 DEF ExBranchTaken, BranchCond
  <2>2. ArchPc' = Wrap(id_ex.pc + 4)
    BY <1>2, <2>1, CompletesPc
  <2>3. ArchPc = id_ex.pc
    BY MachineReads DEF Completes
  <2> QED BY <2>2, <2>3, IsaWords DEF Machine!NextPc
<1> QED BY <1>1, <1>2

(* What an instruction reads and computes are words.                        *)
LEMMA ValuesTyped ==
  ASSUME NEW irq, NEW i, Instruction(irq, i)
  PROVE  /\ i.imm \in Word /\ id_ex.pc \in Word /\ ex_alu_result \in Word
         /\ i.funct3 \in 0 .. 7 /\ i.funct7 \in 0 .. 127 /\ {i.rd, i.rs1, i.rs2} \subseteq 0 .. 31
         /\ {ex_forward_a_data, ex_forward_b_data} \subseteq Word
         /\ i.imm \in Int /\ id_ex.pc \in Int /\ DInv
BY ResultWord, OperandWords, XlenPow DEF Instruction, Executes, DInv, ExData, IsInstruction

(* LUI and AUIPC are the machine's Upper.                                   *)
LEMMA UpperStep ==
  ASSUME NEW irq, NEW i, Completes(irq, i), i.opcode \in {"LUI", "AUIPC"}
  PROVE  Machine!Upper
<1>1. id_ex.op = Decode(i) /\ id_ex.imm = i.imm /\ Instruction(irq, i)
  BY DEF Completes, Instruction
<1>2. /\ id_ex.op.src_b_imm /\ id_ex.op.reg_write /\ ~id_ex.op.mem_write /\ ~id_ex.op.csr_read
      /\ ~id_ex.op.jal /\ ~id_ex.op.jalr /\ id_ex.op.branch_kind = "NONE" /\ id_ex.op.wb_sel = "ALU"
      /\ id_ex.op.alu_op = (IF i.opcode = "LUI" THEN "COPY_B" ELSE "ADD")
      /\ i.opcode = "AUIPC" => id_ex.op.src_a_pc
  BY <1>1, UpperControl
<1>3. Machine!NextPc /\ UNCHANGED <<ArchMem, ArchCsr, imem>>
  BY <1>2, GoesOn
<1>4. ExResult = Wrap(IF i.opcode = "LUI" THEN i.imm ELSE id_ex.pc + i.imm)
  <2>1. ExResult = AluResult(id_ex.op.alu_op, ex_alu_src_a, i.imm)
    BY <1>1, <1>2 DEF ExResult, ex_alu_result, ex_alu_src_b, mul_is_op, div_is_op, ALU_MUL_OPS, ALU_DIV_OPS
  <2>2. CASE i.opcode = "LUI"
    <3>1. ExResult = i.imm
      BY <1>2, <2>1, <2>2 DEF AluResult, ALU_MUL_OPS, ALU_DIV_OPS
    <3> QED BY <1>1, <2>2, <3>1, ValuesTyped, WrapWord
  <2>3. CASE i.opcode # "LUI"
    <3>1. ex_alu_src_a = id_ex.pc
      BY <1>2, <2>3 DEF ex_alu_src_a
    <3> QED BY <1>2, <2>1, <2>3, <3>1, AluCases
  <2> QED BY <2>2, <2>3
<1>5. Machine!Instr = i /\ ArchPc = id_ex.pc
  BY <1>1, MachineReads
<1>6. Machine!WriteRd(IF Machine!Instr.opcode = "LUI" THEN Machine!Instr.imm
                                                     ELSE ArchPc + Machine!Instr.imm)
  BY <1>2, <1>4, <1>5, WritesRd
<1> QED BY <1>3, <1>5, <1>6 DEF Machine!Upper

(* JAL and JALR are the machine's JumpAndLink.                              *)
LEMMA JumpStep ==
  ASSUME NEW irq, NEW i, Completes(irq, i), i.opcode \in {"JAL", "JALR"}
  PROVE  Machine!JumpAndLink
<1>1. id_ex.op = Decode(i) /\ id_ex.imm = i.imm /\ Instruction(irq, i)
  BY DEF Completes, Instruction
<1>2. /\ id_ex.op.reg_write /\ ~id_ex.op.mem_write /\ ~id_ex.op.csr_read /\ id_ex.op.wb_sel = "PC4"
      /\ (id_ex.op.jalr <=> i.opcode = "JALR") /\ (id_ex.op.jal <=> i.opcode = "JAL")
      /\ id_ex.op.alu_op = "ADD" /\ (i.opcode = "JALR" => id_ex.op.use_rs1)
  BY <1>1, JumpControl
<1>3. UNCHANGED <<ArchMem, ArchCsr, imem>>
  BY <1>2, GoesOn
<1>4. Machine!Instr = i /\ ArchPc = id_ex.pc
  BY <1>1, MachineReads
<1>5. Machine!WriteRd(ArchPc + 4)
  <2>1. ExResult = Wrap(ArchPc + 4)
    BY <1>2, <1>4 DEF ExResult
  <2> QED BY <1>2, <2>1, WritesRd
<1>6. ExBranchTaken
  BY <1>2 DEF ExBranchTaken
<1>7. CASE i.opcode = "JAL"
  <2>1. ArchPc' = Wrap(id_ex.pc + i.imm)
    BY <1>2, <1>6, <1>7, CompletesPc
  <2>2. Machine!Jump(ArchPc + i.imm)
    BY <1>4, <2>1, IsaWords DEF Machine!Jump
  <2> QED BY <1>3, <1>4, <1>5, <1>7, <2>2 DEF Machine!JumpAndLink
<1>8. CASE i.opcode = "JALR"
  <2>1. ex_forward_a_data = Machine!Rs1 /\ Machine!Rs1 \in Word
    BY <1>1, <1>2, <1>8, OperandsAre DEF ALU_MUL_OPS, ALU_DIV_OPS
  <2>2. PICK t : t = Wrap(Machine!Rs1 + i.imm)
    OBVIOUS
  <2>3. ArchPc' = t - (t % 2)
    BY <1>2, <1>8, <2>1, <2>2, CompletesPc
  <2>4. t \in Word
    <3>1. PICK a \in Int, b \in Int : a = Machine!Rs1 /\ b = i.imm
      <4>1. i.imm \in Int
        BY <1>1, ValuesTyped
      <4> QED BY <2>1, <4>1, XlenPow
    <3>2. a + b \in Int /\ t = Wrap(a + b)
      BY <2>2, <3>1
    <3> QED BY <3>2, WrapIn
  <2>5. t - (t % 2) \in Word
    BY <2>4, SmallerWord
  <2>6. Wrap(t - (t % 2)) = t - (t % 2)
    BY <2>5, WrapWord
  <2>7. Machine!Jump(t - (t % 2))
    BY <2>3, <2>6, IsaWords DEF Machine!Jump
  <2> QED BY <1>3, <1>4, <1>5, <1>8, <2>2, <2>7, IsaWords DEF Machine!JumpAndLink
<1> QED BY <1>7, <1>8

(* A branch, taken or not, is the machine's Branch.                         *)
LEMMA BranchStep ==
  ASSUME NEW irq, NEW i, Completes(irq, i), i.opcode = "BRANCH"
  PROVE  Machine!Branch
<1>1. id_ex.op = Decode(i) /\ id_ex.imm = i.imm /\ Instruction(irq, i) /\ i.funct3 \in {0, 1, 4, 5, 6, 7}
  BY DEF Completes, Instruction, Implemented
<1>2. /\ ~id_ex.op.reg_write /\ ~id_ex.op.mem_write /\ ~id_ex.op.csr_read
      /\ ~id_ex.op.jal /\ ~id_ex.op.jalr /\ id_ex.op.branch_kind = BranchKind(i.funct3)
      /\ id_ex.op.alu_op = "ADD" /\ id_ex.op.use_rs1 /\ id_ex.op.use_rs2
  BY <1>1, BranchControl
<1>3. UNCHANGED <<ArchMem, ArchCsr, imem>>
  BY <1>2, GoesOn
<1>4. Machine!Instr = i /\ ArchPc = id_ex.pc
  BY <1>1, MachineReads
<1>5. ArchRegs' = ArchRegs
  BY <1>2, CompletesRegs
<1>6. /\ ex_forward_a_data = Machine!Rs1 /\ Machine!Rs1 \in Word
      /\ ex_forward_b_data = Machine!Rs2 /\ Machine!Rs2 \in Word
  BY <1>1, <1>2, OperandsAre DEF ALU_MUL_OPS, ALU_DIV_OPS
<1>7. BranchCond(BranchKind(i.funct3), Machine!Rs1, Machine!Rs2) = Taken(i.funct3, Machine!Rs1, Machine!Rs2)
  BY <1>1, <1>6, BranchIs
<1>8. ExBranchTaken <=> Taken(i.funct3, Machine!Rs1, Machine!Rs2)
  BY <1>2, <1>6, <1>7 DEF ExBranchTaken
<1>9. ArchPc' = IF Taken(i.funct3, Machine!Rs1, Machine!Rs2) THEN Wrap(id_ex.pc + i.imm) ELSE Wrap(id_ex.pc + 4)
  BY <1>2, <1>8, CompletesPc
<1>10. Machine!Taken(i.funct3, Machine!Rs1, Machine!Rs2) <=> Taken(i.funct3, Machine!Rs1, Machine!Rs2)
  BY IsaOps
<1>11. IF Machine!Taken(i.funct3, Machine!Rs1, Machine!Rs2) THEN Machine!Jump(ArchPc + i.imm) ELSE Machine!NextPc
  BY <1>4, <1>9, <1>10, IsaWords DEF Machine!Jump, Machine!NextPc
<1> QED BY <1>3, <1>4, <1>5, <1>11 DEF Machine!Branch

-----------------------------------------------------------------------------
(* An integer operation of OP_IMM, OP and the RV32M operations of OP.       *)
LEMMA AluOfNames ==
  ASSUME NEW f \in 0 .. 7, NEW alt \in BOOLEAN
  PROVE  AluOf(f, alt) \notin ALU_MUL_OPS \cup ALU_DIV_OPS
BY AluNames DEF ALU_MUL_OPS, ALU_DIV_OPS

(* OP_IMM decodes to the operation of its funct3.                           *)
LEMMA ImmediateCode ==
  ASSUME NEW f \in 0 .. 7, NEW g, f = 5 => g \in {0, 32}
  PROVE  OpImmAlu(f, g) = AluOf(f, f = 5 /\ g = 32)
<1>1. CASE f = 5 /\ g = 32
  BY <1>1, AluCode
<1>2. CASE f = 5 /\ g = 0
  <2>1. (f = 5 /\ g = 32) = FALSE
    BY <1>2
  <2> QED BY <1>2, <2>1, AluCode
<1>3. CASE f # 5
  <2>1. (f = 5 /\ g = 32) = FALSE
    BY <1>3
  <2>2. OpImmAlu(f, g) = AluOf(f, FALSE)
    BY <1>3 DEF OpImmAlu, AluOf
  <2> QED BY <2>1, <2>2
<1> QED BY <1>1, <1>2, <1>3

(* Every OP_IMM and OP, an RV32M one included, is the machine's Arithmetic. *)
LEMMA ArithmeticStep ==
  ASSUME NEW irq, NEW i, Completes(irq, i), i.opcode \in {"OP_IMM", "OP"}
  PROVE  Machine!Arithmetic
<1>1. id_ex.op = Decode(i) /\ id_ex.imm = i.imm /\ Instruction(irq, i) /\ Implemented(i)
  BY DEF Completes, Instruction
<1>2. /\ id_ex.op.reg_write /\ ~id_ex.op.mem_write /\ ~id_ex.op.csr_read
      /\ ~id_ex.op.jal /\ ~id_ex.op.jalr /\ id_ex.op.branch_kind = "NONE" /\ id_ex.op.wb_sel = "ALU"
      /\ id_ex.op.use_rs1 /\ ~id_ex.op.src_a_pc
      /\ (id_ex.op.src_b_imm <=> i.opcode = "OP_IMM") /\ (id_ex.op.use_rs2 <=> i.opcode = "OP")
      /\ i.opcode = "OP" => id_ex.op.alu_op = OpAlu(i.funct3, i.funct7)
      /\ i.opcode = "OP_IMM" => id_ex.op.alu_op = OpImmAlu(i.funct3, i.funct7)
  BY <1>1, ArithmeticControl
<1>3. Machine!NextPc /\ UNCHANGED <<ArchMem, ArchCsr, imem>>
  BY <1>2, GoesOn
<1>4. Machine!Instr = i
  BY <1>1, MachineReads
<1>5. i.funct3 \in 0 .. 7 /\ i.imm \in Word
  BY <1>1, ValuesTyped
<1>6. PICK x, y : x = Machine!Rs1 /\ y = Machine!Rs2
  OBVIOUS
<1>7. ASSUME id_ex.op.alu_op \notin ALU_MUL_OPS \cup ALU_DIV_OPS
      PROVE  /\ ex_alu_src_a = x /\ x \in Word
             /\ ExResult = AluResult(id_ex.op.alu_op, x, IF i.opcode = "OP" THEN y ELSE i.imm)
             /\ i.opcode = "OP" => y \in Word
  <2>1. /\ ex_forward_a_data = x /\ x \in Word
        /\ i.opcode = "OP" => ex_forward_b_data = y /\ y \in Word
    BY <1>1, <1>2, <1>6, <1>7, OperandsAre
  <2>2. ex_alu_src_a = x /\ ex_alu_src_b = IF i.opcode = "OP" THEN y ELSE i.imm
    BY <1>1, <1>2, <2>1 DEF ex_alu_src_a, ex_alu_src_b
  <2> QED BY <1>2, <1>7, <2>1, <2>2 DEF ExResult, ex_alu_result, mul_is_op, div_is_op
<1>8. CASE i.opcode = "OP_IMM"
  <2>1. PICK alt \in BOOLEAN : alt = (i.funct3 = 5 /\ i.funct7 = 32)
    OBVIOUS
  <2>2. id_ex.op.alu_op = AluOf(i.funct3, alt)
    BY <1>1, <1>2, <1>5, <1>8, <2>1, ImmediateCode DEF Implemented
  <2>3. ExResult = AluResult(AluOf(i.funct3, alt), x, i.imm) /\ x \in Word
    BY <1>5, <1>7, <1>8, <2>2, AluOfNames
  <2>4. ExResult = Wrap(IntegerOp(i.funct3, alt, x, i.imm))
    BY <1>5, <2>3, AluIs
  <2>5. Machine!WriteRd(Machine!IntegerOp(i.funct3, alt, x, i.imm))
    BY <1>2, <2>4, IsaOps, WritesRd
  <2> QED BY <1>3, <1>4, <1>6, <1>8, <2>1, <2>5 DEF Machine!Arithmetic
<1>9. CASE i.opcode = "OP" /\ i.funct7 # 1
  <2>1. PICK alt \in BOOLEAN : alt = (i.funct7 = 32)
    OBVIOUS
  <2>2. id_ex.op.alu_op = AluOf(i.funct3, alt)
    <3>1. i.funct7 = 0 \/ (i.funct7 = 32 /\ i.funct3 \in {0, 5})
      BY <1>1, <1>9 DEF Implemented
    <3>2. CASE i.funct7 = 0
      <4>3. (i.funct7 = 32) = FALSE
        BY <3>2
      <4>1. alt = FALSE
        BY <2>1, <4>3
      <4>2. OpAlu(i.funct3, 0) = AluOf(i.funct3, FALSE)
        BY <1>5, AluCode
      <4> QED BY <1>2, <1>9, <3>2, <4>1, <4>2
    <3>3. CASE i.funct7 = 32
      <4>3. (i.funct7 = 32) = TRUE
        BY <3>3
      <4>1. alt = TRUE
        BY <2>1, <4>3
      <4>2. OpAlu(i.funct3, 32) = AluOf(i.funct3, TRUE)
        <5>1. i.funct3 = 0 \/ i.funct3 = 5
          BY <3>1, <3>3
        <5>2. OpAlu(0, 32) = AluOf(0, TRUE) /\ OpAlu(5, 32) = AluOf(5, TRUE)
          BY AluCode
        <5> QED BY ONLY <5>1, <5>2
      <4> QED BY <1>2, <1>9, <3>3, <4>1, <4>2
    <3> QED BY <3>1, <3>2, <3>3
  <2>3. ExResult = AluResult(AluOf(i.funct3, alt), x, y) /\ x \in Word /\ y \in Word
    BY <1>5, <1>7, <1>9, <2>2, AluOfNames
  <2>4. ExResult = Wrap(IntegerOp(i.funct3, alt, x, y))
    BY <1>5, <2>3, AluIs
  <2>5. Machine!WriteRd(Machine!IntegerOp(i.funct3, alt, x, y))
    BY <1>2, <2>4, IsaOps, WritesRd
  <2> QED BY <1>3, <1>4, <1>6, <1>9, <2>1, <2>5 DEF Machine!Arithmetic
<1>10. CASE i.opcode = "OP" /\ i.funct7 = 1
  <2>1. i.funct3 = 0 \/ i.funct3 = 1 \/ i.funct3 = 2 \/ i.funct3 = 3
        \/ i.funct3 = 4 \/ i.funct3 = 5 \/ i.funct3 = 6 \/ i.funct3 = 7
    BY <1>5
  <2>2. OpAlu(i.funct3, 1) = OpName(i.funct3)
    BY <2>1 DEF OpAlu, OpName
  <2>3. OpName(i.funct3) \in ALU_MUL_OPS \cup ALU_DIV_OPS
    BY <2>1 DEF OpName, ALU_MUL_OPS, ALU_DIV_OPS
  <2>4. PICK op : op = id_ex.op.alu_op
    OBVIOUS
  <2>5. op = OpName(i.funct3)
    BY <1>2, <1>10, <2>2, <2>4
  <2>6. DInv /\ UnitOperands /\ id_ex.valid /\ ~m_stall /\ ~ex_mem.valid
    BY <1>1 DEF Instruction, Executes
  <2>7. mul.done \/ div.done
    BY <2>3, <2>4, <2>5, <2>6 DEF m_stall, MStall
  <2>8. id_ex.op.rs1 = i.rs1 /\ id_ex.op.rs2 = i.rs2 /\ i.rs1 \in Reg /\ i.rs2 \in Reg
    BY <1>1, <1>2, <1>10, DecodedFields DEF Implemented
  <2>9. x = OperandValue(i.rs1) /\ y = OperandValue(i.rs2)
    BY <1>1, <1>6, MachineReads
  <2>10. x \in Word /\ y \in Word
    BY <2>6, <2>8, <2>9, ArchRegsWords
  <2>11. UnitsOk(x, y)
    BY <2>6, <2>7, <2>8, <2>9 DEF UnitOperands, UnitActive
  <2>12. MulOk(mul, op, x, y) /\ DivOk(div, op, x, y)
    BY <2>4, <2>11 DEF UnitsOk
  <2>13. (IF op \in ALU_MUL_OPS THEN MulResult(mul) ELSE div.result) = Wrap(MulDivOp(i.funct3, x, y))
    BY ONLY <1>5, <2>5, <2>7, <2>10, <2>12, Delivered
  <2>14. ExResult = Wrap(MulDivOp(i.funct3, x, y))
    <3>1. op \in ALU_MUL_OPS => op \notin ALU_DIV_OPS
      BY DEF ALU_MUL_OPS, ALU_DIV_OPS
    <3>2. ExResult = IF op \in ALU_MUL_OPS THEN MulResult(mul) ELSE div.result
      BY <1>2, <2>3, <2>4, <2>5, <3>1 DEF ExResult, ex_alu_result, mul_is_op, div_is_op
    <3> QED BY <2>13, <3>2
  <2>15. Machine!WriteRd(Machine!MulDivOp(i.funct3, x, y))
    BY <1>2, <2>14, IsaOps, WritesRd
  <2> QED BY <1>3, <1>4, <1>6, <1>10, <2>15 DEF Machine!Arithmetic
<1> QED BY <1>8, <1>9, <1>10

(* Fences and unknown encodings are the machine's NoOperation.              *)
LEMMA NoOperationStep ==
  ASSUME NEW irq, NEW i, Completes(irq, i),
         \/ i.opcode \in {"MISC_MEM", "NONE"}
         \/ i.opcode = "SYSTEM" /\ i.funct3 % 4 = 0 /\ ~(i.funct3 = 0 /\ i.sys \in {"ecall", "ebreak", "mret"})
  PROVE  Machine!NoOperation
<1>1. id_ex.op = Decode(i) /\ Instruction(irq, i)
  BY DEF Completes, Instruction
<1>2. /\ ~id_ex.op.reg_write /\ ~id_ex.op.mem_write /\ ~id_ex.op.csr_read
      /\ ~id_ex.op.jal /\ ~id_ex.op.jalr /\ id_ex.op.branch_kind = "NONE"
  <2>1. CASE i.opcode \in {"MISC_MEM", "NONE"}
    <3>1. Decode(i) = NoControl(i)
      BY <2>1 DEF Decode
    <3> QED BY <1>1, <3>1 DEF NoControl
  <2>2. CASE i.opcode = "SYSTEM"
    <3>1. i.funct3 \in {0, 4}
      BY <1>1, <2>2, ValuesTyped
    <3> QED BY <1>1, <2>2, <3>1 DEF Decode, NoControl, SystemControl
  <2> QED BY <2>1, <2>2
<1>3. Machine!NextPc /\ UNCHANGED <<ArchMem, ArchCsr, imem>>
  BY <1>2, GoesOn
<1>4. ArchRegs' = ArchRegs /\ Machine!Instr = i
  BY <1>1, <1>2, CompletesRegs, MachineReads
<1> QED BY <1>3, <1>4 DEF Machine!NoOperation

-----------------------------------------------------------------------------
(* The alignment check of the core is the one of the machine.               *)
LEMMA WrapLow ==
  ASSUME NEW x \in Int PROVE Wrap(x) % 4 = x % 4 /\ x % 4 \in 0 .. 3
<1>1. PICK n \in Nat : n = XLEN - 2
  BY XlenPow
<1>2. 2^(2 + n) = 2^2 * 2^n /\ 2^2 = 4 /\ 2^n \in Nat \ {0} /\ 2 + n = XLEN
  <2>1. XLEN \in Nat
    BY XlenPow
  <2>2. 2 + n = XLEN
    BY <1>1, <2>1
  <2> QED BY <2>2, PowSum, PowSmall, PowType
<1>3. PICK k \in Int : 2^XLEN = 4 * k
  BY <1>2
<1>4. PICK q \in Int, r \in Int : r = Wrap(x) /\ x = 2^XLEN * q + r
  <2>1. Wrap(x) \in Int /\ 2^XLEN \in Int
    BY WrapIn, XlenPow
  <2>2. PICK q \in Int : x = 2^XLEN * q + Wrap(x)
    BY WrapQuotient
  <2> QED BY <2>1, <2>2
<1>5. PICK t \in Int : t = k * q
  OBVIOUS
<1>6. 2^XLEN * q = 4 * t
  BY <1>3, <1>5
<1>7. x = r + 4 * t
  BY <1>4, <1>6
<1>8. (r + 4 * t) % 4 = r % 4
  BY ModShift
<1>9. x % 4 \in 0 .. 3
  OBVIOUS
<1> QED BY <1>4, <1>7, <1>8, <1>9

(* The low address bits decide about an access of 1, 2 or 4 bytes.          *)
LEMMA AlignmentIs ==
  ASSUME NEW x \in Int, NEW f \in {0, 1, 2, 4, 5}, NEW s, s = LoadSize(f)
  PROVE  ((s = 1 /\ (x % 4) % 2 = 1) \/ (s = 2 /\ x % 4 # 0)) <=> Wrap(x) % AccessBytes(f) # 0
<1>1. PICK w \in Int, r \in 0 .. 3 : w = Wrap(x) /\ r = x % 4 /\ r = w % 4
  <2>1. x % 4 \in 0 .. 3 /\ Wrap(x) % 4 = x % 4
    BY WrapLow
  <2>2. Wrap(x) \in Int
    BY WrapIn, XlenPow
  <2> QED BY <2>1, <2>2
<1>2. CASE f \in {0, 4}
  <2>1. s = 0 /\ AccessBytes(f) = 1
    BY <1>2, Accesses DEF LoadSize
  <2> QED BY <1>1, <2>1
<1>3. CASE f \in {1, 5}
  <2>1. s = 1 /\ AccessBytes(f) = 2
    BY <1>3, Accesses DEF LoadSize
  <2> QED BY <1>1, <2>1
<1>4. CASE f = 2
  <2>1. s = 2 /\ AccessBytes(f) = 4
    BY <1>4, Accesses DEF LoadSize
  <2> QED BY <1>1, <2>1
<1> QED BY <1>2, <1>3, <1>4

-----------------------------------------------------------------------------
(* The address of an access, and whether it traps.                          *)
LEMMA AccessControl ==
  ASSUME NEW i, i.opcode \in {"LOAD", "STORE"}, Implemented(i), NEW o, o = Decode(i)
  PROVE  /\ ~o.csr_read /\ ~o.jal /\ ~o.jalr /\ o.branch_kind = "NONE" /\ o.alu_op = "ADD"
         /\ o.use_rs1 /\ o.src_b_imm /\ ~o.src_a_pc /\ ~o.is_ecall /\ ~o.is_ebreak /\ ~o.is_mret
         /\ (o.mem_read <=> i.opcode = "LOAD") /\ (o.mem_write <=> i.opcode = "STORE")
         /\ (o.reg_write <=> i.opcode = "LOAD") /\ (o.use_rs2 <=> i.opcode = "STORE")
         /\ i.opcode = "LOAD" => o.wb_sel = "LOAD" /\ o.mem_unsigned = (i.funct3 \in {4, 5})
         /\ o.mem_size = LoadSize(i.funct3) /\ i.funct3 \in {0, 1, 2, 4, 5}
         /\ i.opcode = "STORE" => o.mem_size = StoreSize(i.funct3) /\ i.funct3 \in {0, 1, 2}
<1>1. CASE i.opcode = "LOAD"
  BY <1>1 DEF Decode, NoControl, Implemented
<1>2. CASE i.opcode = "STORE"
  <2>1. i.funct3 \in {0, 1, 2}
    BY <1>2 DEF Implemented
  <2>2. LoadSize(i.funct3) = StoreSize(i.funct3)
    BY <2>1 DEF LoadSize, StoreSize
  <2> QED BY <1>2, <2>1, <2>2 DEF Decode, NoControl
<1> QED BY <1>1, <1>2

(* The address that EX computes is the machine's, and so are its checks.    *)
LEMMA AccessIs ==
  ASSUME NEW irq, NEW i, Instruction(irq, i), i.opcode \in {"LOAD", "STORE"}
  PROVE  /\ ex_alu_result = Machine!Address /\ Machine!Address \in Word
         /\ (ex_misaligned <=> Machine!Misaligned)
         /\ (~Machine!Misaligned => Machine!Address % AccessBytes(i.funct3) = 0)
         /\ (ex_access_fault <=> (~Machine!Misaligned /\ Machine!OutOfRange))
<1>1. id_ex.op = Decode(i) /\ id_ex.imm = i.imm /\ Implemented(i)
  BY DEF Instruction
<1>2. PICK o : o = id_ex.op
  OBVIOUS
<1>3. /\ o.alu_op = "ADD" /\ o.use_rs1 /\ o.src_b_imm /\ ~o.src_a_pc /\ (o.mem_read \/ o.mem_write)
      /\ o.mem_size = LoadSize(i.funct3) /\ i.funct3 \in {0, 1, 2, 4, 5}
  BY <1>1, <1>2, AccessControl
<1>4. ex_forward_a_data = Machine!Rs1 /\ Machine!Rs1 \in Word
  BY <1>2, <1>3, OperandsAre DEF ALU_MUL_OPS, ALU_DIV_OPS
<1>5. ex_alu_src_a = Machine!Rs1 /\ ex_alu_src_b = i.imm
  BY <1>1, <1>2, <1>3, <1>4 DEF ex_alu_src_a, ex_alu_src_b
<1>6. PICK x \in Int : x = Machine!Rs1 + i.imm
  BY <1>4, ValuesTyped, XlenPow
<1>7. ex_alu_result = Wrap(x)
  BY <1>2, <1>3, <1>5, <1>6, AluCases DEF ex_alu_result, mul_is_op, div_is_op, ALU_MUL_OPS, ALU_DIV_OPS
<1>8. Machine!Instr = i
  BY MachineReads
<1>9. Machine!Address = Wrap(x)
  BY <1>6, <1>8, IsaWords DEF Machine!Address
<1>10. Wrap(x) \in Word
  BY WrapIn
<1>11. Machine!Misaligned <=> Wrap(x) % AccessBytes(i.funct3) # 0
  BY <1>8, <1>9, IsaMemory DEF Machine!Misaligned
<1>12. ex_misaligned <=> ((o.mem_size = 1 /\ (x % 4) % 2 = 1) \/ (o.mem_size = 2 /\ x % 4 # 0))
  BY <1>2, <1>3, <1>5, <1>6 DEF ex_misaligned
<1>13. ex_misaligned <=> Machine!Misaligned
  BY <1>3, <1>11, <1>12, AlignmentIs
<1>14. ex_access_fault <=> (~Machine!Misaligned /\ Machine!OutOfRange)
  BY <1>2, <1>3, <1>7, <1>9, <1>13 DEF ex_access_fault, Machine!OutOfRange
<1> QED BY <1>7, <1>9, <1>10, <1>11, <1>13, <1>14

(* A load or store that completes passes both checks.                       *)
LEMMA NoAccessTrap ==
  ASSUME NEW irq, NEW i, Completes(irq, i), i.opcode \in {"LOAD", "STORE"}
  PROVE  ~Machine!Misaligned /\ ~Machine!OutOfRange
<1>1. Instruction(irq, i) /\ ex_trap = NoTrap
  BY DEF Completes
<1>2. ~ex_misaligned
  BY <1>1 DEF ex_trap, NoTrap, CAUSE_ECALL_M, CAUSE_BREAKPOINT, CAUSE_LOAD_MISALIGNED, CAUSE_STORE_MISALIGNED
<1>3. ~ex_access_fault
  BY <1>1 DEF ex_trap, NoTrap, CAUSE_ECALL_M, CAUSE_BREAKPOINT, CAUSE_LOAD_MISALIGNED, CAUSE_STORE_MISALIGNED,
              CAUSE_LOAD_ACCESS, CAUSE_STORE_ACCESS
<1> QED BY <1>1, <1>2, <1>3, AccessIs

(* A load is the machine's Load.                                            *)
LEMMA LoadStep ==
  ASSUME NEW irq, NEW i, Completes(irq, i), i.opcode = "LOAD"
  PROVE  Machine!Load
<1>1. id_ex.op = Decode(i) /\ Instruction(irq, i) /\ Implemented(i) /\ ArchMem = MemoryOf(dmem)
  BY DEF Completes, Instruction, Executes
<1>2. PICK o : o = id_ex.op
  OBVIOUS
<1>3. /\ ~o.csr_read /\ ~o.jal /\ ~o.jalr /\ o.branch_kind = "NONE" /\ ~o.mem_write /\ o.reg_write
      /\ o.wb_sel = "LOAD" /\ o.mem_unsigned = (i.funct3 \in {4, 5})
      /\ o.mem_size = LoadSize(i.funct3) /\ i.funct3 \in {0, 1, 2, 4, 5}
  BY <1>1, <1>2, AccessControl
<1>4. Machine!NextPc /\ UNCHANGED <<ArchMem, ArchCsr, imem>> /\ Machine!Instr = i
  BY <1>1, <1>2, <1>3, GoesOn, MachineReads
<1>5. ~Machine!Misaligned /\ ~Machine!OutOfRange
  BY NoAccessTrap
<1>6. PICK addr \in Word : addr = Machine!Address /\ addr = ex_alu_result /\ addr % AccessBytes(i.funct3) = 0
  BY <1>1, <1>5, AccessIs
<1>7. addr \in Nat
  BY WrapWord
<1>8. PICK r, x : r = addr % 4 /\ x = dmem[(addr \div 4) % DmemWords]
  OBVIOUS
<1>9. r \in 0 .. 3 /\ r % AccessBytes(i.funct3) = 0
  BY <1>3, <1>6, <1>7, <1>8, AccessFits
<1>10. x \in Word
  <2>1. (addr \div 4) % DmemWords \in 0 .. DmemWords - 1
    <3>1. PICK q \in Int : q = addr \div 4
      BY <1>7
    <3> QED BY <3>1, CoreAssumption
  <2>2. dmem \in [0 .. DmemWords - 1 -> Word]
    BY <1>1 DEF Instruction, Executes, DInv, Stored
  <2> QED BY <1>8, <2>1, <2>2
<1>11. ExResult = LsuLoadData(LoadSize(i.funct3), i.funct3 \in {4, 5}, r, x)
  BY <1>2, <1>3, <1>6, <1>8 DEF ExResult, LoadedWord, WordAddressed
<1>12. ExResult = Wrap(LoadedValue(LanesOfWord(x), i.funct3, r))
  BY <1>3, <1>9, <1>10, <1>11, LoadIs
<1>13. LoadedValue(MemoryOf(dmem), i.funct3, addr) = LoadedValue(LanesOfWord(x), i.funct3, r)
  BY <1>3, <1>6, <1>7, <1>8, MemoryLoad
<1>14. ExResult = Wrap(Machine!LoadedValue(ArchMem, i.funct3, addr))
  BY <1>1, <1>12, <1>13, IsaMemory
<1>15. Machine!WriteRd(Machine!LoadedValue(ArchMem, i.funct3, addr))
  BY <1>2, <1>3, <1>14, WritesRd
<1> QED BY <1>4, <1>5, <1>6, <1>15 DEF Machine!Load

(* A store is the machine's Store.                                          *)
LEMMA StoreStep ==
  ASSUME NEW irq, NEW i, Completes(irq, i), i.opcode = "STORE"
  PROVE  Machine!Store
<1>1. id_ex.op = Decode(i) /\ Instruction(irq, i) /\ Implemented(i) /\ ArchMem = MemoryOf(dmem)
  BY DEF Completes, Instruction, Executes
<1>2. PICK o : o = id_ex.op
  OBVIOUS
<1>3. /\ ~o.csr_read /\ ~o.jal /\ ~o.jalr /\ o.branch_kind = "NONE" /\ o.mem_write /\ ~o.reg_write
      /\ o.use_rs2 /\ o.alu_op = "ADD"
      /\ o.mem_size = StoreSize(i.funct3) /\ i.funct3 \in {0, 1, 2}
  BY <1>1, <1>2, AccessControl
<1>4. Machine!Instr = i /\ ArchPc = id_ex.pc
  BY <1>1, MachineReads
<1>5. ~Machine!Misaligned /\ ~Machine!OutOfRange
  BY NoAccessTrap
<1>6. PICK addr \in Word : addr = Machine!Address /\ addr = ex_alu_result /\ addr % AccessBytes(i.funct3) = 0
  BY <1>1, <1>5, AccessIs
<1>7. addr \in Nat
  BY WrapWord
<1>8. PICK v \in Word : v = Machine!Rs2 /\ v = ex_forward_b_data
  BY <1>1, <1>2, <1>3, OperandsAre DEF ALU_MUL_OPS, ALU_DIV_OPS
<1>9. dmem \in [0 .. DmemWords - 1 -> Word]
  BY <1>1 DEF Instruction, Executes, DInv, Stored
<1>10. PICK e : e = [dmem EXCEPT ![(addr \div 4) % DmemWords] =
                       MergeLanes(dmem[(addr \div 4) % DmemWords],
                                  LsuWriteData(StoreSize(i.funct3), addr % 4, v),
                                  LsuWstrb(StoreSize(i.funct3), addr % 4))]
  OBVIOUS
<1>11. e = StoredWords
  BY <1>2, <1>3, <1>6, <1>8, <1>10 DEF StoredWords, WordAddressed
<1>12. StoredMemory(MemoryOf(dmem), i.funct3, addr, v) = MemoryOf(e)
  <2>1. PICK d, f : d = dmem /\ f = i.funct3
    OBVIOUS
  <2>2. /\ d \in [0 .. DmemWords - 1 -> Word] /\ addr \in Nat /\ f \in {0, 1, 2}
        /\ addr % AccessBytes(f) = 0 /\ v \in Word
    BY <1>3, <1>6, <1>7, <1>9, <2>1
  <2>4. Storable(d, addr, f, v)
    BY <2>2 DEF Storable
  <2>3. StoredMemory(MemoryOf(d), f, addr, v)
           = MemoryOf([d EXCEPT ![(addr \div 4) % DmemWords] =
                         MergeLanes(d[(addr \div 4) % DmemWords], LsuWriteData(StoreSize(f), addr % 4, v),
                                    LsuWstrb(StoreSize(f), addr % 4))])
    BY ONLY <2>4, MemoryStore
  <2> QED BY ONLY <1>10, <2>1, <2>3
<1>13. ArchMem' = MemoryOf(e)
  BY <1>2, <1>3, <1>11, CompletesMem
<1>14. ArchMem' = Machine!StoredMemory(ArchMem, i.funct3, addr, v)
  BY <1>1, <1>12, <1>13, IsaMemory
<1>15. ArchRegs' = ArchRegs
  BY <1>2, <1>3, CompletesRegs
<1>16. ArchCsr' = ArchCsr /\ imem' = imem
  BY <1>2, <1>3, CompletesCsr
<1>17. Machine!NextPc
  <2>1. ~ExBranchTaken
    BY <1>2, <1>3 DEF ExBranchTaken, BranchCond
  <2> QED BY <1>2, <1>3, <1>4, <2>1, CompletesPc, IsaWords DEF Machine!NextPc
<1> QED BY <1>4, <1>5, <1>6, <1>8, <1>14, <1>15, <1>16, <1>17 DEF Machine!Store

-----------------------------------------------------------------------------
(* The interrupt enables in MSTATUS.                                        *)
LEMMA MstatusBits ==
  ASSUME ByteBits >= 4, NEW c \in CsrType, NEW v, v = MstatusRead(c)
  PROVE  /\ Bit(v, 3) = c.mstatus_mie /\ Bit(v, 7) = c.mstatus_mpie
         /\ v = c.mstatus_mpp * 2^11 + c.mstatus_mpie * 2^7 + c.mstatus_mie * 2^3
<1>1. PICK m \in {0, 1}, p \in {0, 1}, q \in 0 .. 3 :
        m = c.mstatus_mie /\ p = c.mstatus_mpie /\ q = c.mstatus_mpp
  BY DEF CsrType
<1>2. 2^3 = 8 /\ 2^7 = 128 /\ 2^11 = 2048
  BY WideWord
<1>3. v = q * 2048 + p * 128 + m * 8
  BY <1>1, <1>2 DEF MstatusRead, MSTATUS_MPIE_BIT, MSTATUS_MIE_BIT
<1>4. v \div 8 = q * 256 + p * 16 + m
  BY <1>3
<1>5. v \div 128 = q * 16 + p
  BY <1>3
<1>6. (q * 256 + p * 16 + m) % 2 = m /\ (q * 16 + p) % 2 = p
  OBVIOUS
<1> QED BY <1>1, <1>2, <1>3, <1>4, <1>5, <1>6 DEF Bit, MstatusRead, MSTATUS_MPIE_BIT, MSTATUS_MIE_BIT

(* Complementing a word complements its bits.                               *)
LEMMA NotBit ==
  ASSUME NEW x \in Word, NEW i \in Bits
  PROVE  Bit(BitNot(x), i) = 1 - Bit(x, i) /\ Bit(x, i) \in {0, 1}
<1>1. PICK p \in Int : p = 2^i /\ p > 0
  BY PowType, XlenPow DEF Bits
<1>2. PICK h \in Int : 2^XLEN = p * (2 * h)
  <2>1. XLEN - 1 - i \in Nat /\ i \in Nat /\ i + 1 \in Nat /\ i + 1 + (XLEN - 1 - i) = XLEN
    BY XlenPow DEF Bits
  <2>2. PICK h \in Nat : h = 2^(XLEN - 1 - i)
    BY <2>1, PowType
  <2>3. 2^XLEN = 2^(i + 1) * h
    BY <2>1, <2>2, PowSum
  <2>4. 2^(i + 1) = 2 * p
    BY <1>1, <2>1, PowStep
  <2> QED BY <2>2, <2>3, <2>4
<1>3. x \in Int
  BY XlenPow
<1>4. PICK q \in Int, r \in Int : q = x \div p /\ r = x % p /\ 0 <= r /\ r <= p - 1 /\ x = p * q + r
  BY ONLY <1>1, <1>3, Divided
<1>5. PICK e \in Int, f \in Int : e = q \div 2 /\ f = q % 2 /\ 0 <= f /\ f <= 2 - 1 /\ q = 2 * e + f
  <2>1. 2 \in Int /\ 2 > 0
    OBVIOUS
  <2> QED BY ONLY <1>4, <2>1, Divided
<1>6. PICK y \in Int, g \in Int, z \in Int : y = BitNot(x) /\ g = 2 * (h - e - 1) + (1 - f) /\ z = p - 1 - r
  <2>1. BitNot(x) \in Int
    BY <1>3, XlenPow DEF BitNot
  <2>2. 2 * (h - e - 1) + (1 - f) \in Int /\ p - 1 - r \in Int
    OBVIOUS
  <2> QED BY ONLY <2>1, <2>2
<1>7. y = p * g + z
  <2>1. y = p * (2 * h) - 1 - (p * q + r)
    BY <1>2, <1>4, <1>6 DEF BitNot
  <2>2. g = 2 * h - 1 - q
    BY <1>2, <1>5, <1>6
  <2>3. p * (2 * h - 1 - q) = p * (2 * h) - p - p * q
    BY <1>1, <1>2, <1>4
  <2>4. PICK A \in Int, B \in Int, C \in Int : A = p * (2 * h) /\ B = p * q /\ C = p * g
    BY <1>1, <1>2, <1>4, <1>6
  <2>5. C = A - p - B
    BY <2>2, <2>3, <2>4
  <2> QED BY ONLY <1>1, <1>4, <1>6, <2>1, <2>4, <2>5
<1>8. y \div p = g /\ y % p = z
  <2>2. 0 <= r /\ r <= p - 1 /\ z = p - 1 - r /\ p > 0
    BY ONLY <1>1, <1>4, <1>6
  <2>3. r \in Int /\ p \in Int /\ z \in Int
    OBVIOUS
  <2>4. 0 <= z /\ z < p
    BY ONLY <2>2, <2>3
  <2>1. 0 <= z /\ z < p /\ y \in Int /\ p \in Int /\ p > 0 /\ g \in Int /\ z \in Int
    BY <2>2, <2>4
  <2> QED BY ONLY <1>7, <2>1, ModIs
<1>9. g % 2 = 1 - f
  BY <1>5, <1>6
<1>10. Bit(x, i) = f /\ f \in {0, 1}
  <2>1. f \in {0, 1}
    BY <1>5
  <2>2. Bit(x, i) = q % 2
    BY <1>1, <1>4 DEF Bit
  <2> QED BY <1>5, <2>1, <2>2
<1>11. Bit(BitNot(x), i) = g % 2
  BY <1>1, <1>6, <1>8 DEF Bit
<1> QED BY <1>9, <1>10, <1>11

(* The three kinds of CSR instruction.                                      *)
ClearBits(x, y) == [i \in Bits |-> IF Bit(y, i) = 1 THEN 0 ELSE Bit(x, i)]
(* A CSRRC clears the bits of its source.                                   *)
LEMMA ClearIs ==
  ASSUME NEW x \in Word, NEW y \in Word PROVE BitAnd(x, BitNot(y)) = OfBits(ClearBits(x, y))
<1>1. ASSUME NEW i \in Bits
      PROVE  Bit(x, i) * Bit(BitNot(y), i) = IF Bit(y, i) = 1 THEN 0 ELSE Bit(x, i)
  <2>1. PICK u, v, w : u = Bit(x, i) /\ v = Bit(y, i) /\ w = Bit(BitNot(y), i)
    OBVIOUS
  <2>2. u \in {0, 1} /\ v \in {0, 1} /\ w = 1 - v
    BY <2>1, NotBit
  <2>3. u * w = IF v = 1 THEN 0 ELSE u
    BY ONLY <2>2
  <2> QED BY <2>1, <2>3
<1> QED BY <1>1 DEF BitAnd, ClearBits, Bits

(* What a CSR write leaves, read back.                                      *)
LEMMA MstatusField ==
  ASSUME ByteBits >= 4, NEW v \in Word
  PROVE  Field(v, 12, 11) * 2^11 + Bit(v, 7) * 2^7 + Bit(v, 3) * 2^3
           = Bit(v, 3) * 2^3 + Bit(v, 7) * 2^7 + Bit(v, 11) * 2^11 + Bit(v, 12) * 2^12
<1>1. 2^3 = 8 /\ 2^7 = 128 /\ 2^11 = 2048 /\ 2^12 = 4096 /\ 2^2 = 4
  <2>1. 2^(11 + 1) = 2 * 2^11 /\ 11 + 1 = 12
    BY PowStep
  <2> QED BY <2>1, WideWord, PowSmall
<1>2. v \in Int
  BY XlenPow
<1>3. PICK y \in Int : y = v \div 2048
  BY <1>2
<1>4. v \div 4096 = y \div 2
  <2>1. (v \div 2048) \div 2 = v \div (2048 * 2)
    BY <1>2, DivDiv
  <2> QED BY <1>3, <2>1
<1>5. y % 4 = (y % 2) + 2 * ((y \div 2) % 2)
  OBVIOUS
<1>6. PICK a \in Int, b \in Int, d \in Int, e \in Int, f \in Int :
        /\ a = Bit(v, 3) /\ b = Bit(v, 7) /\ d = Bit(v, 11) /\ e = Bit(v, 12) /\ f = Field(v, 12, 11)
        /\ f = d + 2 * e
  <2>1. Bit(v, 3) \in {0, 1} /\ Bit(v, 7) \in {0, 1} /\ Bit(v, 11) \in {0, 1} /\ Bit(v, 12) \in {0, 1}
    BY BitIs
  <2>2. Field(v, 12, 11) = y % 4 /\ Bit(v, 11) = y % 2 /\ Bit(v, 12) = (y \div 2) % 2
    BY <1>1, <1>3, <1>4 DEF Field, Bit
  <2>3. y % 4 \in Int
    OBVIOUS
  <2>4. Field(v, 12, 11) = Bit(v, 11) + 2 * Bit(v, 12)
    BY <1>5, <2>2
  <2>5. Bit(v, 3) \in Int /\ Bit(v, 7) \in Int /\ Bit(v, 11) \in Int /\ Bit(v, 12) \in Int
    BY <2>1
  <2>6. Field(v, 12, 11) \in Int
    BY <2>2, <2>3
  <2> QED BY ONLY <2>4, <2>5, <2>6
<1> QED BY <1>1, <1>6

ArchNames == CsrNames \ {"mip", "meipend"}
(* A CSR write sets the legal bits of its register and no other register.   *)
LEMMA CsrWriteIs ==
  ASSUME ByteBits >= 4, NEW c, DOMAIN c = CsrFields, NEW name \in ArchNames, NEW v \in Word,
         NEW n \in ArchNames
  PROVE  CsrRead(CsrWrite(c, name, v), n) = IF n = name THEN Machine!Legal(name, v) ELSE CsrRead(c, n)
<1> USE DEF ArchNames, CsrNames, CsrFields
<1>1. CASE name = "mstatus"
  <2>1. PICK a, b, f : a = Bit(v, 3) /\ b = Bit(v, 7) /\ f = Field(v, 12, 11)
    OBVIOUS
  <2>2. CsrWrite(c, name, v) = [c EXCEPT !.mstatus_mie = a, !.mstatus_mpie = b, !.mstatus_mpp = f]
    BY <1>1, <2>1 DEF CsrWrite, MSTATUS_MIE_BIT, MSTATUS_MPIE_BIT
  <2>3. CASE n = "mstatus"
    <3>1. CsrRead(CsrWrite(c, name, v), n) = f * 2^11 + b * 2^7 + a * 2^3
      BY <2>2, <2>3 DEF CsrRead, MstatusRead, MSTATUS_MIE_BIT, MSTATUS_MPIE_BIT
    <3>2. Machine!Legal(name, v) = Bit(v, 3) * 2^3 + Bit(v, 7) * 2^7 + Bit(v, 11) * 2^11 + Bit(v, 12) * 2^12
      BY <1>1, IsaWords DEF Machine!Legal
    <3> QED BY <1>1, <2>1, <2>3, <3>1, <3>2, MstatusField
  <2>4. CASE n # "mstatus"
    BY <1>1, <2>2, <2>4 DEF CsrRead
  <2> QED BY <2>3, <2>4
<1>2. CASE name # "mstatus"
  <2>1. PICK w : w = Machine!Legal(name, v)
    OBVIOUS
  <2>2. CsrWrite(c, name, v) = [c EXCEPT ![name] = w]
    <3>1. CASE name = "mie"
      BY <2>1, <3>1, IsaWords DEF CsrWrite, Machine!Legal, MIE_MEIE_BIT
    <3>2. CASE name = "mepc"
      BY <2>1, <3>2 DEF CsrWrite, Machine!Legal
    <3>3. CASE name = "meimask"
      BY <2>1, <3>3 DEF CsrWrite, Machine!Legal
    <3>4. CASE name \in {"mtvec", "mscratch", "mcause", "mtval"}
      BY <2>1, <3>4 DEF CsrWrite, Machine!Legal
    <3> QED BY <1>2, <3>1, <3>2, <3>3, <3>4
  <2>3. CASE n = "mstatus"
    BY <1>2, <2>2, <2>3 DEF CsrRead, MstatusRead
  <2>4. CASE n # "mstatus"
    BY <1>2, <2>1, <2>2, <2>4 DEF CsrRead
  <2> QED BY <2>3, <2>4
<1> QED BY <1>1, <1>2

-----------------------------------------------------------------------------
(* The CSR file after a trap and after an MRET.                             *)
LEMMA TrapFields ==
  ASSUME NEW c, DOMAIN c = CsrFields, NEW irq, NEW write, NEW trap, trap.en, NEW mret,
         NEW n, n = CsrNext(c, irq, write, trap, mret)
  PROVE  /\ n.mepc = trap.epc /\ n.mcause = trap.cause /\ n.mtval = trap.tval
         /\ n.mstatus_mpie = c.mstatus_mie /\ n.mstatus_mie = 0 /\ n.mstatus_mpp = 3
<1> DEFINE sampled == [c EXCEPT !.meipend = irq]
           written == IF write.en THEN CsrWrite(sampled, write.addr, write.data)
                                  ELSE sampled
<1>1. DOMAIN sampled = CsrFields
  OBVIOUS
<1>2. n = CsrTrap(written, c, trap)
  BY DEF CsrNext
<1> HIDE DEF sampled
<1>3. DOMAIN CsrWrite(sampled, write.addr, write.data) = DOMAIN sampled
  BY DEF CsrWrite
<1>4. DOMAIN written = CsrFields
  BY <1>1, <1>3
<1> HIDE DEF written
<1> QED BY <1>2, <1>4 DEF CsrTrap, CsrFields, CsrNames

(* An MRET gives MIE its saved value.                                       *)
LEMMA MretFields ==
  ASSUME NEW c, DOMAIN c = CsrFields, NEW irq, NEW n, n = CsrMret([c EXCEPT !.meipend = irq], c)
  PROVE  /\ n.mstatus_mie = c.mstatus_mpie /\ n.mstatus_mpie = 0 /\ n.mstatus_mpp = 0
         /\ \A m \in ArchNames \ {"mstatus"} : n[m] = c[m]
BY DEF CsrMret, CsrFields, ArchNames, CsrNames

(* A CSR of the machine is a register, or MSTATUS put together.             *)
LEMMA ArchReads ==
  ASSUME NEW c, NEW n \in ArchNames
  PROVE  CsrRead(c, n) = IF n = "mstatus" THEN MstatusRead(c) ELSE c[n]
BY DEF CsrRead, ArchNames, CsrNames

(* The CSRs of the machine are read from those of the core.                 *)
LEMMA MachineCsrs ==
  /\ ArchCsr = [n \in ArchNames |-> CsrRead(csr, n)]
  /\ Machine!ArchCsrs = ArchNames
BY DEF ArchCsr, ArchNames, Machine!ArchCsrs, CsrNames

(* Nothing goes on to MEM.                                                  *)
LEMMA NothingRetires ==
  ASSUME NEW irq, Executes(irq), ~ex_mem'.valid
  PROVE  ArchRegs' = ArchRegs /\ ArchMem' = ArchMem /\ imem' = imem
<1>1. /\ dmem' = dmem /\ ArchMem = MemoryOf(dmem) /\ ArchMem' = MemoryOf(DmemAfterWrite')
      /\ ArchRegs' = Overlay(ArchRegs, ex_mem', ExMemResult') /\ imem' = imem
  BY DEF Executes
<1>2. DmemAfterWrite' = dmem'
  BY DEF DmemAfterWrite, dmem_write_en
<1> QED BY <1>1, <1>2 DEF Overlay

(* A CSR that no trap writes changes with the CSR instruction only.         *)
CsrWritesRetire ==
  \A c \in {"mtvec", "mie", "mscratch", "meimask"} :
    csr'[c] # csr[c] => ex_mem'.valid /\ ex_mem'.op = id_ex.op

(* A trap of the core saves and jumps as the machine's Trap does.           *)
LEMMA TrapStep ==
  ASSUME ByteBits >= 4, NEW irq, NEW i, Instruction(irq, i), ex_trap # NoTrap, CsrWritesRetire
  PROVE  Machine!Trap(ex_trap.cause, ex_trap.tval)
<1>1. /\ Executes(irq) /\ csr \in CsrType /\ CsrClock(FALSE, irq) /\ id_ex.valid /\ ~m_stall
      /\ ArchPc = id_ex.pc /\ ArchPc' = ex_redirect_target /\ ExMemNext(TRUE)
  BY DEF Instruction, Executes, DInv, Stored
<1>2. ~ex_mem'.valid
  BY <1>1 DEF ExMemNext
<1>3. ArchRegs' = ArchRegs /\ ArchMem' = ArchMem /\ imem' = imem
  BY <1>1, <1>2, NothingRetires
<1>4. ArchPc' = csr.mtvec - (csr.mtvec % 4)
  BY <1>1 DEF ex_redirect_target
<1>5. /\ csr'.mepc = id_ex.pc /\ csr'.mcause = ex_trap.cause /\ csr'.mtval = ex_trap.tval
      /\ csr'.mstatus_mpie = csr.mstatus_mie /\ csr'.mstatus_mie = 0 /\ csr'.mstatus_mpp = 3
  <2> DEFINE write == ex_csr_write(FALSE)
             trap  == [en |-> ex_is_trap(FALSE), epc |-> id_ex.pc,
                       cause |-> ex_trap.cause, tval |-> ex_trap.tval]
             mret  == id_ex.valid /\ ~FALSE /\ id_ex.op.is_mret
  <2>1. csr' = CsrNext(csr, irq, write, trap, mret)
    BY <1>1 DEF CsrClock
  <2>2. trap.en /\ trap.epc = id_ex.pc /\ trap.cause = ex_trap.cause /\ trap.tval = ex_trap.tval
    BY <1>1 DEF ex_is_trap, ExFire
  <2>3. DOMAIN csr = CsrFields
    BY <1>1 DEF CsrType, CsrFields, CsrNames
  <2> HIDE DEF write, trap, mret
  <2> QED BY <2>1, <2>2, <2>3, TrapFields
<1>6. \A c \in {"mtvec", "mie", "mscratch", "meimask"} : csr'[c] = csr[c]
  BY <1>2 DEF CsrWritesRetire
<1>7. Machine!MIE = csr.mstatus_mie
  <2>1. ArchCsr["mstatus"] = MstatusRead(csr)
    BY MachineCsrs, ArchReads DEF ArchNames, CsrNames
  <2> QED BY <1>1, <2>1, MstatusBits, IsaWords DEF Machine!MIE
<1>8. ArchCsr' = [n \in ArchNames |-> CsrRead(csr', n)]
  BY DEF ArchCsr, ArchNames
<1>9. ArchCsr' = [ArchCsr EXCEPT !["mepc"] = ArchPc, !["mcause"] = ex_trap.cause, !["mtval"] = ex_trap.tval,
                                 !["mstatus"] = Machine!MIE * 2^7 + 3 * 2^11]
  <2>1. MstatusRead(csr') = Machine!MIE * 2^7 + 3 * 2^11
    <3>1. MstatusRead(csr') = 3 * 2^11 + csr.mstatus_mie * 2^7 + 0 * 2^3
      BY <1>5 DEF MstatusRead, MSTATUS_MIE_BIT, MSTATUS_MPIE_BIT
    <3>2. PICK m \in {0, 1} : m = csr.mstatus_mie
      BY <1>1 DEF CsrType
    <3>3. 2^11 = 2048 /\ 2^7 = 128 /\ 2^3 = 8
      BY WideWord
    <3> QED BY <1>7, <3>1, <3>2, <3>3
  <2>2. ASSUME NEW n \in ArchNames
        PROVE  CsrRead(csr', n) = CASE n = "mepc" -> id_ex.pc [] n = "mcause" -> ex_trap.cause
                                    [] n = "mtval" -> ex_trap.tval
                                    [] n = "mstatus" -> Machine!MIE * 2^7 + 3 * 2^11
                                    [] OTHER -> ArchCsr[n]
    <3>1. CASE n \in {"mtvec", "mie", "mscratch", "meimask"}
      BY <1>6, <3>1, ArchReads, MachineCsrs
    <3>2. CASE n \in {"mepc", "mcause", "mtval"}
      BY <1>5, <3>2, ArchReads
    <3>3. CASE n = "mstatus"
      BY <2>1, <3>3, ArchReads
    <3> QED BY <3>1, <3>2, <3>3 DEF ArchNames, CsrNames
  <2>3. PICK a, b, d, m : a = id_ex.pc /\ b = ex_trap.cause /\ d = ex_trap.tval /\ m = Machine!MIE * 2^7 + 3 * 2^11
    OBVIOUS
  <2>4. DOMAIN ArchCsr = ArchNames
    BY MachineCsrs
  <2>5. ArchCsr' = [n \in ArchNames |-> CASE n = "mepc" -> a [] n = "mcause" -> b [] n = "mtval" -> d
                                          [] n = "mstatus" -> m [] OTHER -> ArchCsr[n]]
    BY <1>8, <2>2, <2>3
  <2>6. ArchCsr' = [ArchCsr EXCEPT !["mepc"] = a, !["mcause"] = b, !["mtval"] = d, !["mstatus"] = m]
    BY ONLY <2>4, <2>5 DEF ArchNames, CsrNames
  <2> QED BY <1>1, <2>3, <2>6
<1>10. Machine!Jump(ArchCsr["mtvec"] - (ArchCsr["mtvec"] % 4))
  <2>1. ArchCsr["mtvec"] = csr.mtvec
    BY MachineCsrs, ArchReads DEF ArchNames, CsrNames
  <2>2. csr.mtvec - (csr.mtvec % 4) \in Word
    <3>1. csr.mtvec \in Word /\ 4 \in Nat \ {0}
      BY <1>1 DEF CsrType
    <3> QED BY <3>1, SmallerWord
  <2> QED BY <1>4, <2>1, <2>2, WrapWord, IsaWords DEF Machine!Jump
<1> QED BY <1>3, <1>9, <1>10 DEF Machine!Trap

-----------------------------------------------------------------------------
(* Traps of the instruction that executes.                                  *)
LEMMA CausesDiffer ==
  /\ CAUSE_ECALL_M = 11 /\ CAUSE_BREAKPOINT = 3 /\ CAUSE_LOAD_MISALIGNED = 4 /\ CAUSE_STORE_MISALIGNED = 6
  /\ CAUSE_LOAD_ACCESS = 5 /\ CAUSE_STORE_ACCESS = 7
BY DEF CAUSE_ECALL_M, CAUSE_BREAKPOINT, CAUSE_LOAD_MISALIGNED, CAUSE_STORE_MISALIGNED,
       CAUSE_LOAD_ACCESS, CAUSE_STORE_ACCESS

(* Which instructions are the system calls, MRET and accesses.              *)
LEMMA SystemIs ==
  ASSUME NEW i, NEW o, o = Decode(i)
  PROVE  /\ o.is_ecall  <=> (i.opcode = "SYSTEM" /\ i.funct3 = 0 /\ i.sys = "ecall")
         /\ o.is_ebreak <=> (i.opcode = "SYSTEM" /\ i.funct3 = 0 /\ i.sys = "ebreak")
         /\ o.is_mret   <=> (i.opcode = "SYSTEM" /\ i.funct3 = 0 /\ i.sys = "mret")
         /\ (o.mem_read <=> i.opcode = "LOAD") /\ (o.mem_write <=> i.opcode = "STORE")
         /\ o.csr_read => i.opcode = "SYSTEM" /\ i.funct3 % 4 # 0 /\ i.funct3 \in {1, 2, 3, 5, 6, 7}
<1>1. CASE i.opcode = "SYSTEM"
  <2>1. CASE i.funct3 = 0
    <3>1. PICK a, b, c : a = (i.sys = "ecall") /\ b = (i.sys = "ebreak") /\ c = (i.sys = "mret")
      OBVIOUS
    <3>2. o = [NoControl(i) EXCEPT !.is_ecall = a, !.is_ebreak = b, !.is_mret = c]
      BY <1>1, <2>1, <3>1 DEF Decode, SystemControl
    <3>3. /\ o.is_ecall = a /\ o.is_ebreak = b /\ o.is_mret = c /\ o.csr_read = FALSE
          /\ o.mem_read = FALSE /\ o.mem_write = FALSE
      BY <3>2 DEF NoControl
    <3> QED BY <1>1, <2>1, <3>1, <3>3
  <2>2. CASE i.funct3 \in {1, 2, 3, 5, 6, 7}
    <3>1. /\ o.is_ecall = FALSE /\ o.is_ebreak = FALSE /\ o.is_mret = FALSE
          /\ o.mem_read = FALSE /\ o.mem_write = FALSE
      <4>1. PICK u : u = (i.funct3 < 4)
        OBVIOUS
      <4>2. o = [NoControl(i) EXCEPT !.csr_read = TRUE, !.reg_write = TRUE, !.wb_sel = "CSR", !.use_rs1 = u]
        BY <1>1, <2>2, <4>1 DEF Decode, SystemControl
      <4> QED BY <4>2 DEF NoControl
    <3>2. i.funct3 % 4 # 0 /\ i.funct3 # 0
      BY <2>2
    <3> QED BY <1>1, <2>2, <3>1, <3>2
  <2>3. CASE i.funct3 \notin {0, 1, 2, 3, 5, 6, 7}
    BY <1>1, <2>3 DEF Decode, NoControl, SystemControl
  <2> QED BY <2>1, <2>2, <2>3
<1>2. CASE i.opcode \in {"LUI", "AUIPC", "JAL", "JALR"}
  BY <1>2 DEF Decode, NoControl
<1>3. CASE i.opcode \in {"BRANCH", "OP_IMM", "OP"}
  BY <1>3 DEF Decode, NoControl
<1>4. CASE i.opcode = "LOAD"
  BY <1>4 DEF Decode, NoControl
<1>5. CASE i.opcode = "STORE"
  BY <1>5 DEF Decode, NoControl
<1>6. CASE i.opcode \notin {"LUI", "AUIPC", "JAL", "JALR", "BRANCH", "OP_IMM", "OP", "LOAD", "STORE", "SYSTEM"}
  BY <1>6 DEF Decode, NoControl
<1> QED BY <1>1, <1>2, <1>3, <1>4, <1>5, <1>6

(* No line is pending and enabled when none is pending.                     *)
LEMMA AndZero == ASSUME NEW x \in Word PROVE BitAnd(x, 0) = 0
<1>1. 0 \in Word
  BY XlenPow
<1>2. ASSUME NEW i \in Bits PROVE Bit(x, i) * Bit(0, i) = Bit(0, i)
  <2>1. i \in Nat
    BY XlenPow DEF Bits
  <2>2. PICK p \in Nat \ {0} : p = 2^i
    BY <2>1, PowType
  <2>3. 0 \div p = 0
    <3>1. 0 = p * 0 + 0 /\ p \in Int /\ p > 0
      BY <2>2
    <3> QED BY ONLY <3>1, ModIs
  <2>4. Bit(0, i) = 0
    BY <2>2, <2>3 DEF Bit
  <2>5. Bit(x, i) \in {0, 1}
    BY <2>1, BitIs
  <2>6. PICK u \in {0, 1} : u = Bit(x, i)
    BY <2>5
  <2> QED BY <2>4, <2>6
<1>3. [i \in 0 .. XLEN - 1 |-> Bit(x, i) * Bit(0, i)] = [i \in Bits |-> Bit(0, i)]
  BY <1>2 DEF Bits
<1>4. OfBits([i \in Bits |-> Bit(0, i)]) = 0
  BY <1>1, BitsOf
<1> QED BY <1>3, <1>4 DEF BitAnd

(* An interrupt is taken only when the machine may take one.                *)
LEMMA InterruptReads ==
  ASSUME ByteBits >= 4, NEW irq, Executes(irq), ExternalIrqActive(csr)
  PROVE  Machine!MIE = 1 /\ \E lines \in IrqInputs : Machine!BitAnd(ArchCsr["meimask"], lines) # 0
<1>1. csr \in CsrType /\ csr.meipend \in IrqInputs \cup {0}
  BY DEF Executes, DInv, Stored, PendingReads
<1>2. csr.mstatus_mie = 1 /\ BitAnd(csr.meimask, csr.meipend) # 0
  BY DEF ExternalIrqActive
<1>3. ArchCsr["mstatus"] = MstatusRead(csr) /\ ArchCsr["meimask"] = csr.meimask
  BY MachineCsrs, ArchReads DEF ArchNames, CsrNames
<1>4. Machine!MIE = 1
  BY <1>1, <1>2, <1>3, MstatusBits, IsaWords DEF Machine!MIE
<1>5. csr.meipend # 0
  <2> SUFFICES ASSUME csr.meipend = 0 PROVE FALSE
    OBVIOUS
  <2>1. PICK x \in Word : x = csr.meimask
    BY <1>1 DEF CsrType
  <2>2. BitAnd(x, 0) = 0
    BY AndZero
  <2> QED BY <1>2, <2>1, <2>2
<1> QED BY <1>1, <1>2, <1>3, <1>4, <1>5, IsaWords

(* Every trap is a system call, a memory trap or an interrupt of the        *)
(* machine.                                                                 *)
LEMMA TrapsAre ==
  ASSUME ByteBits >= 4, NEW irq, NEW i, Instruction(irq, i), ex_trap # NoTrap, CsrWritesRetire
  PROVE  Machine!Next
<1>1. id_ex.op = Decode(i) /\ Executes(irq) /\ Machine!Instr = i /\ ArchPc = id_ex.pc
  BY MachineReads DEF Instruction
<1>2. PICK o : o = id_ex.op
  OBVIOUS
<1>3. /\ o.is_ecall  <=> (i.opcode = "SYSTEM" /\ i.funct3 = 0 /\ i.sys = "ecall")
      /\ o.is_ebreak <=> (i.opcode = "SYSTEM" /\ i.funct3 = 0 /\ i.sys = "ebreak")
      /\ (o.mem_read <=> i.opcode = "LOAD") /\ (o.mem_write <=> i.opcode = "STORE")
  BY <1>1, <1>2, SystemIs
<1>4. Machine!Trap(ex_trap.cause, ex_trap.tval)
  BY TrapStep
<1>5. CASE o.is_ecall
  <2>1. ex_trap.cause = 11 /\ ex_trap.tval = 0
    BY <1>2, <1>5, CausesDiffer DEF ex_trap
  <2>2. Machine!SystemCall
    BY <1>1, <1>3, <1>4, <1>5, <2>1 DEF Machine!SystemCall
  <2> QED BY <2>2 DEF Machine!Next
<1>6. CASE ~o.is_ecall /\ o.is_ebreak
  <2>1. ex_trap.cause = 3 /\ ex_trap.tval = ArchPc
    BY <1>1, <1>2, <1>6, CausesDiffer DEF ex_trap
  <2>2. Machine!SystemCall
    BY <1>1, <1>3, <1>4, <1>6, <2>1 DEF Machine!SystemCall
  <2> QED BY <2>2 DEF Machine!Next
<1>7. CASE ~o.is_ecall /\ ~o.is_ebreak /\ (ex_misaligned \/ ex_access_fault)
  <2>1. i.opcode \in {"LOAD", "STORE"}
    BY <1>2, <1>3, <1>7 DEF ex_misaligned, ex_access_fault
  <2>2. PICK load \in BOOLEAN : load = (i.opcode = "LOAD") /\ (o.mem_read <=> load)
    BY <1>3
  <2>3. ex_misaligned => ex_trap.cause = (IF load THEN 4 ELSE 6) /\ ex_trap.tval = ex_alu_result
    BY <1>2, <1>7, <2>2, CausesDiffer DEF ex_trap
  <2>4. ~ex_misaligned => ex_trap.cause = (IF load THEN 5 ELSE 7) /\ ex_trap.tval = ex_alu_result
    BY <1>2, <1>7, <2>2, CausesDiffer DEF ex_trap
  <2>5. /\ ex_alu_result = Machine!Address
        /\ (ex_misaligned <=> Machine!Misaligned)
        /\ (ex_access_fault <=> (~Machine!Misaligned /\ Machine!OutOfRange))
    BY <2>1, AccessIs
  <2>6. Machine!MemoryTrap
    <3>1. CASE ex_misaligned
      BY <1>1, <1>4, <2>1, <2>2, <2>3, <2>5, <3>1 DEF Machine!MemoryTrap
    <3>2. CASE ~ex_misaligned
      BY <1>1, <1>4, <1>7, <2>1, <2>2, <2>4, <2>5, <3>2 DEF Machine!MemoryTrap
    <3> QED BY <3>1, <3>2
  <2> QED BY <2>6 DEF Machine!Next
<1>8. CASE ~o.is_ecall /\ ~o.is_ebreak /\ ~ex_misaligned /\ ~ex_access_fault
  <2>1. ExternalIrqActive(csr)
    BY <1>2, <1>8 DEF ex_trap
  <2>2. ex_trap.cause = CAUSE_MACHINE_EXTERNAL_INTERRUPT /\ ex_trap.tval = 0
    BY <1>2, <1>8, <2>1 DEF ex_trap
  <2>3. CAUSE_MACHINE_EXTERNAL_INTERRUPT = 2^(Machine!XLEN - 1) + 11
    BY IsaWords DEF CAUSE_MACHINE_EXTERNAL_INTERRUPT
  <2>4. Machine!TakeInterrupt
    BY <1>1, <1>4, <2>1, <2>2, <2>3, InterruptReads DEF Machine!TakeInterrupt
  <2> QED BY <2>4 DEF Machine!Next
<1> QED BY <1>5, <1>6, <1>7, <1>8

(* A return from a trap.                                                    *)
LEMMA MretStep ==
  ASSUME ByteBits >= 4, NEW irq, NEW i, Instruction(irq, i), ex_trap = NoTrap, id_ex.op.is_mret
  PROVE  Machine!Mret
<1>1. /\ Executes(irq) /\ csr \in CsrType /\ CsrClock(FALSE, irq) /\ id_ex.valid /\ ~m_stall
      /\ ArchPc = id_ex.pc /\ ArchPc' = ex_redirect_target /\ id_ex.op = Decode(i)
      /\ ExMemNext(ex_trap # NoTrap) /\ Machine!Instr = i
  <2>1. Executes(irq) /\ id_ex.op = Decode(i) /\ Machine!Instr = i
    BY MachineReads DEF Instruction
  <2> QED BY <2>1 DEF Executes, DInv, Stored
<1>2. ~ex_mem'.valid
  BY <1>1 DEF ExMemNext
<1>3. ArchRegs' = ArchRegs /\ ArchMem' = ArchMem /\ imem' = imem
  BY <1>1, <1>2, NothingRetires
<1>4. ArchPc' = csr.mepc
  BY <1>1 DEF ex_redirect_target
<1>5. i.opcode = "SYSTEM" /\ i.funct3 = 0 /\ i.sys = "mret" /\ ~id_ex.op.csr_read
  <2>1. PICK o : o = id_ex.op
    OBVIOUS
  <2>2. /\ o.is_mret <=> (i.opcode = "SYSTEM" /\ i.funct3 = 0 /\ i.sys = "mret")
        /\ o.csr_read => i.funct3 \in {1, 2, 3, 5, 6, 7}
    BY <1>1, <2>1, SystemIs
  <2> QED BY <2>1, <2>2
<1>6. /\ csr'.mstatus_mie = csr.mstatus_mpie /\ csr'.mstatus_mpie = 0 /\ csr'.mstatus_mpp = 0
      /\ \A m \in ArchNames \ {"mstatus"} : csr'[m] = csr[m]
  <2> DEFINE write == ex_csr_write(FALSE)
             trap  == [en |-> ex_is_trap(FALSE), epc |-> id_ex.pc,
                       cause |-> ex_trap.cause, tval |-> ex_trap.tval]
             mret  == id_ex.valid /\ ~FALSE /\ id_ex.op.is_mret
  <2>1. csr' = CsrNext(csr, irq, write, trap, mret)
    BY <1>1 DEF CsrClock
  <2>2. ~trap.en /\ ~write.en /\ mret
    BY <1>1, <1>5 DEF ex_is_trap, ex_csr_write
  <2>3. DOMAIN csr = CsrFields
    BY <1>1 DEF CsrType, CsrFields, CsrNames
  <2> HIDE DEF write, trap, mret
  <2>4. csr' = CsrMret([csr EXCEPT !.meipend = irq], csr)
    BY <2>1, <2>2 DEF CsrNext
  <2> QED BY ONLY <2>3, <2>4, MretFields
<1>7. Machine!MPIE = csr.mstatus_mpie
  <2>1. ArchCsr["mstatus"] = MstatusRead(csr)
    BY MachineCsrs, ArchReads DEF ArchNames, CsrNames
  <2> QED BY <1>1, <2>1, MstatusBits, IsaWords DEF Machine!MPIE
<1>8. ArchCsr' = [n \in ArchNames |-> CsrRead(csr', n)]
  BY DEF ArchCsr, ArchNames
<1>9. ArchCsr' = [ArchCsr EXCEPT !["mstatus"] = Machine!MPIE * 2^3]
  <2>1. MstatusRead(csr') = Machine!MPIE * 2^3
    <3>1. MstatusRead(csr') = 0 * 2^11 + 0 * 2^7 + csr.mstatus_mpie * 2^3
      BY <1>6 DEF MstatusRead, MSTATUS_MIE_BIT, MSTATUS_MPIE_BIT
    <3>2. PICK m \in {0, 1} : m = csr.mstatus_mpie
      BY <1>1 DEF CsrType
    <3>3. 2^11 = 2048 /\ 2^7 = 128 /\ 2^3 = 8
      BY WideWord
    <3> QED BY <1>7, <3>1, <3>2, <3>3
  <2>2. ASSUME NEW n \in ArchNames
        PROVE  CsrRead(csr', n) = IF n = "mstatus" THEN Machine!MPIE * 2^3 ELSE ArchCsr[n]
    BY <1>6, <2>1, ArchReads, MachineCsrs
  <2>3. DOMAIN ArchCsr = ArchNames
    BY MachineCsrs
  <2>4. ArchCsr' = [n \in ArchNames |-> IF n = "mstatus" THEN Machine!MPIE * 2^3 ELSE ArchCsr[n]]
    BY <1>8, <2>2
  <2> QED BY ONLY <2>3, <2>4 DEF ArchNames, CsrNames
<1>10. Machine!Jump(ArchCsr["mepc"])
  <2>1. ArchCsr["mepc"] = csr.mepc /\ csr.mepc \in Word
    BY <1>1, MachineCsrs, ArchReads DEF ArchNames, CsrNames, CsrType
  <2> QED BY <1>4, <2>1, WrapWord, IsaWords DEF Machine!Jump
<1> QED BY <1>1, <1>3, <1>5, <1>9, <1>10 DEF Machine!Mret

-----------------------------------------------------------------------------
(* CSR instructions: what is written, as bits.                              *)
NewBits(f, old, src) ==
  [k \in Bits |-> CASE f % 4 = 1 -> Bit(src, k)
                    [] f % 4 = 2 -> IF Bit(old, k) + Bit(src, k) > 0 THEN 1 ELSE 0
                    [] f % 4 = 3 -> IF Bit(src, k) = 1 THEN 0 ELSE Bit(old, k)]
(* The value that a CSR instruction writes is that of its bits.             *)
LEMMA NewValue ==
  ASSUME NEW f \in {1, 2, 3, 5, 6, 7}, NEW old \in Word, NEW src \in Word, NEW v,
         v = CASE f % 4 = 1 -> src [] f % 4 = 2 -> BitOr(old, src) [] OTHER -> BitAnd(old, BitNot(src))
  PROVE  v = OfBits(NewBits(f, old, src)) /\ v \in Word
<1>1. BitNot(src) \in Word
  <2>1. PICK M \in Int : M = 2^XLEN /\ Word = 0 .. M - 1
    BY ONLY XlenPow
  <2>2. BitNot(src) = M - 1 - src
    BY ONLY <2>1 DEF BitNot
  <2> QED BY ONLY <2>1, <2>2, src \in Word
<1>2. CASE f \in {1, 5}
  <2>1. f % 4 = 1
    BY ONLY <1>2
  <2>2. v = src
    BY <2>1
  <2>3. NewBits(f, old, src) = [k \in Bits |-> Bit(src, k)]
    BY ONLY <2>1 DEF NewBits
  <2> QED BY <2>2, <2>3, BitsOf
<1>3. CASE f \in {2, 6}
  <2>1. f % 4 = 2
    BY <1>3
  <2>2. v = BitOr(old, src) /\ NewBits(f, old, src) = OrBits(old, src)
    BY <2>1 DEF NewBits, OrBits
  <2>3. BitOr(old, src) = OfBits(OrBits(old, src)) /\ BitOr(old, src) \in Word
    BY ONLY old \in Word, src \in Word, BitwiseIs
  <2> QED BY ONLY <2>2, <2>3
<1>4. CASE f \in {3, 7}
  <2>1. f % 4 = 3
    BY <1>4
  <2>2. v = BitAnd(old, BitNot(src)) /\ NewBits(f, old, src) = ClearBits(old, src)
    BY <2>1 DEF NewBits, ClearBits
  <2>3. BitAnd(old, BitNot(src)) = OfBits(ClearBits(old, src))
    BY ClearIs
  <2>4. PICK m \in Word : m = BitNot(src)
    BY <1>1
  <2>5. BitAnd(old, m) \in Word
    BY BitwiseIs
  <2> QED BY <2>2, <2>3, <2>4, <2>5
<1> QED BY ONLY <1>2, <1>3, <1>4, f \in {1, 2, 3, 5, 6, 7}, Zenon

(* What Decode says of a CSR instruction.                                   *)
LEMMA CsrControl ==
  ASSUME NEW i, i.opcode = "SYSTEM", i.funct3 \in {1, 2, 3, 5, 6, 7}, NEW o, o = Decode(i)
  PROVE  /\ o.csr_read /\ o.reg_write /\ o.wb_sel = "CSR" /\ (o.use_rs1 <=> i.funct3 < 4)
         /\ ~o.mem_write /\ ~o.jal /\ ~o.jalr /\ o.branch_kind = "NONE" /\ o.alu_op = "ADD"
         /\ o.funct3 = i.funct3 /\ o.rs1 = i.rs1 /\ o.csr_addr = i.sys
<1>1. PICK u : u = (i.funct3 < 4)
  OBVIOUS
<1>2. o = [NoControl(i) EXCEPT !.csr_read = TRUE, !.reg_write = TRUE, !.wb_sel = "CSR", !.use_rs1 = u]
  BY <1>1 DEF Decode, SystemControl
<1>3. /\ o.csr_read = TRUE /\ o.reg_write = TRUE /\ o.wb_sel = "CSR" /\ o.use_rs1 = u
      /\ o.mem_write = FALSE /\ o.jal = FALSE /\ o.jalr = FALSE /\ o.branch_kind = "NONE" /\ o.alu_op = "ADD"
      /\ o.funct3 = i.funct3 /\ o.rs1 = i.rs1 /\ o.csr_addr = i.sys
  BY <1>2 DEF NoControl
<1> QED BY <1>1, <1>3

(* The pending bits are no part of the other CSRs.                          *)
LEMMA SampledReads ==
  ASSUME NEW c, DOMAIN c = CsrFields, NEW irq, NEW n \in ArchNames
  PROVE  CsrRead([c EXCEPT !.meipend = irq], n) = CsrRead(c, n)
BY DEF CsrRead, MstatusRead, ArchNames, CsrNames, CsrFields

(* What a CSR instruction returns is a value the machine may return.        *)
LEMMA CsrOld ==
  ASSUME NEW irq, Executes(irq), id_ex.op.csr_read
  PROVE  id_ex.csr_old \in Machine!CsrValues(id_ex.op.csr_addr) /\ id_ex.csr_old \in Word
<1>1. PICK n, v : n = id_ex.op.csr_addr /\ v = id_ex.csr_old
  OBVIOUS
<1>2. id_ex.valid /\ CsrReadReturnsOld /\ PendingReads /\ v \in Word
  BY <1>1 DEF Executes, DInv, ExData
<1>3. CASE n \in ArchNames
  <2>1. v = ArchCsr[n]
    BY <1>1, <1>2, <1>3, MachineCsrs DEF CsrReadReturnsOld, ArchNames
  <2>2. Machine!CsrValues(n) = {ArchCsr[n]}
    BY <1>3, MachineCsrs DEF Machine!CsrValues, ArchNames, CsrNames
  <2> QED BY <1>1, <1>2, <2>1, <2>2
<1>4. CASE n = "meipend"
  <2>1. v \in IrqInputs \cup {0}
    BY <1>1, <1>2, <1>4 DEF PendingReads
  <2> QED BY <1>1, <1>2, <1>4, <2>1, MachineCsrs DEF Machine!CsrValues, ArchNames, CsrNames
<1>5. CASE n = "mip"
  <2>1. v \in {0, 2^11}
    BY <1>1, <1>2, <1>5 DEF PendingReads
  <2> QED BY <1>1, <1>2, <1>5, <2>1, MachineCsrs DEF Machine!CsrValues, ArchNames, CsrNames
<1>6. CASE n \notin CsrNames
  <2>1. v = 0
    BY <1>1, <1>2, <1>6 DEF PendingReads
  <2> QED BY <1>1, <1>2, <1>6, <2>1, MachineCsrs DEF Machine!CsrValues, ArchNames, CsrNames
<1> QED BY <1>3, <1>4, <1>5, <1>6 DEF ArchNames

(* A CSR instruction is the machine's CsrInstr.                             *)
LEMMA CsrStep ==
  ASSUME ByteBits >= 4, NEW irq, NEW i, Completes(irq, i), i.opcode = "SYSTEM", i.funct3 % 4 # 0
  PROVE  Machine!CsrInstr
<1>1. /\ Executes(irq) /\ Instruction(irq, i) /\ id_ex.op = Decode(i) /\ Machine!Instr = i
      /\ ex_trap = NoTrap /\ ~id_ex.op.is_mret
  BY MachineReads DEF Completes, Instruction
<1>2. PICK f \in {1, 2, 3, 5, 6, 7} : f = i.funct3
  BY <1>1, ValuesTyped
<1>3. PICK o : o = id_ex.op
  OBVIOUS
<1>4. /\ o.csr_read /\ o.reg_write /\ o.wb_sel = "CSR" /\ (o.use_rs1 <=> f < 4)
      /\ ~o.mem_write /\ ~o.jal /\ ~o.jalr /\ o.branch_kind = "NONE" /\ o.alu_op = "ADD"
      /\ o.funct3 = f /\ o.rs1 = i.rs1 /\ o.csr_addr = i.sys
  BY <1>1, <1>2, <1>3, CsrControl
<1>5. PICK old \in Word : old = id_ex.csr_old /\ old \in Machine!CsrValues(i.sys)
  BY <1>1, <1>3, <1>4, CsrOld
<1>6. PICK src \in Word : /\ src = IF f < 4 THEN Machine!Rs1 ELSE i.rs1
                          /\ src = IF f < 4 THEN ex_forward_a_data ELSE i.rs1
  <2>1. f < 4 => ex_forward_a_data = Machine!Rs1 /\ Machine!Rs1 \in Word
    BY <1>1, <1>3, <1>4, OperandsAre DEF ALU_MUL_OPS, ALU_DIV_OPS
  <2>2. i.rs1 \in Word
    <3>1. i.rs1 \in 0 .. 31
      BY <1>1, ValuesTyped
    <3>2. 0 .. 31 \subseteq Word
      BY WideWord, XlenPow
    <3> QED BY <3>1, <3>2
  <2>3. CASE f < 4
    BY <2>1, <2>3
  <2>4. CASE ~(f < 4)
    BY <2>2, <2>4
  <2> QED BY <2>3, <2>4
<1>7. PICK v, en : /\ v = CASE f % 4 = 1 -> src [] f % 4 = 2 -> BitOr(old, src)
                            [] OTHER -> BitAnd(old, BitNot(src))
                   /\ en = (f % 4 = 1 \/ i.rs1 # 0)
  OBVIOUS
<1>8. v = OfBits(NewBits(f, old, src)) /\ v \in Word
  BY <1>7, NewValue
<1>9. PICK w : w = ex_csr_write(FALSE)
  OBVIOUS
<1>10. (w.en <=> en) /\ w.addr = i.sys /\ w.data = v
  <2>1. ExFire(FALSE)
    BY <1>1 DEF ExFire, Executes
  <2>2. (f \in {1, 5}) <=> (f % 4 = 1)
    OBVIOUS
  <2>3. w.addr = i.sys /\ w.data = v
    BY <1>3, <1>4, <1>5, <1>6, <1>7, <1>9 DEF ex_csr_write
  <2>4. w.en <=> en
    BY <1>3, <1>4, <1>7, <1>9, <2>1, <2>2 DEF ex_csr_write
  <2> QED BY <2>3, <2>4
<1>11. csr' = IF en THEN CsrWrite([csr EXCEPT !.meipend = irq], i.sys, v) ELSE [csr EXCEPT !.meipend = irq]
  <2>1. CsrClock(FALSE, irq)
    BY <1>1 DEF Executes
  <2>2. ~ex_is_trap(FALSE)
    BY <1>1 DEF ex_is_trap
  <2> QED BY <1>1, <1>9, <1>10, <2>1, <2>2 DEF CsrClock, CsrNext
<1>12. ArchCsr' = IF en /\ i.sys \in ArchNames
                    THEN [ArchCsr EXCEPT ![i.sys] = Machine!Legal(i.sys, v)] ELSE ArchCsr
  <2>1. DOMAIN csr = CsrFields
    BY <1>1 DEF Executes, DInv, Stored, CsrType, CsrFields, CsrNames
  <2>2. PICK d : d = csr'
    OBVIOUS
  <2>3. ASSUME NEW n \in ArchNames
        PROVE  CsrRead(d, n) = IF en /\ n = i.sys THEN Machine!Legal(i.sys, v) ELSE CsrRead(csr, n)
    <3>1. PICK s : s = [csr EXCEPT !.meipend = irq]
      OBVIOUS
    <3>2. DOMAIN s = CsrFields /\ CsrRead(s, n) = CsrRead(csr, n)
      BY <2>1, <3>1, SampledReads
    <3>3. d = IF en THEN CsrWrite(s, i.sys, v) ELSE s
      BY <1>11, <2>2, <3>1
    <3>4. CASE en /\ i.sys \in ArchNames
      <4>1. CsrRead(CsrWrite(s, i.sys, v), n) = IF n = i.sys THEN Machine!Legal(i.sys, v) ELSE CsrRead(s, n)
        BY <1>8, <3>2, <3>4, CsrWriteIs
      <4> QED BY <3>2, <3>3, <3>4, <4>1
    <3>5. CASE en /\ i.sys \notin ArchNames
      <4>1. CsrWrite(s, i.sys, v) = s
        BY <3>5 DEF CsrWrite, ArchNames, CsrNames
      <4> QED BY <3>2, <3>3, <3>5, <4>1
    <3>6. CASE ~en
      BY <3>2, <3>3, <3>6
    <3> QED BY <3>4, <3>5, <3>6
  <2>4. ArchCsr' = [n \in ArchNames |-> CsrRead(d, n)]
    BY <2>2 DEF ArchCsr, ArchNames
  <2>5. ArchCsr = [n \in ArchNames |-> CsrRead(csr, n)]
    BY MachineCsrs
  <2> QED BY <2>3, <2>4, <2>5
<1>13. Machine!WriteRd(old)
  <2>1. ExResult = Wrap(old)
    BY <1>3, <1>4, <1>5, WrapWord DEF ExResult
  <2> QED BY <1>3, <1>4, <2>1, WritesRd
<1>14. Machine!NextPc /\ ArchMem' = ArchMem /\ imem' = imem
  <2>1. ~ExBranchTaken
    BY <1>3, <1>4 DEF ExBranchTaken, BranchCond
  <2>2. ArchPc' = Wrap(id_ex.pc + 4)
    BY <1>3, <1>4, <2>1, CompletesPc
  <2>3. ArchPc = id_ex.pc /\ imem' = imem
    BY <1>1 DEF Executes
  <2>4. ArchMem' = ArchMem
    BY <1>3, <1>4, CompletesMem
  <2> QED BY <2>2, <2>3, <2>4, IsaWords DEF Machine!NextPc
<1>15. Machine!OfBits([k \in 0 .. Machine!XLEN - 1 |->
                    CASE i.funct3 % 4 = 1 -> Machine!Bit(src, k)
                      [] i.funct3 % 4 = 2 -> IF Machine!Bit(old, k) + Machine!Bit(src, k) > 0 THEN 1 ELSE 0
                      [] i.funct3 % 4 = 3 -> IF Machine!Bit(src, k) = 1 THEN 0 ELSE Machine!Bit(old, k)]) = v
  <2>1. [k \in 0 .. Machine!XLEN - 1 |->
           CASE f % 4 = 1 -> Machine!Bit(src, k)
             [] f % 4 = 2 -> IF Machine!Bit(old, k) + Machine!Bit(src, k) > 0 THEN 1 ELSE 0
             [] f % 4 = 3 -> IF Machine!Bit(src, k) = 1 THEN 0 ELSE Machine!Bit(old, k)] = NewBits(f, old, src)
    BY DEF Machine!XLEN, XLEN, Machine!Bit, Bit, NewBits, Bits
  <2> QED BY <1>2, <1>8, <2>1, IsaWords
<1>16. \E x \in Machine!CsrValues(i.sys) :
         /\ Machine!WriteRd(x)
         /\ ArchCsr' = IF (i.funct3 % 4 = 1 \/ i.rs1 # 0) /\ i.sys \in Machine!ArchCsrs
                         THEN [ArchCsr EXCEPT ![i.sys] = Machine!Legal(i.sys,
                                Machine!OfBits([k \in 0 .. Machine!XLEN - 1 |->
                                  CASE i.funct3 % 4 = 1 -> Machine!Bit(src, k)
                                    [] i.funct3 % 4 = 2 -> IF Machine!Bit(x, k) + Machine!Bit(src, k) > 0 THEN 1 ELSE 0
                                    [] i.funct3 % 4 = 3 -> IF Machine!Bit(src, k) = 1 THEN 0 ELSE Machine!Bit(x, k)]))]
                         ELSE ArchCsr
  <2>1. ((i.funct3 % 4 = 1 \/ i.rs1 # 0) /\ i.sys \in Machine!ArchCsrs) <=> (en /\ i.sys \in ArchNames)
    BY <1>2, <1>7, MachineCsrs
  <2>2. old \in Machine!CsrValues(i.sys)
    BY <1>5
  <2> WITNESS old \in Machine!CsrValues(i.sys)
  <2> QED BY ONLY <1>12, <1>13, <1>15, <2>1
<1>17. src = IF i.funct3 < 4 THEN Machine!Rs1 ELSE i.rs1
  BY <1>2, <1>6
<1> QED BY ONLY <1>1, <1>14, <1>16, <1>17, i.opcode = "SYSTEM", i.funct3 % 4 # 0 DEF Machine!CsrInstr

-----------------------------------------------------------------------------
(* Every instruction that completes is a step of the machine.               *)
LEMMA CompletesAre ==
  ASSUME ByteBits >= 4, NEW irq, NEW i, Completes(irq, i)
  PROVE  Machine!Next
<1>1. Instruction(irq, i) /\ ex_trap = NoTrap /\ ~id_ex.op.is_mret
  BY DEF Completes
<1>2. i.opcode \in {"LUI", "AUIPC", "JAL", "JALR", "BRANCH", "LOAD", "STORE",
                    "OP_IMM", "OP", "SYSTEM", "MISC_MEM", "NONE"}
  BY <1>1 DEF Instruction, Implemented
<1>3. CASE i.opcode \in {"LUI", "AUIPC"}
  BY <1>3, UpperStep DEF Machine!Next
<1>4. CASE i.opcode \in {"JAL", "JALR"}
  BY <1>4, JumpStep DEF Machine!Next
<1>5. CASE i.opcode = "BRANCH"
  BY <1>5, BranchStep DEF Machine!Next
<1>6. CASE i.opcode = "LOAD"
  BY <1>6, LoadStep DEF Machine!Next
<1>7. CASE i.opcode = "STORE"
  BY <1>7, StoreStep DEF Machine!Next
<1>8. CASE i.opcode \in {"OP_IMM", "OP"}
  BY <1>8, ArithmeticStep DEF Machine!Next
<1>9. CASE i.opcode \in {"MISC_MEM", "NONE"}
  BY <1>9, NoOperationStep DEF Machine!Next
<1>10. CASE i.opcode = "SYSTEM" /\ i.funct3 % 4 # 0
  BY <1>10, CsrStep DEF Machine!Next
<1>11. CASE i.opcode = "SYSTEM" /\ i.funct3 % 4 = 0
  <2>1. PICK o : o = id_ex.op /\ o = Decode(i)
    BY <1>1 DEF Instruction
  <2>2. ~o.is_ecall /\ ~o.is_ebreak
    <3>1. ASSUME NEW c, NEW t, [cause |-> c, tval |-> t] = NoTrap PROVE c = 0
      BY <3>1 DEF NoTrap
    <3>2. o.is_ecall => ex_trap = [cause |-> CAUSE_ECALL_M, tval |-> 0]
      BY <2>1 DEF ex_trap
    <3>3. ~o.is_ecall /\ o.is_ebreak => ex_trap = [cause |-> CAUSE_BREAKPOINT, tval |-> id_ex.pc]
      BY <2>1 DEF ex_trap
    <3> QED BY <1>1, <3>1, <3>2, <3>3, CausesDiffer
  <2>3. ~(i.funct3 = 0 /\ i.sys \in {"ecall", "ebreak", "mret"})
    BY <1>1, <1>11, <2>1, <2>2, SystemIs
  <2> QED BY <1>11, <2>3, NoOperationStep DEF Machine!Next
<1> QED BY <1>2, <1>3, <1>4, <1>5, <1>6, <1>7, <1>8, <1>9, <1>10, <1>11

(* The inductive invariant of the refinement.                               *)
ProgramImplemented == \A n \in 0 .. ImemWords - 1 : Implemented(imem[n])
RInv == /\ DInv /\ OperandsInOrder /\ CsrReadReturnsOld
        /\ PendingReads /\ UnitOperands /\ ProgramImplemented

(* An edge in which no instruction leaves EX is no step of the machine, any *)
(* other edge is one step.                                                  *)
LEMMA EdgeIs ==
  ASSUME ByteBits >= 4, RInv, CsrWritesRetire,
         NEW imem_ready \in BOOLEAN, NEW dmem_ready, NEW irq, Clock(imem_ready, dmem_ready, irq)
  PROVE  Machine!Next \/ UNCHANGED Machine!vars
<1> USE DEF RInv
<1>1. CASE Fires
  <2>1. Executes(irq)
    BY <1>1, Fired
  <2>2. PICK i : i = InstrAt(id_ex.pc) /\ Instruction(irq, i)
    BY <2>1, InstructionIs DEF ProgramImplemented
  <2>3. CASE ex_trap # NoTrap
    BY <2>2, <2>3, TrapsAre
  <2>4. CASE ex_trap = NoTrap /\ id_ex.op.is_mret
    BY <2>2, <2>4, MretStep DEF Machine!Next
  <2>5. CASE ex_trap = NoTrap /\ ~id_ex.op.is_mret
    BY <2>2, <2>5, CompletesAre DEF Completes
  <2> QED BY <2>3, <2>4, <2>5
<1>2. CASE ~Fires
  <2>1. ArchPc' = ArchPc /\ ArchRegs' = ArchRegs /\ ArchMem' = ArchMem /\ ArchCsr' = ArchCsr
    BY <1>2, QuietPc, QuietRegs, QuietMem, QuietCsr
  <2>2. imem' = imem
    BY DEF Clock, ClockMemStall, ClockRedirect, ClockAdvance, CommonClock
  <2> QED BY <2>1, <2>2 DEF Machine!vars
<1> QED BY <1>1, <1>2

(* A step that changes nothing changes nothing of the machine.              *)
LEMMA StutterIs == UNCHANGED vars => UNCHANGED Machine!vars
<1> SUFFICES ASSUME UNCHANGED vars PROVE UNCHANGED Machine!vars
  OBVIOUS
<1>1. /\ UNCHANGED <<pc_f, if_buf, if_id, id_ex, ex_mem, mem_wb, mul, div>>
      /\ UNCHANGED <<regs, csr, imem, dmem>>
  BY DEF vars, fetchRegs, stageRegs
<1>2. ArchPc' = ArchPc /\ ArchCsr' = ArchCsr
  BY <1>1 DEF ArchPc, ArchCsr
<1>3. DmemAfterWrite' = DmemAfterWrite
  BY <1>1 DEF DmemAfterWrite, dmem_write_en, dmem_index, dmem_addr, dmem_write_data, dmem_wstrb
<1>4. ArchMem' = ArchMem
  BY <1>3 DEF ArchMem
<1>5. wb_data' = wb_data /\ ExMemResult' = ExMemResult
  BY <1>1 DEF wb_data, ExMemResult, mem_load_data, ex_mem_forward_data, dmem_read_data, dmem_index, dmem_addr
<1>6. ArchRegs' = ArchRegs
  BY <1>1, <1>5 DEF ArchRegs, Overlay
<1> QED BY <1>1, <1>2, <1>4, <1>6 DEF Machine!vars

(* The machine starts as the core does.                                     *)
LEMMA InitIs == Init => Machine!Init
<1> SUFFICES ASSUME Init PROVE Machine!Init
  OBVIOUS
<1>1. /\ pc_f = RESET_PC /\ ~if_id.valid /\ ~id_ex.valid /\ ~ex_mem.valid /\ ~mem_wb.valid
      /\ regs = [r \in Reg |-> 0] /\ csr = CsrReset /\ dmem = DmemInit
  BY DEF Init, IfIdReset, IdExReset, ExMemReset, MemWbReset
<1>2. ArchPc = RESET_PC
  BY <1>1 DEF ArchPc
<1>3. ArchRegs = [r \in Reg |-> 0]
  BY <1>1 DEF ArchRegs, Overlay
<1>4. ArchMem = [m \in 0 .. 4 * DmemWords - 1 |-> Lane(DmemInit[m \div 4], m % 4)]
  <2>1. DmemAfterWrite = DmemInit
    BY <1>1 DEF DmemAfterWrite, dmem_write_en
  <2> QED BY <2>1 DEF ArchMem
<1>5. ArchCsr = [c \in Machine!ArchCsrs |-> 0]
  <2>1. ASSUME NEW n \in ArchNames PROVE CsrRead(CsrReset, n) = 0
    <3>1. MstatusRead(CsrReset) = 0
      <4>1. 2^11 \in Int /\ 2^7 \in Int /\ 2^3 \in Int
        BY PowType
      <4> QED BY <4>1 DEF MstatusRead, CsrReset, MSTATUS_MPIE_BIT, MSTATUS_MIE_BIT
    <3>2. n # "mstatus" => CsrReset[n] = 0
      BY DEF CsrReset, ArchNames, CsrNames
    <3> QED BY <3>1, <3>2, ArchReads
  <2> QED BY <1>1, <2>1, MachineCsrs
<1> QED BY <1>2, <1>3, <1>4, <1>5 DEF Machine!Init

-----------------------------------------------------------------------------
(* The parts of the invariant that no earlier theorem states.               *)
LEMMA PendingUnitsHold ==
  /\ Init => PendingReads /\ UnitOperands
  /\ DInv /\ OperandsInOrder /\ PendingReads /\ UnitOperands /\ [Next]_vars
       => PendingReads' /\ UnitOperands'
<1>1. ASSUME Init PROVE PendingReads /\ UnitOperands
  <2>1. ~id_ex.valid /\ csr.meipend = 0
    BY <1>1, ResetEmptiesEx DEF Init, CsrReset
  <2> QED BY <2>1 DEF PendingReads, UnitOperands
<1>2. ASSUME DInv, OperandsInOrder, PendingReads, UnitOperands, [Next]_vars
      PROVE  PendingReads' /\ UnitOperands'
  <2>1. CASE Reset
    <3>1. ~id_ex'.valid /\ csr'.meipend = 0
      BY <2>1, ResetEmptiesEx DEF Reset, CsrReset
    <3> QED BY <3>1 DEF PendingReads, UnitOperands
  <2>2. CASE \E imem_ready \in ImemReady, dmem_ready \in DmemReady,
                irq \in IrqInputs : Clock(imem_ready, dmem_ready, irq)
    <3>1. PICK imem_ready \in ImemReady, dmem_ready \in DmemReady,
               irq \in IrqInputs : Clock(imem_ready, dmem_ready, irq)
      BY <2>2
    <3>2. imem_ready \in BOOLEAN
      BY CoreAssumption
    <3> QED BY <1>2, <3>1, <3>2, PendingMoves, UnitOperandsMove
  <2>3. CASE UNCHANGED vars
    <3>1. id_ex' = id_ex /\ csr' = csr /\ mul' = mul /\ div' = div
      BY <2>3 DEF vars, fetchRegs, stageRegs
    <3>2. ArchRegs' = ArchRegs
      BY <2>3, StutterIs DEF Machine!vars
    <3>3. PendingReads'
      BY <1>2, <3>1 DEF PendingReads
    <3>4. UnitOperands'
      <4>1. UnitActive' = UnitActive
        BY <3>1 DEF UnitActive
      <4>2. \A r : OperandValue(r)' = OperandValue(r)
        BY <3>2 DEF OperandValue
      <4>3. OperandValue(id_ex.op.rs1)' = OperandValue(id_ex.op.rs1)
            /\ OperandValue(id_ex.op.rs2)' = OperandValue(id_ex.op.rs2)
        BY <3>1, <3>2 DEF OperandValue
      <4> QED BY <1>2, <3>1, <4>1, <4>3 DEF UnitOperands, UnitsOk
    <3> QED BY <3>3, <3>4
  <2> QED BY <1>2, <2>1, <2>2, <2>3 DEF Next
<1> QED BY <1>1, <1>2

(* Programs of the instruction set.                                         *)
ProgramsImplemented ==
  \A program \in Programs : \A n \in 0 .. ImemWords - 1 : Implemented(program[n])

(* What the refinement needs to know of a state holds of every state: the   *)
(* data of the pipeline, the operands and CSR values in program order, the  *)
(* pending bits read, and the operands captured by a unit at work.          *)
THEOREM RefinementInvariant ==
  ASSUME ByteBits >= 4, ProgramsImplemented
  PROVE  Spec => []RInv
<1>1. Spec => []DInv
  BY DataInvariant
<1>2. Spec => []OperandsInOrder
  BY OperandsCorrect
<1>3. Spec => []CsrReadReturnsOld
  BY CsrReadsOld
<1>4. Init => ProgramImplemented
  BY DEF Init, ProgramImplemented, ProgramsImplemented
<1>5. ProgramImplemented /\ [Next]_vars => ProgramImplemented'
  <2>1. [Next]_vars => imem' = imem
    BY DEF Next, Reset, Clock, ClockMemStall, ClockRedirect, ClockAdvance, CommonClock, vars
  <2> QED BY <2>1 DEF ProgramImplemented
<1>6. Init => PendingReads /\ UnitOperands
  BY PendingUnitsHold
<1>7. DInv /\ OperandsInOrder /\ PendingReads /\ UnitOperands /\ [Next]_vars
        => PendingReads' /\ UnitOperands'
  BY PendingUnitsHold
<1>8. RInv <=> (DInv /\ OperandsInOrder /\ CsrReadReturnsOld /\ PendingReads /\ UnitOperands /\ ProgramImplemented)
  BY DEF RInv
<1> QED BY <1>1, <1>2, <1>3, <1>4, <1>5, <1>6, <1>7, <1>8, PTL DEF Spec

(* The step of the refinement.                                              *)
LEMMA StepIs ==
  ASSUME ByteBits >= 4, TRUE \notin ResetInputs, RInv, [Next]_vars, [CsrWritesRetire]_vars
  PROVE  [Machine!Next]_(Machine!vars)
<1>1. CASE UNCHANGED vars
  BY <1>1, StutterIs
<1>2. CASE Next /\ CsrWritesRetire
  <2>1. PICK imem_ready \in ImemReady, dmem_ready \in DmemReady,
             irq \in IrqInputs : Clock(imem_ready, dmem_ready, irq)
    BY <1>2 DEF Next
  <2>2. imem_ready \in BOOLEAN
    BY CoreAssumption
  <2> QED BY <1>2, <2>1, <2>2, EdgeIs
<1> QED BY <1>1, <1>2

(* The pipeline implements the instruction set: for every program of RV32IM *)
(* instructions, every timing of the memories and of the interrupt lines,   *)
(* its stalls, forwarding, flushes and traps never lose, repeat, reorder or *)
(* corrupt an instruction, as long as no CSR write is lost to an interrupt  *)
(* (CsrWriteRetires, which the core violates) and the core is not reset.    *)
THEOREM CoreImplementsIsa ==
  ASSUME ByteBits >= 4, TRUE \notin ResetInputs, ProgramsImplemented
  PROVE  Spec /\ CsrWriteRetires => ImplementsIsa
<1>1. Spec => []RInv
  BY RefinementInvariant
<1>2. Init => Machine!Init
  BY InitIs
<1>3. RInv /\ [Next]_vars /\ [CsrWritesRetire]_vars => [Machine!Next]_(Machine!vars)
  BY StepIs
<1>4. CsrWriteRetires <=> [][CsrWritesRetire]_vars
  BY DEF CsrWriteRetires, CsrWritesRetire
<1> QED BY <1>1, <1>2, <1>3, <1>4, PTL DEF Spec, ImplementsIsa, Machine!Spec

(* A CSR that no trap writes changes by a CSR instruction only.            *)
LEMMA CsrUnwritten ==
  ASSUME NEW c, DOMAIN c = CsrFields, NEW irq, NEW write, ~write.en, NEW trap, NEW mret,
         NEW n \in {"mtvec", "mie", "mscratch", "meimask"}
  PROVE  CsrNext(c, irq, write, trap, mret)[n] = c[n]
<1>1. PICK s : s = [c EXCEPT !.meipend = irq]
  OBVIOUS
<1>2. s[n] = c[n] /\ n \in DOMAIN s /\ CsrNext(c, irq, write, trap, mret) \in {s, CsrTrap(s, c, trap), CsrMret(s, c)}
  BY <1>1 DEF CsrNext, CsrFields, CsrNames
<1>3. CsrTrap(s, c, trap)[n] = s[n] /\ CsrMret(s, c)[n] = s[n]
  BY <1>2 DEF CsrTrap, CsrMret
<1> QED BY <1>2, <1>3

(* With the interrupt lines low no CSR instruction traps.                   *)
LEMMA QuietLines ==
  ASSUME ByteBits >= 4, IrqInputs \subseteq {0}, RInv,
         NEW imem_ready, NEW dmem_ready, NEW irq, Clock(imem_ready, dmem_ready, irq)
  PROVE  CsrWritesRetire
<1>1. csr \in CsrType /\ DOMAIN csr = CsrFields /\ ExData
  BY DEF RInv, DInv, Stored, CsrType, CsrFields, CsrNames
<1>2. ~ExternalIrqActive(csr)
  <2>1. csr.meipend = 0
    BY DEF RInv, PendingReads
  <2>2. PICK m \in Word : m = csr.meimask
    BY <1>1 DEF CsrType
  <2> QED BY <2>1, <2>2, AndZero DEF ExternalIrqActive
<1>3. PICK stall \in BOOLEAN :
        /\ CsrClock(stall, irq)
        /\ ~stall => ExMemNext(ex_is_trap(FALSE)) \/ (ExMemNext(FALSE) /\ ~ex_redirect(FALSE))
  BY DEF Clock, ClockMemStall, ClockRedirect, ClockAdvance, CommonClock
<1>4. CASE ~ex_csr_write(stall).en
  BY <1>1, <1>3, <1>4, CsrUnwritten DEF CsrClock, CsrWritesRetire
<1>5. CASE ex_csr_write(stall).en
  <2>1. stall = FALSE /\ ~m_stall /\ id_ex.valid /\ id_ex.op.csr_read
    BY <1>5 DEF ex_csr_write, ExFire
  <2>2. PICK i, o : o = Decode(i) /\ o = id_ex.op
    BY <1>1 DEF ExData, IsControl
  <2>3. ~o.is_ecall /\ ~o.is_ebreak /\ ~o.is_mret /\ ~o.mem_read /\ ~o.mem_write
    <3>1. i.opcode = "SYSTEM" /\ i.funct3 # 0
      <4>1. o.csr_read
        BY <2>1, <2>2
      <4>2. i.opcode = "SYSTEM" /\ i.funct3 \in {1, 2, 3, 5, 6, 7}
        BY <2>2, <4>1, SystemIs
      <4> QED BY <4>2
    <3>2. ~o.is_ecall /\ ~o.is_ebreak /\ ~o.is_mret
      BY <2>2, <3>1, SystemIs
    <3>3. ~o.mem_read /\ ~o.mem_write
      BY <2>2, <3>1, SystemIs
    <3> QED BY <3>2, <3>3
  <2>4. ex_trap = NoTrap
    BY <1>2, <2>2, <2>3 DEF ex_trap, ex_misaligned, ex_access_fault
  <2>5. ExMemNext(FALSE)
    <3>1. ex_is_trap(FALSE) = FALSE
      BY <2>4 DEF ex_is_trap
    <3> QED BY <1>3, <2>1, <3>1
  <2>6. ex_mem'.valid /\ ex_mem'.op = id_ex.op
    BY <2>1, <2>2, <2>3, <2>5 DEF ExMemNext
  <2> QED BY <2>6 DEF CsrWritesRetire
<1> QED BY <1>4, <1>5

(* With the interrupt lines low the pipeline implements the instruction set *)
(* without a condition on its behaviour: no instruction that writes a CSR   *)
(* traps, so every CSR write retires.                                       *)
THEOREM QuietCoreImplementsIsa ==
  ASSUME ByteBits >= 4, TRUE \notin ResetInputs, ProgramsImplemented, IrqInputs \subseteq {0}
  PROVE  Spec => ImplementsIsa
<1>1. Spec => []RInv
  BY RefinementInvariant
<1>2. RInv /\ [Next]_vars => [CsrWritesRetire]_vars
  BY QuietLines DEF Next
<1>3. CsrWriteRetires <=> [][CsrWritesRetire]_vars
  BY DEF CsrWriteRetires, CsrWritesRetire
<1>4. Spec /\ CsrWriteRetires => ImplementsIsa
  BY CoreImplementsIsa
<1> QED BY <1>1, <1>2, <1>3, <1>4, PTL DEF Spec
=============================================================================
