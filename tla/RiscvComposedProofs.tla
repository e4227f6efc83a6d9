-------------------------- MODULE RiscvComposedProofs -------------------------
(* Proofs about what stands around the core, with the core's invariants.    *)
EXTENDS RiscvZynq, RetireShadow, RiscvCoreProofs

-----------------------------------------------------------------------------
(* Proofs about the Zynq wrapper: its adapters answer every fetch in the    *)
(* next cycle with the right instruction and every load with the right      *)
(* word, in every write mode of the RAM, and the core inside behaves as     *)
(* RiscvCore does with memories of any speed.                               *)

(* An instruction does not both load and store.                             *)
LoadsOrStores(op) == ~(op.mem_read /\ op.mem_write)

(* The adapter of the fetch port waits for the one request there may be,    *)
(* that of a live fetch, and the output register has its instruction.       *)
FetchPort ==
  /\ imem_req_q = if_pending_valid
  /\ ~if_discard_pending
  /\ imem_req_q => /\ imem_addr_q = pc_f
                   /\ bram_imem_dout = imem[(pc_f \div 4) % ImemWords]

(* The adapter of the data port remembers an access of the instruction that *)
(* is still in MEM, if there is one, and the output register has its word.  *)
DataPort ==
  ex_mem.valid /\ dmem_acc_q =>
    /\ dmem_sel_bram /\ dmem_addr_q = dmem_addr
    /\ dmem_read_en => bram_dmem_dout = dmem_read_data

ZInv ==
  /\ IInv /\ FetchPort /\ DataPort
  /\ LoadsOrStores(id_ex.op) /\ LoadsOrStores(ex_mem.op)

-----------------------------------------------------------------------------
LEMMA DecodeLoadsOrStores ==
  ASSUME NEW i PROVE LoadsOrStores(Decode(i))
<1>1. CASE i.opcode = "LOAD"
  BY <1>1 DEF LoadsOrStores, Decode, NoControl
<1>2. CASE i.opcode = "SYSTEM"
  BY <1>2 DEF LoadsOrStores, Decode, SystemControl, NoControl
<1>3. CASE i.opcode \notin {"LOAD", "SYSTEM"}
  <2>1. Decode(i).mem_read = FALSE
    BY <1>3 DEF Decode, NoControl
  <2> QED BY <2>1 DEF LoadsOrStores
<1> QED BY <1>1, <1>2, <1>3

(* The instructions in EX and MEM at an edge come from the stage before.    *)
LEMMA OpsMove ==
  ASSUME IInv, LoadsOrStores(id_ex.op), LoadsOrStores(ex_mem.op),
         NEW ir \in BOOLEAN, NEW dr \in BOOLEAN,
         NEW irq, Clock(ir, dr, irq)
  PROVE  LoadsOrStores(id_ex'.op) /\ LoadsOrStores(ex_mem'.op)
<1>1. CASE ClockMemStall(ir, dr, irq)
  BY <1>1 DEF ClockMemStall
<1>2. CASE \/ ClockRedirect(ir, dr, irq)
           \/ ClockAdvance(ir, dr, irq)
  <2>1. ex_mem'.op = id_ex.op
    <3>1. PICK is_trap : ExMemNext(is_trap)
      BY <1>2 DEF ClockRedirect, ClockAdvance
    <3> QED BY <3>1 DEF ExMemNext
  <2>2. PICK redirect \in BOOLEAN : IdExNext(redirect)
    BY <1>2 DEF ClockRedirect, ClockAdvance
  <2>3. id_ex'.op = id_ex.op \/ id_ex'.op = Decode(if_id.instr)
    <3> DEFINE op == Decode(if_id.instr)
               fwdA == ForwardSel(if_id.valid, op.use_rs1, op.rs1, id_ex, ex_mem)
               fwdB == ForwardSel(if_id.valid, op.use_rs2, op.rs2, id_ex, ex_mem)
               rs1  == RegRead(op.rs1)
               rs2  == RegRead(op.rs2)
               old  == CsrRead(csr, op.csr_addr)
               imm  == if_id.instr.imm
               data == IF stall_if THEN id_ex
                       ELSE [id_ex EXCEPT !.pc = if_id.pc, !.imm = imm,
                                          !.rs1_data = rs1, !.rs2_data = rs2,
                                          !.csr_old = old]
    <3>1. \/ id_ex' = [data EXCEPT !.valid = FALSE, !.forward_a = "REG",
                                   !.forward_b = "REG"]
          \/ id_ex' = data
          \/ id_ex' = [data EXCEPT !.valid = if_id.valid, !.forward_a = fwdA,
                                   !.forward_b = fwdB, !.op = op]
      BY <2>2 DEF IdExNext
    <3> HIDE DEF op, fwdA, fwdB, rs1, rs2, old, imm
    <3>2. DOMAIN id_ex = IdExFields
      BY DEF IInv, Shapes
    <3>3. \/ id_ex'.op = id_ex.op \/ id_ex'.op = op
      BY <3>1, <3>2 DEF IdExFields
    <3> QED BY <3>3 DEF op
  <2> QED BY <2>1, <2>3, DecodeLoadsOrStores
<1> QED BY <1>1, <1>2 DEF Clock

-----------------------------------------------------------------------------
(* The fetch port at a clock edge. A response that is awaited comes in this *)
(* cycle, so what is awaited after it is what is requested in it.           *)
LEMMA ClockFetchPort ==
  ASSUME ZInv, NEW ready \in BOOLEAN, NEW irq, ZynqClock(ready, irq)
  PROVE  FetchPort'
<1> DEFINE dready == dmem_ready(ready)
           stall  == mem_stall(dready)
<1>1. /\ imem_ready \in BOOLEAN
      /\ if_pending_valid \in BOOLEAN /\ imem_ready = if_pending_valid
      /\ ~if_discard_pending /\ dready \in BOOLEAN /\ stall \in BOOLEAN
  BY DEF ZInv, FetchPort, imem_ready, imem_addr, IInv, Shapes, dmem_ready,
         bram_dmem_ready, mem_stall
<1>2. /\ imem_addr_q' = pc_f /\ imem_req_q' = imem_req(imem_ready, stall)
      /\ bram_imem_dout' = imem[(pc_f \div 4) % ImemWords]
      /\ Clock(imem_ready, dready, irq)
  BY DEF ZynqClock, Adapters, Brams, imem_addr
<1>3. imem' = imem
  BY <1>2 DEF Clock, ClockMemStall, ClockRedirect, ClockAdvance, CommonClock
<1> HIDE DEF dready, stall
<1>4. CASE ClockMemStall(imem_ready, dready, irq)
  <2>1. FetchAdvance(imem_ready, FALSE, FALSE) /\ stall
    BY <1>4 DEF ClockMemStall, stall
  <2>2. ~if_pending_valid' /\ ~if_discard_pending' /\ pc_f' = pc_f
    BY <1>1, <2>1 DEF FetchAdvance, if_live_resp_valid
  <2>3. imem_req_q' = FALSE
    BY <1>2, <2>1 DEF imem_req
  <2>4. if_pending_valid' \in BOOLEAN
    BY <2>1 DEF FetchAdvance
  <2> QED BY <2>2, <2>3, <2>4 DEF FetchPort
<1>5. CASE ClockRedirect(imem_ready, dready, irq)
  <2>1. ~stall /\ ex_redirect(FALSE) /\ FetchRedirect(imem_ready)
    BY <1>5 DEF ClockRedirect, stall
  <2>2. if_pending_valid' = FALSE /\ ~if_discard_pending'
    BY <1>1, <2>1 DEF FetchRedirect
  <2>3. imem_req_q' = FALSE
    BY <1>1, <1>2, <2>1 DEF imem_req
  <2> QED BY <2>2, <2>3 DEF FetchPort
<1>6. CASE ClockAdvance(imem_ready, dready, irq)
  <2> DEFINE accept  == if_accept(imem_ready, FALSE)
             request == imem_req(imem_ready, FALSE)
  <2>1. stall = FALSE /\ FetchAdvance(imem_ready, accept, request)
    BY <1>1, <1>6 DEF ClockAdvance, stall
  <2>2. imem_req_q' = request /\ request \in BOOLEAN
    BY <1>2, <2>1 DEF imem_req
  <2>3. request => ~accept
    BY DEF imem_req, if_accept
  <2> HIDE DEF accept, request
  <2>4. /\ if_pending_valid' = request /\ ~if_discard_pending'
        /\ request => pc_f' = pc_f
    BY <1>1, <2>1, <2>2, <2>3 DEF FetchAdvance, if_live_resp_valid
  <2> QED BY <1>2, <1>3, <2>2, <2>4 DEF FetchPort
<1> QED BY <1>2, <1>4, <1>5, <1>6 DEF Clock

(* The data port. Two instructions are never in MEM one after the other, so *)
(* an access the adapter remembers is one of the instruction that waits, or *)
(* that has left MEM; and a load that waits leaves memory as it is.         *)
LEMMA ClockDataPort ==
  ASSUME ZInv, NEW ready \in BOOLEAN, NEW irq, ZynqClock(ready, irq)
  PROVE  DataPort'
<1> DEFINE dready == dmem_ready(ready)
<1>1. /\ Clock(imem_ready, dready, irq)
      /\ dmem_addr_q' = dmem_addr /\ dmem_acc_q' = dmem_sel_bram
      /\ ~(dmem_sel_bram /\ dmem_write_en)
           => bram_dmem_dout' = dmem[dmem_index]
  BY DEF ZynqClock, Adapters, Brams
<1> HIDE DEF dready
<1>2. CASE ClockMemStall(imem_ready, dready, irq)
  <2>1. ex_mem' = ex_mem /\ dmem' = DmemAfterWrite
    BY <1>2 DEF ClockMemStall, CommonClock
  <2>2. dmem_sel_bram' = dmem_sel_bram /\ dmem_addr' = dmem_addr
    BY <2>1 DEF dmem_sel_bram, dmem_sel_axi, dmem_acc, dmem_addr, dmem_read_en,
                dmem_write_en
  <2>3. ASSUME dmem_acc_q', dmem_read_en'
        PROVE  bram_dmem_dout' = dmem_read_data'
    <3>1. dmem_read_en /\ ~dmem_write_en
      BY <2>1, <2>3 DEF ZInv, LoadsOrStores, dmem_read_en, dmem_write_en
    <3>2. dmem' = dmem /\ dmem_index' = dmem_index
      BY <2>1, <3>1 DEF DmemAfterWrite, dmem_index, dmem_addr
    <3> QED BY <1>1, <3>1, <3>2 DEF dmem_read_data
  <2> QED BY <1>1, <2>2, <2>3 DEF DataPort
<1>3. CASE \/ ClockRedirect(imem_ready, dready, irq)
           \/ ClockAdvance(imem_ready, dready, irq)
  <2>1. ex_mem'.valid => id_ex.valid
    <3>1. PICK is_trap : ExMemNext(is_trap)
      BY <1>3 DEF ClockRedirect, ClockAdvance
    <3> QED BY <3>1 DEF ExMemNext
  <2>2. id_ex.valid => ~dmem_acc_q'
    BY <1>1 DEF ZInv, IInv, FetchSpacing, dmem_sel_bram, dmem_acc, dmem_read_en,
                dmem_write_en
  <2> QED BY <2>1, <2>2 DEF DataPort
<1> QED BY <1>1, <1>2, <1>3 DEF Clock

-----------------------------------------------------------------------------
(* Reset empties both ports.                                                *)
LEMMA StartZInv ==
  /\ ZynqInit => ZInv
  /\ ZynqReset => ZInv'
<1>1. LoadsOrStores(IdExReset.op) /\ LoadsOrStores(ExMemReset.op)
  BY DecodeLoadsOrStores DEF IdExReset, ExMemReset
<1>2. ASSUME ZynqInit PROVE ZInv
  <2>1. IInv
    BY <1>2, InitIInv DEF ZynqInit
  <2> QED BY <1>1, <1>2, <2>1 DEF ZynqInit, Init, ZInv, FetchPort, DataPort
<1>3. ASSUME ZynqReset PROVE ZInv'
  <2>1. IInv'
    BY <1>3, ResetIInv DEF ZynqReset
  <2> QED BY <1>1, <1>3, <2>1 DEF ZynqReset, Reset, ZInv, FetchPort, DataPort
<1> QED BY <1>2, <1>3

LEMMA StutterZInv == ZInv /\ UNCHANGED zynqVars => ZInv'
<1> SUFFICES ASSUME ZInv, UNCHANGED zynqVars PROVE ZInv'
  OBVIOUS
<1>1. UNCHANGED vars
  BY DEF zynqVars
<1>2. IInv'
  BY <1>1, StutterIInv DEF ZInv
<1> QED BY <1>2 DEF ZInv, zynqVars, vars, fetchRegs, stageRegs, adapters, brams,
           FetchPort, DataPort, LoadsOrStores, dmem_sel_bram, dmem_sel_axi,
           dmem_acc, dmem_addr, dmem_read_en, dmem_write_en, dmem_read_data,
           dmem_index

LEMMA ClockReadies ==
  ASSUME ZInv, NEW ready \in BOOLEAN
  PROVE  imem_ready \in BOOLEAN /\ dmem_ready(ready) \in BOOLEAN
BY DEF ZInv, FetchPort, imem_ready, imem_addr, IInv, Shapes, dmem_ready,
       bram_dmem_ready

LEMMA NextZInv == ZInv /\ [ZynqNext]_zynqVars => ZInv'
<1> SUFFICES ASSUME ZInv, [ZynqNext]_zynqVars PROVE ZInv'
  OBVIOUS
<1>1. ASSUME NEW ready \in BOOLEAN, NEW irq \in IrqInputs,
             ZynqClock(ready, irq)
      PROVE  ZInv'
  <2>1. Clock(imem_ready, dmem_ready(ready), irq)
    BY <1>1 DEF ZynqClock
  <2>2. IInv' /\ LoadsOrStores(id_ex'.op) /\ LoadsOrStores(ex_mem'.op)
    BY <2>1, ClockReadies, ClockIInv, OpsMove DEF ZInv
  <2> QED BY <1>1, <2>2, ClockFetchPort, ClockDataPort DEF ZInv
<1> QED BY <1>1, StartZInv, StutterZInv DEF ZynqNext

THEOREM WrapperInvariant == ZynqSpec => []ZInv
BY StartZInv, NextZInv, PTL DEF ZynqSpec

-----------------------------------------------------------------------------
(* "ready only when the address has been held stable for one full cycle":   *)
(* imem_ready comes for the one outstanding fetch, with its instruction,    *)
(* and bram_dmem_ready ends a load with the word of memory at its address.  *)
THEOREM ReadyFresh == ZynqSpec => []ReadyIsFresh
<1>1. ZInv => FetchFresh
  BY DEF ZInv, FetchPort, IInv, Requests, Shapes, FetchFresh, imem_ready,
         imem_addr, imem_instr, imem_resp_pc
<1>2. ZInv => LoadFresh
  BY DEF ZInv, DataPort, LoadFresh, bram_dmem_ready, dmem_read_en
<1>3. ZInv => ReadyIsFresh
  BY <1>1, <1>2 DEF ReadyIsFresh
<1> QED BY <1>3, WrapperInvariant, PTL

(* The wrapper answers every fetch in the cycle after its request: none is  *)
(* abandoned, so the response of an abandoned one is never awaited.         *)
THEOREM FetchesAnswered == ZynqSpec => [](NeverAbandons /\ ~if_discard_pending)
<1>1. ZInv => NeverAbandons /\ ~if_discard_pending
  BY DEF ZInv, FetchPort, IInv, Requests, Shapes, NeverAbandons, imem_ready, imem_addr
<1> QED BY <1>1, WrapperInvariant, PTL

(* The core in the wrapper is the core of RiscvCore with memories of any    *)
(* speed: what is proved of every behaviour of RiscvCore holds in it.       *)
THEOREM WrapperIsCore ==
  ASSUME ImemReady = BOOLEAN, DmemReady = BOOLEAN
  PROVE  ZynqSpec => Spec
<1>1. ZynqInit => Init
  BY DEF ZynqInit
<1>2. ZInv /\ [ZynqNext]_zynqVars => [Next]_vars
  <2> SUFFICES ASSUME ZInv, [ZynqNext]_zynqVars PROVE [Next]_vars
    OBVIOUS
  <2>1. CASE ZynqReset
    BY <2>1 DEF ZynqReset, Next
  <2>2. ASSUME NEW ready \in BOOLEAN, NEW irq \in IrqInputs,
               ZynqClock(ready, irq)
        PROVE  Next
    <3>1. Clock(imem_ready, dmem_ready(ready), irq)
      BY <2>2 DEF ZynqClock
    <3>2. imem_ready \in ImemReady /\ dmem_ready(ready) \in DmemReady
      BY ClockReadies
    <3> QED BY <3>1, <3>2 DEF Next
  <2>3. CASE UNCHANGED zynqVars
    BY <2>3 DEF zynqVars
  <2> QED BY <2>1, <2>2, <2>3 DEF ZynqNext
<1> QED BY <1>1, <1>2, WrapperInvariant, PTL DEF Spec, ZynqSpec

(* So the wrapper runs the instruction set, through its adapters and its    *)
(* RAMs of any write mode, as CoreImplementsIsa says of the core.           *)
THEOREM WrapperImplementsIsa ==
  ASSUME ByteBits >= 4, ImemReady = BOOLEAN, DmemReady = BOOLEAN,
         TRUE \notin ResetInputs, ProgramsImplemented
  PROVE  ZynqSpec /\ CsrWriteRetires => ImplementsIsa
<1>1. ZynqSpec => Spec
  BY WrapperIsCore
<1>2. Spec /\ CsrWriteRetires => ImplementsIsa
  BY CoreImplementsIsa
<1> QED BY <1>1, <1>2, PTL

-----------------------------------------------------------------------------
(* Proof that the retirement trace of the UVM bench is exact: for every     *)
(* program, and every width of at least four bits a lane.                   *)

(* The shadow registers hold the instruction of the stage they stand beside,*)
(* and every valid stage is one the bench counts as valid.                  *)
ShadowInv ==
  /\ DInv
  /\ id_ex.valid => id_ex_instr = InstrAt(id_ex.pc)
  /\ ex_mem_v => ex_mem_instr = InstrAt(Wrap(ex_mem.pc4 - 4))
  /\ mem_wb_v => mem_wb_instr = InstrAt(Wrap(mem_wb.pc4 - 4))
  /\ ex_mem.valid => ex_mem_v
  /\ mem_wb.valid => mem_wb_v

LEMMA FourBack ==
  ASSUME NEW p \in Word PROVE Wrap(Wrap(p + 4) - 4) = p
<1>1. p \in Int /\ p + 4 \in Int /\ -4 \in Int
  BY XlenPow
<1>2. Wrap(Wrap(p + 4) + (-4)) = Wrap((p + 4) + (-4))
  BY <1>1, WrapAdd
<1>3. (p + 4) + (-4) = p /\ Wrap(p) = p
  BY <1>1, WrapWord
<1>4. PICK q \in Int : q = Wrap(p + 4)
  BY <1>1, WrapIn, XlenPow
<1>5. q + (-4) = q - 4
  BY <1>4
<1> QED BY <1>2, <1>3, <1>4, <1>5

LEMMA ShadowStart == ShadowInit => ShadowInv
BY InitDInv, ResetValues DEF ShadowInit, Init, ShadowInv

LEMMA ShadowWaits ==
  ASSUME ShadowInv, DInv', NEW iready, NEW dready, NEW irq,
         ClockMemStall(iready, dready, irq),
         mem_wb_v' = FALSE, UNCHANGED <<id_ex_instr, ex_mem_instr, mem_wb_instr, ex_mem_v>>
  PROVE  ShadowInv'
<1>1. id_ex' = id_ex /\ ex_mem' = ex_mem /\ imem' = imem
      /\ mem_wb' = [mem_wb EXCEPT !.valid = FALSE] /\ "valid" \in DOMAIN mem_wb
  BY DEF ClockMemStall, CommonClock, ShadowInv, DInv, IInv, Shapes
<1>2. mem_wb'.valid = FALSE
  BY <1>1
<1> QED BY <1>1, <1>2 DEF ShadowInv, InstrAt

LEMMA ShadowAdvances ==
  ASSUME ShadowInv, DInv', NEW redirect \in BOOLEAN, NEW trap,
         IdExNext(redirect), redirect = ex_redirect(FALSE), ExMemNext(trap), MemWbNext,
         imem' = imem, ShadowClock
  PROVE  ShadowInv'
<1>1. IInv /\ FrontData /\ ExData /\ ~load_hazard /\ stall_if = m_stall
      /\ m_stall \in BOOLEAN /\ (redirect => ~m_stall)
  BY OnlyUnitsStall
     DEF ShadowInv, DInv, m_stall, MStall, ex_redirect, ExFire
<1>2. /\ id_ex_instr' = IF redirect THEN FlushNop
                        ELSE IF ~m_stall THEN if_id.instr ELSE id_ex_instr
      /\ ex_mem_instr' = id_ex_instr /\ ex_mem_v' = id_ex.valid
      /\ mem_wb_instr' = ex_mem_instr /\ mem_wb_v' = ex_mem_v
  BY <1>1 DEF ShadowClock, stall_if
<1>3. id_ex'.valid => id_ex_instr' = InstrAt(id_ex.pc)' /\ id_ex_instr' = InstrAt(id_ex'.pc)
  <2>1. CASE redirect
    BY <1>1, <2>1, IdExClock
  <2>2. CASE ~redirect /\ m_stall
    BY <1>1, <1>2, <2>2, IdExClock DEF ShadowInv, InstrAt
  <2>3. CASE ~redirect /\ ~m_stall
    <3>1. id_ex'.valid = if_id.valid /\ id_ex'.pc = if_id.pc
      BY <1>1, <2>3, IdExClock
    <3> QED BY <1>1, <1>2, <2>3, <3>1 DEF FrontData, InstrAt
  <2> QED BY <1>1, <2>1, <2>2, <2>3
<1>4. /\ ex_mem'.pc4 = Wrap(id_ex.pc + 4) /\ (ex_mem'.valid => id_ex.valid)
      /\ mem_wb'.pc4 = ex_mem.pc4 /\ mem_wb'.valid = ex_mem.valid
  BY DEF ExMemNext, MemWbNext
<1>5. Wrap(ex_mem'.pc4 - 4) = id_ex.pc
  BY <1>1, <1>4, FourBack DEF ExData
<1>6. ex_mem_v' => ex_mem_instr' = InstrAt(Wrap(ex_mem.pc4 - 4))'
  BY <1>2, <1>5 DEF ShadowInv, InstrAt
<1>7. mem_wb_v' => mem_wb_instr' = InstrAt(Wrap(mem_wb.pc4 - 4))'
  BY <1>2, <1>4 DEF ShadowInv, InstrAt
<1> QED BY <1>2, <1>3, <1>4, <1>6, <1>7 DEF ShadowInv

LEMMA ShadowNextInv ==
  ASSUME ByteBits >= 4, ShadowInv, [ShadowNext]_allVars PROVE ShadowInv'
<1>1. CASE ShadowNext
  <2>1. PICK iready \in ImemReady, dready \in DmemReady, irq \in IrqInputs :
          /\ Clock(iready, dready, irq)
          /\ IF mem_stall(dready)
               THEN mem_wb_v' = FALSE /\ UNCHANGED <<id_ex_instr, ex_mem_instr,
                                                     mem_wb_instr, ex_mem_v>>
               ELSE ShadowClock
    BY <1>1 DEF ShadowNext
  <2>2. DInv'
    BY <2>1, ClockDInv, CoreAssumption DEF ShadowInv
  <2>3. CASE ClockMemStall(iready, dready, irq)
    <3>1. mem_stall(dready)
      BY <2>3 DEF ClockMemStall
    <3> QED BY <2>1, <2>2, <2>3, <3>1, ShadowWaits
  <2>4. CASE ClockRedirect(iready, dready, irq)
    <3>1. ShadowClock
      BY <2>1, <2>4 DEF ClockRedirect
    <3>2. TRUE = ex_redirect(FALSE)
      BY <2>4 DEF ClockRedirect, ex_redirect
    <3>3. IdExNext(TRUE) /\ ExMemNext(ex_is_trap(FALSE)) /\ MemWbNext /\ imem' = imem
      BY <2>4 DEF ClockRedirect, CommonClock
    <3> QED BY <2>2, <3>1, <3>2, <3>3, ShadowAdvances
  <2>5. CASE ClockAdvance(iready, dready, irq)
    <3>1. ShadowClock
      BY <2>1, <2>5 DEF ClockAdvance
    <3>2. FALSE = ex_redirect(FALSE)
      BY <2>5 DEF ClockAdvance, ex_redirect
    <3>3. IdExNext(FALSE) /\ ExMemNext(FALSE) /\ MemWbNext /\ imem' = imem
      BY <2>5 DEF ClockAdvance, CommonClock
    <3> QED BY <2>2, <3>1, <3>2, <3>3, ShadowAdvances
  <2> QED BY <2>1, <2>3, <2>4, <2>5 DEF Clock
<1>2. CASE UNCHANGED allVars
  <2>1. UNCHANGED vars /\ UNCHANGED <<id_ex_instr, ex_mem_instr, mem_wb_instr, ex_mem_v, mem_wb_v>>
    BY <1>2 DEF allVars, shadowVars
  <2>2. DInv' /\ UNCHANGED <<id_ex, ex_mem, mem_wb, imem>>
    BY <2>1, StutterDInv DEF ShadowInv, vars, stageRegs
  <2> QED BY <2>1, <2>2 DEF ShadowInv, InstrAt
<1> QED BY <1>1, <1>2

(* Every report of the shadow pipeline names the instruction at the address *)
(* it reports, and no register is written without a report, whatever the    *)
(* program does: stalls, redirects and traps included.                      *)
THEOREM ReportsAreExact == ASSUME ByteBits >= 4 PROVE ShadowSpec => []ReportsExact
<1>1. ShadowInv => ReportsExact
  BY DEF ShadowInv, ReportsExact, ReportedInstr, WritesReported, retired_valid, retired_instr,
         retired_pc, reg_write_o, Fetched, InstrAt
<1> QED BY <1>1, ShadowStart, ShadowNextInv, PTL DEF ShadowSpec
=============================================================================
