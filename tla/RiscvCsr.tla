------------------------------ MODULE RiscvCsr ------------------------------
(* The machine-mode CSR file and trap state (riscv_csr.sv). Its registers   *)
(* are one record; CsrNext is the clock edge of the register block.         *)
EXTENDS RiscvPkg

CONSTANT NumExtInterrupts

ASSUME NumExtInterruptsAssumption == NumExtInterrupts \in 1 .. XLEN

CsrNames == {"mstatus", "mie", "mtvec", "mscratch", "mepc", "mcause",
             "mtval", "mip", "meimask", "meipend"}

CsrReset ==
  [mtvec |-> 0, mie |-> 0, mscratch |-> 0, mepc |-> 0, mcause |-> 0,
   mtval |-> 0, meimask |-> 0, meipend |-> 0,
   mstatus_mie |-> 0, mstatus_mpie |-> 0, mstatus_mpp |-> 0]

CsrType ==
  [mtvec : Word, mie : Word, mscratch : Word, mepc : Word, mcause : Word,
   mtval : Word, meimask : Word, meipend : Word,
   mstatus_mie : {0, 1}, mstatus_mpie : {0, 1}, mstatus_mpp : 0 .. 3]

MstatusRead(csr) ==
  csr.mstatus_mpp * 2^11 + csr.mstatus_mpie * 2^MSTATUS_MPIE_BIT
                         + csr.mstatus_mie * 2^MSTATUS_MIE_BIT

CsrRead(csr, raddr) ==
  CASE raddr = "mstatus" -> MstatusRead(csr)
    [] raddr = "mip" -> IF csr.meipend # 0 THEN 2^MIP_MEIP_BIT ELSE 0
    [] raddr \in CsrNames \ {"mstatus", "mip"} -> csr[raddr]
    [] OTHER -> 0

ExternalIrqActive(csr) ==
  csr.mstatus_mie = 1 /\ BitAnd(csr.meimask, csr.meipend) # 0

(* Mutant of CsrWrite: MEPC keeps its two low bits. *)
CsrWrite_MepcUnaligned(csr, waddr, wdata) ==
  CASE waddr = "mstatus" ->
         [csr EXCEPT !.mstatus_mie  = Bit(wdata, MSTATUS_MIE_BIT),
                     !.mstatus_mpie = Bit(wdata, MSTATUS_MPIE_BIT),
                     !.mstatus_mpp  = Field(wdata, 12, 11)]
    [] waddr = "mie" ->
         [csr EXCEPT !.mie = Bit(wdata, MIE_MEIE_BIT) * 2^MIE_MEIE_BIT]
    [] waddr = "meimask" ->
         [csr EXCEPT !.meimask = wdata % 2^NumExtInterrupts]
    [] waddr \in {"mtvec", "mscratch", "mcause", "mtval", "mepc"} ->
         [csr EXCEPT ![waddr] = wdata]
    [] OTHER -> csr

(* A CSR instruction's write; MIP, MEIPEND and unknown addresses ignore it. *)
CsrWrite(csr, waddr, wdata) ==
  CASE waddr = "mstatus" ->
         [csr EXCEPT !.mstatus_mie  = Bit(wdata, MSTATUS_MIE_BIT),
                     !.mstatus_mpie = Bit(wdata, MSTATUS_MPIE_BIT),
                     !.mstatus_mpp  = Field(wdata, 12, 11)]
    [] waddr = "mie" ->
         [csr EXCEPT !.mie = Bit(wdata, MIE_MEIE_BIT) * 2^MIE_MEIE_BIT]
    [] waddr = "mepc" -> [csr EXCEPT !.mepc = wdata - (wdata % 4)]
    [] waddr = "meimask" ->
         [csr EXCEPT !.meimask = wdata % 2^NumExtInterrupts]
    [] waddr \in {"mtvec", "mscratch", "mcause", "mtval"} ->
         [csr EXCEPT ![waddr] = wdata]
    [] OTHER -> csr

(* Trap capture reads the registers before the edge, and its non-blocking   *)
(* assignments come after those of the write.                               *)
CsrTrap(written, csr, trap) ==
  [written EXCEPT !.mepc = trap.epc, !.mcause = trap.cause,
                  !.mtval = trap.tval, !.mstatus_mpie = csr.mstatus_mie,
                  !.mstatus_mie = 0, !.mstatus_mpp = 3]

CsrMret(written, csr) ==
  [written EXCEPT !.mstatus_mie = csr.mstatus_mpie, !.mstatus_mpie = 0,
                  !.mstatus_mpp = 0]

(* One clock edge: the pending bits follow the interrupt lines, then the    *)
(* write, then the trap or else the MRET.                                   *)
(*   write = [en, addr, data],  trap = [en, epc, cause, tval]               *)
CsrNext(csr, global_interrupts, write, trap, mret_en) ==
  LET sampled == [csr EXCEPT !.meipend = global_interrupts]
      written == IF write.en
                   THEN CsrWrite(sampled, write.addr, write.data)
                   ELSE sampled
  IN  CASE trap.en -> CsrTrap(written, csr, trap)
        [] ~trap.en /\ mret_en -> CsrMret(written, csr)
        [] OTHER -> written
=============================================================================
