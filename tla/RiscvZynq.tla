----------------------------- MODULE RiscvZynq ------------------------------
(* riscv_zynq_wrapper.sv: the core between two block RAMs with registered   *)
(* outputs and the AXI4-Lite master. The memories of RiscvCore are what the *)
(* core should see; the adapters and the output registers of the RAMs are   *)
(* what it gets. The properties say that the two agree whenever the wrapper *)
(* raises a ready, so a step of the wrapper is a step of RiscvCore.         *)
EXTENDS RiscvCoreSafety

CONSTANTS
  BramModes,           \* output of a RAM at a write: any mode of a Xilinx BRAM
  AXI_PERIPH_BASE,     \* data accesses in the window at this address, of
  AXI_PERIPH_SIZE      \* this size (the zero bits of AXI_PERIPH_MASK), go to AXI

ASSUME ZynqAssumption ==
  /\ BramModes \subseteq {"WRITE_FIRST", "READ_FIRST", "NO_CHANGE"}
  /\ AXI_PERIPH_BASE \in Word /\ AXI_PERIPH_SIZE \in Nat \ {0}

VARIABLES
  imem_addr_q, imem_req_q, dmem_addr_q, dmem_acc_q,   \* the adapters
  bram_imem_dout, bram_dmem_dout,                     \* RAM output registers
  bram_mode

adapters == <<imem_addr_q, imem_req_q, dmem_addr_q, dmem_acc_q>>
brams    == <<bram_imem_dout, bram_dmem_dout, bram_mode>>
zynqVars == <<vars, adapters, brams>>

imem_addr == pc_f

Masked(addr)  == addr \div AXI_PERIPH_SIZE
dmem_acc      == dmem_read_en \/ dmem_write_en
dmem_sel_axi  == dmem_acc /\ Masked(dmem_addr) = Masked(AXI_PERIPH_BASE)
dmem_sel_bram == dmem_acc /\ ~dmem_sel_axi

(* Mutant of imem_ready: the request is not remembered. *)
imem_ready_NoRequest == imem_addr_q = imem_addr
imem_ready      == imem_req_q /\ imem_addr_q = imem_addr
(* Mutant of bram_dmem_ready: the latency of the RAM is forgotten. *)
bram_dmem_ready_NoLatency == dmem_acc
bram_dmem_ready == dmem_acc_q /\ dmem_addr_q = dmem_addr
dmem_ready(axi_dmem_ready) == IF dmem_sel_axi THEN axi_dmem_ready ELSE bram_dmem_ready

-----------------------------------------------------------------------------
ZynqInit ==
  /\ Init
  /\ imem_addr_q = 0 /\ imem_req_q = FALSE
  /\ dmem_addr_q = 0 /\ dmem_acc_q = FALSE
  /\ bram_imem_dout = Nop /\ bram_dmem_dout = 0
  /\ bram_mode \in BramModes

(* Mutant of Adapters: a fetch yields to a data access.                     *)
Adapters_FetchYields(stall) ==
  /\ imem_addr_q' = imem_addr
  /\ imem_req_q' = (imem_req(imem_ready, stall) /\ ~dmem_acc)
  /\ dmem_addr_q' = dmem_addr
  /\ dmem_acc_q' = dmem_sel_bram
Adapters(stall) ==
  /\ imem_addr_q' = imem_addr
  /\ imem_req_q' = imem_req(imem_ready, stall)
  /\ dmem_addr_q' = dmem_addr
  /\ dmem_acc_q' = dmem_sel_bram

(* Both RAMs are enabled in every cycle; port B of the data RAM reads and   *)
(* writes at the same edge.                                                 *)
Brams ==
  /\ bram_imem_dout' = imem[(imem_addr \div 4) % ImemWords]
  /\ bram_dmem_dout' =
       IF ~(dmem_sel_bram /\ dmem_write_en) \/ bram_mode = "READ_FIRST"
       THEN dmem[dmem_index]
       ELSE IF bram_mode = "WRITE_FIRST" THEN DmemAfterWrite[dmem_index]
       ELSE bram_dmem_dout
  /\ UNCHANGED bram_mode

(* The AXI master answers in any cycle in which it is selected.             *)
ZynqClock(axi_dmem_ready, global_interrupts) ==
  /\ Clock(imem_ready, dmem_ready(axi_dmem_ready), global_interrupts)
  /\ Adapters(mem_stall(dmem_ready(axi_dmem_ready)))
  /\ Brams

(* cpu_reset: the core, the adapters and the output registers; the contents *)
(* of the RAMs stay.                                                        *)
ZynqReset ==
  /\ TRUE \in ResetInputs
  /\ Reset
  /\ imem_addr_q' = 0 /\ imem_req_q' = FALSE
  /\ dmem_addr_q' = 0 /\ dmem_acc_q' = FALSE
  /\ bram_imem_dout' = Nop /\ bram_dmem_dout' = 0
  /\ UNCHANGED bram_mode

ZynqNext ==
  \/ ZynqReset
  \/ \E axi_dmem_ready \in BOOLEAN, global_interrupts \in IrqInputs :
       ZynqClock(axi_dmem_ready, global_interrupts)

ZynqSpec == ZynqInit /\ [][ZynqNext]_zynqVars

(* The clock runs and the AXI master answers (AxiLiteMaster, Answered).     *)
ZynqFairSpec ==
  /\ ZynqSpec
  /\ WF_zynqVars(\E global_interrupts \in IrqInputs : ZynqClock(TRUE, global_interrupts))

-----------------------------------------------------------------------------
(* "ready only when the address has been held stable for one full cycle     *)
(* (i.e. the registered BRAM output now corresponds to the address          *)
(* presently requested)" (comment at line 107): imem_ready is raised for    *)
(* the one request the core has outstanding, and the output register of the *)
(* RAM holds the instruction at that address. So of a load: in the cycle    *)
(* that ends it, the output register has the word of memory, last store     *)
(* included, in every mode of the RAM.                                      *)
FetchFresh ==
  imem_ready => /\ imem_requests = <<imem_addr_q>>
                /\ bram_imem_dout = imem_instr

LoadFresh ==
  dmem_sel_bram /\ dmem_read_en /\ bram_dmem_ready
    => bram_dmem_dout = dmem_read_data
ReadyIsFresh == FetchFresh /\ LoadFresh

(* A fetch is answered in the cycle after its request or not at all: the    *)
(* wrapper never answers a fetch that a redirect abandoned, so none may be. *)
NeverAbandons == imem_requests # <<>> => imem_ready
=============================================================================
