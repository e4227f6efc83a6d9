---------------------------- MODULE AxiLiteMaster ---------------------------
(* riscv_axi_lite_master.sv between the data port of the core and a slave   *)
(* that accepts and answers on every channel at its own pace. A step is a   *)
(* rising clock edge, or an action of the slave between two edges.          *)
EXTENDS Integers, Sequences

CONSTANTS Byte, Requests, DeviceInit,
          ResetOnlyQuiet \* TRUE: cpu_reset comes only while the bus is quiet

ASSUME ResetAssumption == ResetOnlyQuiet \in BOOLEAN
ASSUME RequestAssumption == \A r \in Requests : r.kind \in {"read", "write"}
ASSUME RequestShape == \* within the device, and a write with its data and lanes
  /\ Byte # {}
  /\ \A r \in Requests :
       /\ r.addr - (r.addr % 4) \in DOMAIN DeviceInit
       /\ r.kind = "write" => r.wdata \in [0 .. 3 -> Byte] /\ r.wstrb \subseteq 0 .. 3

VARIABLES
  state, active_addr, active_wdata, active_wstrb, aw_done, w_done,  \* the master
  req,                              \* the access the core holds, or NoRequest
  taken,                            \* read data of the last access completed
  awready, wready, arready,         \* the slave's ready signals
  aw_q, w_q, b_q, ar_q, r_q,        \* accepted and unserved; answered, not taken
  device

master == <<state, active_addr, active_wdata, active_wstrb, aw_done, w_done>>
core   == <<req, taken>>
readys == <<awready, wready, arready>>
queues == <<aw_q, w_q, b_q, ar_q, r_q>>
vars   == <<master, core, readys, queues, device>>

Port == INSTANCE PeriphPort WITH
  request <- req, performed <- (b_q # <<>> \/ r_q # <<>>),
  result <- (IF r_q # <<>> THEN <<Head(r_q)>> ELSE <<>>)

NoRequest == Port!NoRequest
Lanes == Port!Lanes

States == {"ST_IDLE", "ST_WRITE_CMD", "ST_WRITE_RESP", "ST_READ_ADDR", "ST_READ_DATA"}

(* Mutant of aligned_word_addr: the byte offset is kept. *)
aligned_word_addr_Byte(addr) == addr
aligned_word_addr(addr) == addr - (addr % 4)

m_axi_awvalid == state = "ST_WRITE_CMD" /\ ~aw_done
m_axi_wvalid  == state = "ST_WRITE_CMD" /\ ~w_done
m_axi_bready  == state = "ST_WRITE_RESP"
m_axi_arvalid == state = "ST_READ_ADDR"
m_axi_rready  == state = "ST_READ_DATA"
m_axi_bvalid  == b_q # <<>>
m_axi_rvalid  == r_q # <<>>

req_ready == (m_axi_bready /\ m_axi_bvalid) \/ (m_axi_rready /\ m_axi_rvalid)

-----------------------------------------------------------------------------
Init ==
  /\ state = "ST_IDLE"
  /\ active_addr = 0
  /\ active_wdata = [i \in Lanes |-> CHOOSE x \in Byte : TRUE]
  /\ active_wstrb = {}
  /\ aw_done = FALSE /\ w_done = FALSE
  /\ req \in Requests \cup {NoRequest}
  /\ taken = <<>>
  /\ awready \in BOOLEAN /\ wready \in BOOLEAN /\ arready \in BOOLEAN
  /\ aw_q = <<>> /\ w_q = <<>> /\ b_q = <<>> /\ ar_q = <<>> /\ r_q = <<>>
  /\ device = [word |-> DeviceInit, uses |-> 0]

(* The state machine at a clock edge, state by state.                       *)
Idle ==
  /\ state = "ST_IDLE"
  /\ aw_done' = FALSE /\ w_done' = FALSE
  /\ \/ /\ req.kind = "write"
        /\ active_addr' = aligned_word_addr(req.addr)
        /\ active_wdata' = req.wdata
        /\ active_wstrb' = req.wstrb
        /\ state' = "ST_WRITE_CMD"
     \/ /\ req.kind = "read"
        /\ active_addr' = aligned_word_addr(req.addr)
        /\ state' = "ST_READ_ADDR"
        /\ UNCHANGED <<active_wdata, active_wstrb>>
     \/ /\ req = NoRequest
        /\ UNCHANGED <<state, active_addr, active_wdata, active_wstrb>>

(* Mutant of WriteCmd: what was accepted is forgotten in the next cycle. *)
WriteCmd_ForgetsDone ==
  /\ state = "ST_WRITE_CMD"
  /\ aw_done' = awready
  /\ w_done' = wready
  /\ state' = IF awready /\ wready THEN "ST_WRITE_RESP" ELSE state
  /\ UNCHANGED <<active_addr, active_wdata, active_wstrb>>
(* Mutant of WriteCmd: address and data must be accepted in one cycle. *)
WriteCmd_BothTogether ==
  /\ state = "ST_WRITE_CMD"
  /\ aw_done' = (aw_done \/ awready)
  /\ w_done' = (w_done \/ wready)
  /\ state' = IF awready /\ wready THEN "ST_WRITE_RESP" ELSE state
  /\ UNCHANGED <<active_addr, active_wdata, active_wstrb>>
WriteCmd ==
  /\ state = "ST_WRITE_CMD"
  /\ aw_done' = (aw_done \/ awready)
  /\ w_done' = (w_done \/ wready)
  /\ state' = IF (aw_done \/ awready) /\ (w_done \/ wready)
              THEN "ST_WRITE_RESP" ELSE state
  /\ UNCHANGED <<active_addr, active_wdata, active_wstrb>>

WriteResp ==
  /\ state = "ST_WRITE_RESP"
  /\ state' = IF m_axi_bvalid THEN "ST_IDLE" ELSE state
  /\ UNCHANGED <<active_addr, active_wdata, active_wstrb, aw_done, w_done>>

(* Mutant of ReadAddr: arready is not waited for. *)
ReadAddr_NoWait ==
  /\ state = "ST_READ_ADDR"
  /\ state' = "ST_READ_DATA"
  /\ UNCHANGED <<active_addr, active_wdata, active_wstrb, aw_done, w_done>>
ReadAddr ==
  /\ state = "ST_READ_ADDR"
  /\ state' = IF arready THEN "ST_READ_DATA" ELSE state
  /\ UNCHANGED <<active_addr, active_wdata, active_wstrb, aw_done, w_done>>

ReadData ==
  /\ state = "ST_READ_DATA"
  /\ state' = IF m_axi_rvalid THEN "ST_IDLE" ELSE state
  /\ UNCHANGED <<active_addr, active_wdata, active_wstrb, aw_done, w_done>>

(* The core holds an access in MEM until req_ready; the next cycle has      *)
(* another one or none.                                                     *)
CoreMem ==
  IF req = NoRequest
  THEN req' \in Requests \cup {NoRequest} /\ UNCHANGED taken
  ELSE IF req_ready
  THEN /\ req' \in Requests \cup {NoRequest}
       /\ taken' = IF m_axi_rvalid THEN <<Head(r_q)>> ELSE <<>>
  ELSE UNCHANGED core

(* The handshakes of the five channels: a transfer at an edge where valid   *)
(* and ready are both up. The slave may change its ready signals after.     *)
Taken(q, ready)        == IF ready /\ q # <<>> THEN Tail(q) ELSE q
Given(q, valid, x)     == IF valid THEN Append(q, x) ELSE q
Channels ==
  /\ aw_q' = Given(aw_q, m_axi_awvalid /\ awready, active_addr)
  /\ w_q'  = Given(w_q, m_axi_wvalid /\ wready,
                   [wdata |-> active_wdata, wstrb |-> active_wstrb])
  /\ ar_q' = Given(ar_q, m_axi_arvalid /\ arready, active_addr)
  /\ b_q'  = Taken(b_q, m_axi_bready)
  /\ r_q'  = Taken(r_q, m_axi_rready)
  /\ awready' \in BOOLEAN /\ wready' \in BOOLEAN /\ arready' \in BOOLEAN

Clock ==
  /\ Idle \/ WriteCmd \/ WriteResp \/ ReadAddr \/ ReadData
  /\ CoreMem
  /\ Channels
  /\ UNCHANGED device

BusQuiet == ~m_axi_awvalid /\ ~m_axi_wvalid /\ ~m_axi_arvalid
            /\ aw_q = <<>> /\ w_q = <<>> /\ b_q = <<>> /\ ar_q = <<>> /\ r_q = <<>>

(* An edge with cpu_reset: core and master are cleared, the slave, which    *)
(* has its own reset, goes on. A handshake at that edge still takes place.  *)
Reset ==
  /\ ResetOnlyQuiet => BusQuiet
  /\ state' = "ST_IDLE"
  /\ active_addr' = 0
  /\ active_wdata' = [i \in Lanes |-> CHOOSE x \in Byte : TRUE]
  /\ active_wstrb' = {}
  /\ aw_done' = FALSE /\ w_done' = FALSE
  /\ req' = NoRequest
  /\ taken' = <<>>
  /\ Channels
  /\ UNCHANGED device

(* The slave serves a write when it has both its address and its data.      *)
SlaveWrite ==
  /\ aw_q # <<>> /\ w_q # <<>>
  /\ device' = [Port!Used(device) EXCEPT
                  !.word[Head(aw_q)] = Port!Written(@, Head(w_q).wdata, Head(w_q).wstrb)]
  /\ aw_q' = Tail(aw_q) /\ w_q' = Tail(w_q)
  /\ b_q' = Append(b_q, "OKAY")
  /\ UNCHANGED <<master, core, readys, ar_q, r_q>>

SlaveRead ==
  /\ ar_q # <<>>
  /\ device' = Port!Used(device)
  /\ ar_q' = Tail(ar_q)
  /\ r_q' = Append(r_q, device.word[Head(ar_q)])
  /\ UNCHANGED <<master, core, readys, aw_q, w_q, b_q>>

Next == Clock \/ Reset \/ SlaveWrite \/ SlaveRead

(* The clock runs, and a slave neither withholds a ready for ever nor       *)
(* leaves an access it accepted unserved.                                   *)
Fairness ==
  /\ WF_vars(Clock /\ awready') /\ WF_vars(Clock /\ wready') /\ WF_vars(Clock /\ arready')
  /\ WF_vars(SlaveWrite) /\ WF_vars(SlaveRead)

Spec == Init /\ [][Next]_vars
LiveSpec == Spec /\ Fairness

-----------------------------------------------------------------------------
TypeOK ==
  /\ state \in States
  /\ active_addr \in DOMAIN DeviceInit \cup {0}
  /\ active_wdata \in [Lanes -> Byte]
  /\ active_wstrb \in SUBSET Lanes
  /\ aw_done \in BOOLEAN /\ w_done \in BOOLEAN
  /\ req \in Requests \cup {NoRequest}
  /\ awready \in BOOLEAN /\ wready \in BOOLEAN /\ arready \in BOOLEAN

(* The bus holds exactly what the state of the master says: in ST_IDLE      *)
(* nothing is in flight, so the next access cannot meet an old answer; in   *)
(* ST_WRITE_CMD exactly the halves marked done were sent; in the other      *)
(* states one access is with the slave or one answer is on its way. This is *)
(* what aw_done and w_done are for (lines 107-114).                         *)
InFlight(aw, w, b, ar, r) ==
  /\ Len(aw_q) = aw /\ Len(w_q) = w /\ Len(b_q) = b
  /\ Len(ar_q) = ar /\ Len(r_q) = r
OneInFlight ==
  CASE state = "ST_IDLE"       -> InFlight(0, 0, 0, 0, 0)
    [] state = "ST_WRITE_CMD"  -> /\ InFlight(IF aw_done THEN 1 ELSE 0,
                                              IF w_done THEN 1 ELSE 0, 0, 0, 0)
                                  /\ ~(aw_done /\ w_done)
    [] state = "ST_WRITE_RESP" -> InFlight(1, 1, 0, 0, 0) \/ InFlight(0, 0, 1, 0, 0)
    [] state = "ST_READ_ADDR"  -> InFlight(0, 0, 0, 0, 0)
    [] state = "ST_READ_DATA"  -> InFlight(0, 0, 0, 1, 0) \/ InFlight(0, 0, 0, 0, 1)

(* The handshake rule of AXI4-Lite: a valid that met no ready stays up,     *)
(* with the same address, data and strobes, until it is accepted            *)
(* (assignments of m_axi_*valid, lines 65-76).                              *)
Held(valid, ready, payload) == valid /\ ~ready => valid' /\ payload' = payload
ValidStep ==
  /\ Held(m_axi_awvalid, awready, active_addr)
  /\ Held(m_axi_wvalid, wready, <<active_wdata, active_wstrb>>)
  /\ Held(m_axi_arvalid, arready, active_addr)
ValidHeld == [][Clock \/ Reset => ValidStep]_vars

(* Every access of the core is performed in the device once, and answered   *)
(* with its own result: the master implements PeriphPort.                   *)
ImplementsPort == Port!Spec

(* Every access is answered in the end, unless a reset cancels it: master   *)
(* and slave wait for each other in no circle, whatever the order in which  *)
(* the slave accepts address and data.                                      *)
Answered == (req # NoRequest) ~> (req_ready \/ req = NoRequest)
=============================================================================
