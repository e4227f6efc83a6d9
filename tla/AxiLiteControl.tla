--------------------------- MODULE AxiLiteControl ---------------------------
(* axi_lite_control.sv with a bus master that raises and takes every        *)
(* channel at its own pace. A step is a rising clock edge.                  *)
EXTENDS Integers

CONSTANTS ControlByte, Offsets, \* lane values; register offsets accessed
          Payloads,         \* data and strobes of the writes
          MaxOutstanding    \* accesses of each kind accepted and unanswered

ASSUME OutstandingAssumption == MaxOutstanding \in Nat \ {0}
ASSUME OffsetAssumption == 0 \in Offsets
ASSUME PayloadAssumption ==
  /\ {0, 1} \subseteq ControlByte /\ ControlByte \subseteq Nat
  /\ \A p \in Payloads : p.wdata \in [0 .. 3 -> ControlByte]

VARIABLES
  axi_awready, axi_awaddr, axi_wready, axi_bvalid,      \* the slave
  axi_arready, axi_araddr, axi_rvalid, axi_rdata,
  slv_reg0, slv_reg1,
  aw, w, ar,                 \* <<payload>> while the master holds valid, or <<>>
  bready, rready,
  owed_b, owed_r             \* accesses accepted and not answered

slave  == <<axi_awready, axi_awaddr, axi_wready, axi_bvalid,
            axi_arready, axi_araddr, axi_rvalid, axi_rdata, slv_reg0, slv_reg1>>
bus_master == <<aw, w, ar, bready, rready, owed_b, owed_r>>
controlVars == <<slave, bus_master>>

(* The slot an address selects: bits 3 and 2 of it. *)
Slot(addr) == (addr \div 4) % 4

(* A read of the status register samples it at the edge that raises         *)
(* axi_arready, any other read at the edge that raises axi_rvalid.          *)
Sampled == axi_arready /\ Slot(axi_araddr) = 1
Regs == INSTANCE ControlRegs WITH
  Byte <- ControlByte,
  ctrl <- slv_reg0,
  write <- (IF aw # <<>> /\ w # <<>>
            THEN [offset |-> aw[1], payload |-> w[1]] ELSE [offset |-> "none"]),
  written <- (owed_b > 0),
  read <- (IF ar # <<>> THEN ar ELSE IF owed_r > 0 THEN <<axi_araddr>> ELSE <<>>),
  result <- (IF axi_rvalid THEN <<axi_rdata>> ELSE IF Sampled THEN <<slv_reg1>> ELSE <<>>)

RegLanes == Regs!Lanes
cpu_reset_ext == slv_reg0[0] % 2 = 1
cpu_running   == ~cpu_reset_ext

w_hs == axi_awready /\ aw # <<>> /\ axi_wready /\ w # <<>>
r_hs == axi_arready /\ ar # <<>>

-----------------------------------------------------------------------------
ControlInit ==
  /\ axi_awready = FALSE /\ axi_awaddr = 0 /\ axi_wready = FALSE
  /\ axi_bvalid = FALSE
  /\ axi_arready = FALSE /\ axi_araddr = 0
  /\ axi_rvalid = FALSE /\ axi_rdata = Regs!Zero
  /\ slv_reg0 = Regs!CpuStartsInReset /\ slv_reg1 = Regs!Zero
  /\ aw = <<>> /\ w = <<>> /\ ar = <<>>
  /\ bready = FALSE /\ rready = FALSE
  /\ owed_b = 0 /\ owed_r = 0

(* The always_ff blocks of the slave, in the order of the source.           *)
(* Mutant of AwReady: it does not wait for the data. *)
AwReady_AddressOnly ==
  IF ~axi_awready /\ aw # <<>>
  THEN axi_awready' = TRUE /\ axi_awaddr' = aw[1]
  ELSE axi_awready' = FALSE /\ UNCHANGED axi_awaddr
AwReady ==
  IF ~axi_awready /\ aw # <<>> /\ w # <<>>
  THEN axi_awready' = TRUE /\ axi_awaddr' = aw[1]
  ELSE axi_awready' = FALSE /\ UNCHANGED axi_awaddr
WReady == axi_wready' = (~axi_wready /\ w # <<>> /\ aw # <<>>)

(* Mutant of RegisterWrite: the address is not decoded. *)
RegisterWrite_AnyOffset ==
  /\ slv_reg0' = IF w_hs
                 THEN [i \in RegLanes |-> IF i \in w[1].wstrb THEN w[1].wdata[i] ELSE slv_reg0[i]]
                 ELSE slv_reg0
  /\ slv_reg1' = [slv_reg1 EXCEPT ![0] = IF cpu_running THEN 1 ELSE 0]
RegisterWrite ==
  /\ slv_reg0' = IF w_hs /\ Slot(axi_awaddr) = 0
                 THEN [i \in RegLanes |-> IF i \in w[1].wstrb THEN w[1].wdata[i] ELSE slv_reg0[i]]
                 ELSE slv_reg0
  /\ slv_reg1' = [slv_reg1 EXCEPT ![0] = IF cpu_running THEN 1 ELSE 0]

(* Mutant of WriteResponse: a ready master takes it before it is there. *)
WriteResponse_ReadyFirst ==
  axi_bvalid' = IF bready THEN FALSE ELSE w_hs \/ axi_bvalid
WriteResponse ==
  axi_bvalid' = IF w_hs /\ ~axi_bvalid THEN TRUE
                ELSE IF bready /\ axi_bvalid THEN FALSE ELSE axi_bvalid

ArReady ==
  IF ~axi_arready /\ ar # <<>>
  THEN axi_arready' = TRUE /\ axi_araddr' = ar[1]
  ELSE axi_arready' = FALSE /\ UNCHANGED axi_araddr

(* Mutant of ReadResponse: the valid is never taken back. *)
ReadResponse_Sticks ==
  IF r_hs /\ ~axi_rvalid
  THEN /\ axi_rvalid' = TRUE
       /\ axi_rdata' = CASE Slot(axi_araddr) = 0 -> slv_reg0
                         [] Slot(axi_araddr) = 1 -> slv_reg1
                         [] OTHER -> Regs!Zero
  ELSE UNCHANGED <<axi_rvalid, axi_rdata>>
ReadResponse ==
  IF r_hs /\ ~axi_rvalid
  THEN /\ axi_rvalid' = TRUE
       /\ axi_rdata' = CASE Slot(axi_araddr) = 0 -> slv_reg0
                         [] Slot(axi_araddr) = 1 -> slv_reg1
                         [] OTHER -> Regs!Zero
  ELSE /\ axi_rvalid' = (axi_rvalid /\ ~rready)
       /\ UNCHANGED axi_rdata

SlaveClock == AwReady /\ WReady /\ RegisterWrite /\ WriteResponse /\ ArReady /\ ReadResponse

-----------------------------------------------------------------------------
(* The bus master: it holds a valid until it is accepted, raises address    *)
(* and data in either order, and has at most MaxOutstanding accesses of     *)
(* each kind accepted and unanswered, or requested.                         *)
b_hs == axi_bvalid /\ bready
rd_hs == axi_rvalid /\ rready
Count(event) == IF event THEN 1 ELSE 0
Raised(set) == {<<x>> : x \in set}

MasterWrite ==
  /\ owed_b' = owed_b + Count(w_hs) - Count(b_hs)
  /\ LET may == owed_b' < MaxOutstanding
         aw1 == IF w_hs THEN <<>> ELSE aw
         w1  == IF w_hs THEN <<>> ELSE w
     IN /\ aw' \in {aw1} \cup (IF aw1 = <<>> /\ may THEN Raised(Offsets) ELSE {})
        /\ w'  \in {w1} \cup (IF w1 = <<>> /\ may THEN Raised(Payloads) ELSE {})
  /\ bready' \in BOOLEAN

MasterRead ==
  /\ owed_r' = owed_r + Count(r_hs) - Count(rd_hs)
  /\ LET ar1 == IF r_hs THEN <<>> ELSE ar
     IN ar' \in {ar1} \cup (IF ar1 = <<>> /\ owed_r' < MaxOutstanding THEN Raised(Offsets) ELSE {})
  /\ rready' \in BOOLEAN

ControlClock == SlaveClock /\ MasterWrite /\ MasterRead

(* aresetn low at an edge clears the slave and the interconnect.            *)
ControlReset ==
  /\ axi_awready' = FALSE /\ axi_awaddr' = 0 /\ axi_wready' = FALSE
  /\ axi_bvalid' = FALSE
  /\ axi_arready' = FALSE /\ axi_araddr' = 0
  /\ axi_rvalid' = FALSE /\ axi_rdata' = Regs!Zero
  /\ slv_reg0' = Regs!CpuStartsInReset /\ slv_reg1' = Regs!Zero
  /\ aw' = <<>> /\ w' = <<>> /\ ar' = <<>>
  /\ bready' = FALSE /\ rready' = FALSE
  /\ owed_b' = 0 /\ owed_r' = 0

ControlNext == ControlClock \/ ControlReset

ControlSpec == ControlInit /\ [][ControlNext]_controlVars
(* The clock runs. That is all: the slave waits for nobody.                 *)
ControlLiveSpec == ControlSpec /\ WF_controlVars(ControlClock)

-----------------------------------------------------------------------------
ControlTypeOK ==
  /\ axi_awready \in BOOLEAN /\ axi_wready \in BOOLEAN /\ axi_bvalid \in BOOLEAN
  /\ axi_arready \in BOOLEAN /\ axi_rvalid \in BOOLEAN
  /\ axi_awaddr \in Offsets /\ axi_araddr \in Offsets
  /\ slv_reg0 \in [RegLanes -> ControlByte] /\ slv_reg1 \in [RegLanes -> ControlByte]
  /\ axi_rdata \in [RegLanes -> ControlByte]
  /\ owed_b \in 0 .. MaxOutstanding /\ owed_r \in 0 .. MaxOutstanding

(* Every access the slave accepted and did not answer yet has its response  *)
(* on the channel (lines 119 and 150 raise one response flag per access).   *)
EveryAccessAnswered == /\ owed_b = Count(axi_bvalid)
                       /\ owed_r = Count(axi_rvalid)

(* awready and wready rise together and only for a write that is complete,  *)
(* so address and data of one write are never paired with those of another  *)
(* (lines 74 and 88), and the address latched is the one on the channel.    *)
ChannelsPaired ==
  /\ axi_awready = axi_wready
  /\ axi_awready => aw = <<axi_awaddr>> /\ w # <<>>
  /\ axi_arready => ar = <<axi_araddr>>

(* The registers are atomic: reads and writes on their two pairs of         *)
(* channels, in any overlap, have the effect of one access at a time, and a *)
(* status read requested after the response to a write of the reset bit     *)
(* sees that write although slv_reg1 lags behind it by a clock (line 109).  *)
ImplementsRegs == Regs!Spec

(* Every complete request of the master gets its response, unless a reset   *)
(* forgets the request: neither side waits for the other for ever.          *)
WriteAnswered == (aw # <<>> /\ w # <<>>) ~> (axi_bvalid \/ (aw = <<>> /\ owed_b = 0))
ReadAnswered  == (ar # <<>>) ~> (axi_rvalid \/ (ar = <<>> /\ owed_r = 0))
Served == WriteAnswered /\ ReadAnswered
=============================================================================
