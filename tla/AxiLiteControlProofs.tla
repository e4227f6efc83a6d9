----------------------- MODULE AxiLiteControlProofs --------------------------
(* The AXI4-Lite control slave for every set of offsets and writes, with a  *)
(* master that has one access of each kind outstanding.                     *)
EXTENDS AxiLiteControl, TLAPS

(* A request is held as a tuple of one, or there is none. *)
LEMMA RaisedOne ==
  ASSUME NEW S, NEW q \in {<<>>} \cup Raised(S), q # <<>>
  PROVE  q[1] \in S /\ q = <<q[1]>>
  BY DEF Raised

-----------------------------------------------------------------------------
(* The state has its type however many accesses the master may have         *)
(* outstanding: a request is raised only below the bound, and a response on *)
(* a channel is owed.                                                       *)
Owed == /\ aw \in {<<>>} \cup Raised(Offsets) /\ w \in {<<>>} \cup Raised(Payloads)
        /\ ar \in {<<>>} \cup Raised(Offsets)
        /\ aw # <<>> => owed_b < MaxOutstanding
        /\ ar # <<>> => owed_r < MaxOutstanding
        /\ axi_bvalid => owed_b > 0
        /\ axi_rvalid => owed_r > 0

LEMMA ClearedWords ==
  /\ Regs!Zero \in [RegLanes -> ControlByte]
  /\ Regs!CpuStartsInReset \in [RegLanes -> ControlByte]
  /\ 0 \in RegLanes /\ RegLanes = 0 .. 3
  BY PayloadAssumption DEF RegLanes, Regs!Lanes, Regs!Zero, Regs!CpuStartsInReset

LEMMA RestTyped ==
  /\ ControlInit => ControlTypeOK /\ Owed
  /\ ControlReset => ControlTypeOK' /\ Owed'
<1> USE OutstandingAssumption, OffsetAssumption DEF ControlTypeOK, Owed
<1>0. /\ Regs!Zero \in [RegLanes -> ControlByte]
      /\ Regs!CpuStartsInReset \in [RegLanes -> ControlByte]
  BY ClearedWords
<1>1. ASSUME ControlInit PROVE ControlTypeOK /\ Owed
  <2>1. ControlTypeOK
    <3>1. slv_reg0 \in [RegLanes -> ControlByte] /\ slv_reg1 \in [RegLanes -> ControlByte]
          /\ axi_rdata \in [RegLanes -> ControlByte]
      BY <1>0, <1>1 DEF ControlInit
    <3>2. owed_b \in 0 .. MaxOutstanding /\ owed_r \in 0 .. MaxOutstanding
      BY <1>1 DEF ControlInit
    <3> QED BY <3>1, <3>2, <1>1 DEF ControlInit
  <2>2. Owed
    BY <1>1, SMT DEF ControlInit
  <2> QED BY <2>1, <2>2
<1>2. ASSUME ControlReset PROVE ControlTypeOK' /\ Owed'
  <2>1. ControlTypeOK'
    <3>1. slv_reg0' \in [RegLanes -> ControlByte] /\ slv_reg1' \in [RegLanes -> ControlByte]
          /\ axi_rdata' \in [RegLanes -> ControlByte]
      BY <1>0, <1>2 DEF ControlReset, RegLanes, Regs!Lanes
    <3>2. owed_b' \in 0 .. MaxOutstanding /\ owed_r' \in 0 .. MaxOutstanding
      BY <1>2 DEF ControlReset
    <3> QED BY <3>1, <3>2, <1>2 DEF ControlReset
  <2>2. Owed'
    BY <1>2, SMT DEF ControlReset
  <2> QED BY <2>1, <2>2
<1> QED BY <1>1, <1>2

LEMMA WriteTyped ==
  ASSUME ControlTypeOK, Owed, ControlClock
  PROVE  /\ owed_b' \in 0 .. MaxOutstanding
         /\ aw' \in {<<>>} \cup Raised(Offsets) /\ w' \in {<<>>} \cup Raised(Payloads)
         /\ aw' # <<>> => owed_b' < MaxOutstanding
         /\ axi_bvalid' \in BOOLEAN /\ (axi_bvalid' => owed_b' > 0)
<1> USE OutstandingAssumption DEF ControlTypeOK, Owed, ControlClock, SlaveClock
<1>1. owed_b' = owed_b + Count(w_hs) - Count(b_hs)
  BY DEF MasterWrite
<1>2. /\ w_hs => aw # <<>>
      /\ b_hs => axi_bvalid
  BY DEF w_hs, b_hs
<1>3. /\ owed_b' \in 0 .. MaxOutstanding
      /\ w_hs \/ owed_b' <= owed_b
  <2>1. Count(w_hs) = (IF w_hs THEN 1 ELSE 0) /\ Count(b_hs) = (IF b_hs THEN 1 ELSE 0)
    BY DEF Count
  <2> QED BY <1>1, <1>2, <2>1
<1>4. /\ aw' \in {<<>>} \cup Raised(Offsets) /\ w' \in {<<>>} \cup Raised(Payloads)
      /\ aw' # <<>> => owed_b' < MaxOutstanding
  BY <1>3 DEF MasterWrite
<1>5. axi_bvalid' \in BOOLEAN /\ (axi_bvalid' => owed_b' > 0)
  <2>1. /\ axi_bvalid' \in BOOLEAN
        /\ axi_bvalid' => w_hs \/ (axi_bvalid /\ ~b_hs)
    BY DEF WriteResponse, b_hs
  <2>2. Count(w_hs) = (IF w_hs THEN 1 ELSE 0) /\ Count(b_hs) = (IF b_hs THEN 1 ELSE 0)
    BY DEF Count
  <2> QED BY <1>1, <1>2, <2>1, <2>2
<1> QED BY <1>3, <1>4, <1>5

LEMMA ReadTyped ==
  ASSUME ControlTypeOK, Owed, ControlClock
  PROVE  /\ owed_r' \in 0 .. MaxOutstanding
         /\ ar' \in {<<>>} \cup Raised(Offsets)
         /\ ar' # <<>> => owed_r' < MaxOutstanding
         /\ axi_rvalid' \in BOOLEAN /\ (axi_rvalid' => owed_r' > 0)
<1> USE OutstandingAssumption DEF ControlTypeOK, Owed, ControlClock, SlaveClock
<1>1. owed_r' = owed_r + Count(r_hs) - Count(rd_hs)
  BY DEF MasterRead
<1>2. /\ r_hs => ar # <<>>
      /\ rd_hs => axi_rvalid
  BY DEF r_hs, rd_hs
<1>3. /\ owed_r' \in 0 .. MaxOutstanding
      /\ r_hs \/ owed_r' <= owed_r
  <2>1. Count(r_hs) = (IF r_hs THEN 1 ELSE 0) /\ Count(rd_hs) = (IF rd_hs THEN 1 ELSE 0)
    BY DEF Count
  <2> QED BY <1>1, <1>2, <2>1
<1>4. /\ ar' \in {<<>>} \cup Raised(Offsets)
      /\ ar' # <<>> => owed_r' < MaxOutstanding
  BY <1>3 DEF MasterRead
<1>5. axi_rvalid' \in BOOLEAN /\ (axi_rvalid' => owed_r' > 0)
  <2>1. /\ axi_rvalid' \in BOOLEAN
        /\ axi_rvalid' => r_hs \/ (axi_rvalid /\ ~rd_hs)
    BY DEF ReadResponse, rd_hs
  <2>2. Count(r_hs) = (IF r_hs THEN 1 ELSE 0) /\ Count(rd_hs) = (IF rd_hs THEN 1 ELSE 0)
    BY DEF Count
  <2> QED BY <1>1, <1>2, <2>1, <2>2
<1> QED BY <1>3, <1>4, <1>5

LEMMA LatchesTyped ==
  ASSUME ControlTypeOK, Owed, ControlClock
  PROVE  /\ axi_awready' \in BOOLEAN /\ axi_wready' \in BOOLEAN /\ axi_arready' \in BOOLEAN
         /\ axi_awaddr' \in Offsets /\ axi_araddr' \in Offsets
         /\ slv_reg0' \in [RegLanes -> ControlByte] /\ slv_reg1' \in [RegLanes -> ControlByte]
         /\ axi_rdata' \in [RegLanes -> ControlByte]
<1> USE ClearedWords DEF ControlTypeOK, Owed, ControlClock, SlaveClock
<1>1. axi_awready' \in BOOLEAN /\ axi_awaddr' \in Offsets
  BY RaisedOne, ZenonT(30) DEF AwReady
<1>2. axi_arready' \in BOOLEAN /\ axi_araddr' \in Offsets
  BY RaisedOne, ZenonT(30) DEF ArReady
<1>3. axi_wready' \in BOOLEAN
  BY DEF WReady
<1>4. slv_reg0' \in [RegLanes -> ControlByte]
  <2>1. w_hs => w[1] \in Payloads
    BY RaisedOne DEF w_hs
  <2>2. w_hs => w[1].wdata \in [RegLanes -> ControlByte]
    BY <2>1, PayloadAssumption
  <2>3. QED
    BY <2>2 DEF RegisterWrite
<1>5. slv_reg1' \in [RegLanes -> ControlByte]
  BY PayloadAssumption DEF RegisterWrite
<1>6. axi_rdata' \in [RegLanes -> ControlByte]
  BY DEF ReadResponse
<1> QED BY <1>1, <1>2, <1>3, <1>4, <1>5, <1>6

THEOREM ControlTypeCorrect == ControlSpec => []ControlTypeOK
<1>1. ControlTypeOK /\ Owed /\ [ControlNext]_controlVars => (ControlTypeOK /\ Owed)'
  <2>1. ControlTypeOK /\ Owed /\ ControlClock => (ControlTypeOK /\ Owed)'
    BY WriteTyped, ReadTyped, LatchesTyped DEF ControlTypeOK, Owed
  <2>2. ControlTypeOK /\ Owed /\ UNCHANGED controlVars => (ControlTypeOK /\ Owed)'
    BY DEF ControlTypeOK, Owed, controlVars, slave, bus_master
  <2>3. QED
    BY <2>1, <2>2, RestTyped DEF ControlNext
<1> QED BY <1>1, RestTyped, PTL DEF ControlSpec

-----------------------------------------------------------------------------
Requested ==
  /\ aw \in {<<>>} \cup Raised(Offsets) /\ w \in {<<>>} \cup Raised(Payloads)
  /\ ar \in {<<>>} \cup Raised(Offsets)
  /\ axi_awready \in BOOLEAN /\ axi_wready \in BOOLEAN /\ axi_bvalid \in BOOLEAN
  /\ axi_arready \in BOOLEAN /\ axi_rvalid \in BOOLEAN
(* While an access is requested nothing is owed: its response is free.      *)
FreeResponse == /\ aw # <<>> \/ w # <<>> => owed_b = 0
                /\ ar # <<>> => owed_r = 0
(* slv_reg1 is the running bit and nothing else. *)
StatusShape == \A i \in RegLanes \ {0} : slv_reg1[i] = 0
RegsShape == DOMAIN slv_reg0 = RegLanes /\ slv_reg0 = [i \in RegLanes |-> slv_reg0[i]]
             /\ slv_reg1 = [i \in RegLanes |-> slv_reg1[i]]
             /\ slv_reg0[0] \in Nat

SlaveInv == /\ Requested /\ ChannelsPaired
            /\ EveryAccessAnswered /\ FreeResponse /\ StatusShape /\ RegsShape

LEMMA InitInv == ControlInit => SlaveInv
  BY DEF ControlInit, SlaveInv, Requested, ChannelsPaired, EveryAccessAnswered, Count,
     FreeResponse, StatusShape, RegsShape, RegLanes, Regs!Lanes, Regs!Zero, Regs!CpuStartsInReset

LEMMA ResetInv == ControlReset => SlaveInv'
  BY DEF ControlReset, SlaveInv, Requested, ChannelsPaired, EveryAccessAnswered, Count,
     FreeResponse, StatusShape, RegsShape, RegLanes, Regs!Lanes, Regs!Zero, Regs!CpuStartsInReset

(* The write channels at an edge: address and data are taken together, when *)
(* nothing is owed; after that the master raises no more until the response.*)
LEMMA WriteEdge ==
  ASSUME MaxOutstanding = 1, SlaveInv, ControlClock
  PROVE  /\ aw' \in {<<>>} \cup Raised(Offsets) /\ w' \in {<<>>} \cup Raised(Payloads)
         /\ w_hs => /\ aw' = <<>> /\ w' = <<>> /\ owed_b = 0 /\ owed_b' = 1
                    /\ axi_bvalid' = TRUE
         /\ b_hs => /\ aw = <<>> /\ w = <<>> /\ owed_b = 1 /\ owed_b' = 0
                    /\ axi_bvalid' = FALSE
         /\ ~w_hs /\ ~b_hs => /\ owed_b' = owed_b /\ axi_bvalid' = axi_bvalid
                              /\ aw # <<>> => aw' = aw
                              /\ w # <<>> => w' = w
                              /\ owed_b = 1 => aw' = <<>> /\ w' = <<>>
         /\ ~(w_hs /\ b_hs)
<1> USE DEF SlaveInv, Requested, ChannelsPaired, EveryAccessAnswered, FreeResponse, Count,
        ControlClock, MasterWrite, SlaveClock, WriteResponse, w_hs, b_hs
<1>1. CASE w_hs
  <2>1. ~axi_bvalid /\ owed_b = 0 /\ ~b_hs
    BY <1>1
  <2>2. owed_b' = 1 /\ axi_bvalid' = TRUE
    BY <1>1, <2>1
  <2>3. aw' = <<>> /\ w' = <<>>
    BY <1>1, <2>2
  <2>4. QED
    BY <1>1, <2>1, <2>2, <2>3
<1>2. CASE b_hs
  <2>1. axi_bvalid = TRUE /\ owed_b = 1 /\ aw = <<>> /\ w = <<>> /\ ~w_hs
    BY <1>2
  <2>2. owed_b' = 0 /\ axi_bvalid' = FALSE
    BY <1>2, <2>1
  <2>3. aw' \in {<<>>} \cup Raised(Offsets) /\ w' \in {<<>>} \cup Raised(Payloads)
    BY <2>1
  <2>4. QED
    BY <1>2, <2>1, <2>2, <2>3
<1>3. CASE ~w_hs /\ ~b_hs
  <2>1. owed_b' = owed_b
    BY <1>3
  <2>2. axi_bvalid' = axi_bvalid
    BY <1>3
  <2>3. /\ aw' \in {<<>>} \cup Raised(Offsets) /\ w' \in {<<>>} \cup Raised(Payloads)
        /\ aw # <<>> => aw' = aw
        /\ w # <<>> => w' = w
    BY <1>3
  <2>4. owed_b = 1 => aw' = <<>> /\ w' = <<>>
    BY <1>3, <2>1
  <2>5. QED
    BY <1>3, <2>1, <2>2, <2>3, <2>4
<1>4. QED
  BY <1>1, <1>2, <1>3

LEMMA ReadEdge ==
  ASSUME MaxOutstanding = 1, SlaveInv, ControlClock
  PROVE  /\ ar' \in {<<>>} \cup Raised(Offsets)
         /\ r_hs => /\ ar' = <<>> /\ owed_r = 0 /\ owed_r' = 1 /\ ~axi_rvalid
                    /\ axi_rvalid' = TRUE
         /\ rd_hs => /\ ar = <<>> /\ owed_r = 1 /\ owed_r' = 0
                     /\ axi_rvalid' = FALSE
         /\ ~r_hs /\ ~rd_hs => /\ owed_r' = owed_r /\ axi_rvalid' = axi_rvalid
                               /\ ar # <<>> => ar' = ar
                               /\ owed_r = 1 => ar' = <<>>
                               /\ axi_rdata' = axi_rdata
         /\ ~(r_hs /\ rd_hs)
<1> USE DEF SlaveInv, Requested, ChannelsPaired, EveryAccessAnswered, FreeResponse, Count,
        ControlClock, MasterRead, SlaveClock, ReadResponse, r_hs, rd_hs
<1>1. CASE r_hs
  BY <1>1
<1>2. CASE rd_hs
  BY <1>2
<1>3. CASE ~r_hs /\ ~rd_hs
  BY <1>3
<1>4. QED
  BY <1>1, <1>2, <1>3

(* The address latched with axi_awready is that of the write on the channel.*)
LEMMA ClockPairs ==
  ASSUME MaxOutstanding = 1, SlaveInv, ControlClock PROVE ChannelsPaired'
<1>1. axi_awready' = axi_wready'
  BY DEF SlaveInv, ChannelsPaired, ControlClock, SlaveClock, AwReady, WReady
<1>2. axi_awready' => aw' = <<axi_awaddr'>> /\ w' # <<>>
  <2>1. SUFFICES ASSUME axi_awready' PROVE aw' = <<axi_awaddr'>> /\ w' # <<>>
    OBVIOUS
  <2>2. ~axi_awready /\ aw # <<>> /\ w # <<>> /\ axi_awaddr' = aw[1]
    BY <2>1 DEF ControlClock, SlaveClock, AwReady, SlaveInv, Requested
  <2>3. aw' = aw /\ w' = w
    BY <2>2, WriteEdge DEF w_hs
  <2>4. aw = <<aw[1]>>
    BY <2>2, RaisedOne DEF SlaveInv, Requested
  <2>5. QED
    BY <2>2, <2>3, <2>4
<1>3. axi_arready' => ar' = <<axi_araddr'>>
  <2>1. SUFFICES ASSUME axi_arready' PROVE ar' = <<axi_araddr'>>
    OBVIOUS
  <2>2. ~axi_arready /\ ar # <<>> /\ axi_araddr' = ar[1]
    BY <2>1 DEF ControlClock, SlaveClock, ArReady, SlaveInv, Requested
  <2>3. ar' = ar
    BY <2>2, ReadEdge DEF r_hs
  <2>4. ar = <<ar[1]>>
    BY <2>2, RaisedOne DEF SlaveInv, Requested
  <2>5. QED
    BY <2>2, <2>3, <2>4
<1>4. QED
  BY <1>1, <1>2, <1>3 DEF ChannelsPaired

LEMMA ClockInv ==
  ASSUME MaxOutstanding = 1, SlaveInv, ControlClock PROVE SlaveInv'
<1>1. Requested'
  <2>1. /\ axi_awready' \in BOOLEAN /\ axi_wready' \in BOOLEAN
        /\ axi_arready' \in BOOLEAN
    BY DEF ControlClock, SlaveClock, AwReady, WReady, ArReady
  <2>2. axi_bvalid' \in BOOLEAN /\ axi_rvalid' \in BOOLEAN
    BY DEF ControlClock, SlaveClock, WriteResponse, ReadResponse, SlaveInv, Requested
  <2>3. QED
    BY <2>1, <2>2, WriteEdge, ReadEdge DEF Requested
<1>2. EveryAccessAnswered' /\ FreeResponse'
  <2>1. owed_b' = Count(axi_bvalid') /\ (aw' # <<>> \/ w' # <<>> => owed_b' = 0)
    BY WriteEdge DEF SlaveInv, EveryAccessAnswered, FreeResponse, Count, Requested
  <2>2. owed_r' = Count(axi_rvalid') /\ (ar' # <<>> => owed_r' = 0)
    BY ReadEdge DEF SlaveInv, EveryAccessAnswered, FreeResponse, Count, Requested
  <2>3. QED
    BY <2>1, <2>2 DEF EveryAccessAnswered, FreeResponse
<1>3. StatusShape' /\ RegsShape'
  <2>1. w # <<>> => w[1] \in Payloads /\ w[1].wdata[0] \in Nat
    <3>1. w # <<>> => w[1] \in Payloads
      BY RaisedOne DEF SlaveInv, Requested
    <3>2. \A p \in Payloads : p.wdata[0] \in Nat
      <4>1. \A p \in Payloads : p.wdata \in [0 .. 3 -> ControlByte]
        BY PayloadAssumption
      <4>2. ControlByte \subseteq Nat /\ 0 \in 0 .. 3
        BY PayloadAssumption
      <4>3. QED
        BY <4>1, <4>2
    <3>3. QED
      BY <3>1, <3>2
  <2>2. slv_reg0'[0] \in Nat
    <3>1. CASE w_hs /\ Slot(axi_awaddr) = 0
      <4>1. slv_reg0' = [i \in RegLanes |-> IF i \in w[1].wstrb THEN w[1].wdata[i] ELSE slv_reg0[i]]
        BY <3>1 DEF ControlClock, SlaveClock, RegisterWrite
      <4>2. 0 \in RegLanes /\ w # <<>>
        BY <3>1 DEF w_hs, RegLanes, Regs!Lanes
      <4>3. QED
        BY <2>1, <4>1, <4>2 DEF SlaveInv, RegsShape
    <3>2. CASE ~(w_hs /\ Slot(axi_awaddr) = 0)
      BY <3>2 DEF ControlClock, SlaveClock, RegisterWrite, SlaveInv, RegsShape
    <3>3. QED
      BY <3>1, <3>2
  <2>3. QED
    BY <2>2
       DEF SlaveInv, StatusShape, RegsShape, ControlClock, SlaveClock, RegisterWrite,
           RegLanes, Regs!Lanes
<1>4. QED
  BY <1>1, <1>2, <1>3, ClockPairs DEF SlaveInv

THEOREM SlaveInvariant == ASSUME MaxOutstanding = 1 PROVE ControlSpec => []SlaveInv
<1>1. SlaveInv /\ [ControlNext]_controlVars => SlaveInv'
  <2>1. SlaveInv /\ ControlNext => SlaveInv'
    BY ClockInv, ResetInv DEF ControlNext
  <2>2. SlaveInv /\ UNCHANGED controlVars => SlaveInv'
    BY DEF SlaveInv, Requested, ChannelsPaired, EveryAccessAnswered, FreeResponse,
       StatusShape, RegsShape, controlVars, slave, bus_master
  <2>3. QED
    BY <2>1, <2>2
<1>2. QED
  BY <1>1, InitInv, PTL DEF ControlSpec

(* One response per access, and address and data of one write (lines 74,    *)
(* 119 and 150 of axi_lite_control.sv).                                     *)
THEOREM AccessesAnswered ==
  ASSUME MaxOutstanding = 1 PROVE ControlSpec => [](EveryAccessAnswered /\ ChannelsPaired)
<1>1. SlaveInv => EveryAccessAnswered /\ ChannelsPaired
  BY DEF SlaveInv
<1>2. QED
  BY <1>1, SlaveInvariant, PTL

-----------------------------------------------------------------------------
(* The refinement, one pair of channels at a time. write, written, read and *)
(* result stand for what the mapping puts for them.                         *)
write == IF aw # <<>> /\ w # <<>>
         THEN [offset |-> aw[1], payload |-> w[1]] ELSE [offset |-> "none"]
read  == IF ar # <<>> THEN ar ELSE IF owed_r > 0 THEN <<axi_araddr>> ELSE <<>>
result == IF axi_rvalid THEN <<axi_rdata>> ELSE IF Sampled THEN <<slv_reg1>> ELSE <<>>

(* No write has another form than a write that is one. *)
LEMMA WriteIsNone ==
  \A o, p : [offset |-> o, payload |-> p] # [offset |-> "none"]
<1> TAKE o, p
<1>1. DOMAIN [offset |-> o, payload |-> p] = {"offset", "payload"}
      /\ DOMAIN [offset |-> "none"] = {"offset"}
  OBVIOUS
<1>2. QED
  BY <1>1

LEMMA SlotsAgree == \A o : Regs!Slot(o) = Slot(o)
  BY DEF Slot, Regs!Slot

LEMMA ClockWrites ==
  ASSUME MaxOutstanding = 1, SlaveInv, ControlClock PROVE Regs!WriteStep
<1> USE DEF SlaveInv, Requested
<1>1. CASE w_hs
  <2>1. /\ aw # <<>> /\ w # <<>> /\ aw' = <<>> /\ w' = <<>> /\ owed_b' = 1
        /\ axi_awaddr = aw[1] /\ aw[1] \in Offsets
    BY <1>1, WriteEdge, RaisedOne DEF w_hs, ChannelsPaired
  <2>2. slv_reg0' = Regs!WriteWord(slv_reg0, [offset |-> aw[1], payload |-> w[1]])
    BY <1>1, <2>1, SlotsAgree
       DEF ControlClock, SlaveClock, RegisterWrite, Regs!WriteWord, RegsShape, RegLanes
  <2>3. [offset |-> aw[1], payload |-> w[1]] # [offset |-> "none"]
    BY WriteIsNone
  <2>4. QED
    BY <2>1, <2>2, <2>3 DEF Regs!WriteStep, Regs!NoWrite
<1>2. slv_reg0' = slv_reg0 \/ w_hs
  BY DEF ControlClock, SlaveClock, RegisterWrite
<1>3. write' \in Regs!Writes \cup {[offset |-> "none"]}
  <2>1. CASE aw' # <<>> /\ w' # <<>>
    <3>1. aw'[1] \in Offsets /\ w'[1] \in Payloads
      BY <2>1, WriteEdge, RaisedOne
    <3>2. QED
      BY <2>1, <3>1 DEF write, Regs!Writes
  <2>2. CASE ~(aw' # <<>> /\ w' # <<>>)
    BY <2>2 DEF write
  <2>3. QED
    BY <2>1, <2>2
<1>4. CASE b_hs
  <2>1. owed_b = 1 /\ owed_b' = 0 /\ ~w_hs
    BY <1>4, WriteEdge
  <2>2. QED
    BY <1>2, <1>3, <2>1 DEF Regs!WriteStep, Regs!NoWrite, write
<1>5. CASE ~w_hs /\ ~b_hs
  <2>1. owed_b' = owed_b /\ slv_reg0' = slv_reg0
    BY <1>2, <1>5, WriteEdge
  <2>2. CASE aw # <<>> /\ w # <<>>
    BY <1>5, <2>1, <2>2, WriteEdge DEF Regs!WriteStep
  <2>3. CASE ~(aw # <<>> /\ w # <<>>)
    <3>1. owed_b = 0 \/ (aw' = <<>> /\ w' = <<>>)
      BY <1>5, WriteEdge DEF EveryAccessAnswered, Count
    <3>2. QED
      BY <1>3, <2>1, <2>3, <3>1 DEF Regs!WriteStep, Regs!NoWrite, write
  <2>4. QED
    BY <2>2, <2>3
<1>6. QED
  BY <1>1, <1>4, <1>5

(* A read of the status register takes it at the edge that raises           *)
(* axi_arready: what slv_reg1 gets at that edge is what the control         *)
(* register says before it.                                                 *)
LEMMA StatusNow ==
  ASSUME SlaveInv, ControlClock, NEW o, Slot(o) = 1
  PROVE  slv_reg1' = Regs!ReadWord(slv_reg0, o)
<1>1. slv_reg1' = [slv_reg1 EXCEPT ![0] = IF cpu_running THEN 1 ELSE 0]
  BY DEF ControlClock, SlaveClock, RegisterWrite
<1>2. slv_reg1 = [i \in RegLanes |-> slv_reg1[i]] /\ \A i \in RegLanes \ {0} : slv_reg1[i] = 0
  BY DEF SlaveInv, RegsShape, StatusShape
<1>3. cpu_running <=> Regs!CpuRunning(slv_reg0)
  BY DEF SlaveInv, RegsShape, cpu_running, cpu_reset_ext, Regs!CpuRunning
<1>4. Regs!ReadWord(slv_reg0, o) =
        [i \in RegLanes |-> IF i = 0 THEN IF cpu_running THEN 1 ELSE 0 ELSE 0]
  BY <1>3, SlotsAgree DEF Regs!ReadWord, Regs!Zero, RegLanes, Regs!Lanes
<1>5. slv_reg1' = [i \in RegLanes |-> IF i = 0 THEN IF cpu_running THEN 1 ELSE 0 ELSE 0]
  BY <1>1, <1>2 DEF RegLanes, Regs!Lanes
<1>6. QED
  BY <1>4, <1>5

LEMMA ClockReads ==
  ASSUME MaxOutstanding = 1, SlaveInv, ControlClock PROVE Regs!ReadStep
<1> USE DEF SlaveInv, Requested, EveryAccessAnswered, Count
<1>1. CASE r_hs
  <2>1. /\ ar = <<axi_araddr>> /\ ar' = <<>> /\ owed_r = 0 /\ owed_r' = 1
        /\ ~axi_rvalid /\ axi_rvalid' /\ axi_arready
    BY <1>1, ReadEdge DEF r_hs, ChannelsPaired
  <2>2. axi_araddr' = axi_araddr /\ ~axi_arready'
    BY <2>1 DEF ControlClock, SlaveClock, ArReady
  <2>3. read' = read /\ read = <<axi_araddr>> /\ read # <<>> /\ result' = <<axi_rdata'>>
    BY <2>1, <2>2 DEF read, result
  <2>4. axi_rdata' = CASE Slot(axi_araddr) = 0 -> slv_reg0
                       [] Slot(axi_araddr) = 1 -> slv_reg1
                       [] OTHER -> Regs!Zero
    BY <1>1, <2>1 DEF ControlClock, SlaveClock, ReadResponse
  <2>5. CASE Slot(axi_araddr) = 1
    <3>1. axi_rdata' = slv_reg1 /\ result = <<slv_reg1>>
      BY <2>1, <2>4, <2>5 DEF result, Sampled
    <3>2. QED
      BY <2>3, <3>1 DEF Regs!ReadStep, read, result
  <2>6. CASE Slot(axi_araddr) # 1
    <3>1. result = <<>> /\ axi_rdata' = Regs!ReadWord(slv_reg0, axi_araddr)
      BY <2>1, <2>4, <2>6, SlotsAgree DEF result, Sampled, Regs!ReadWord
    <3>2. read[1] = axi_araddr
      BY <2>3
    <3>3. QED
      BY <2>3, <3>1, <3>2 DEF Regs!ReadStep, read, result
  <2>7. QED
    BY <2>5, <2>6
<1>2. CASE rd_hs
  <2>1. /\ ar = <<>> /\ owed_r = 1 /\ owed_r' = 0 /\ axi_rvalid /\ ~axi_rvalid'
        /\ ar' \in {<<>>} \cup Raised(Offsets)
    BY <1>2, ReadEdge DEF rd_hs
  <2>2. ~axi_arready'
    BY <2>1 DEF ControlClock, SlaveClock, ArReady
  <2>3. result # <<>> /\ result' = <<>>
    BY <2>1, <2>2 DEF result, Sampled
  <2>4. read' \in {<<>>} \cup {<<o>> : o \in Offsets}
    BY <2>1 DEF read, Raised
  <2>5. QED
    BY <2>3, <2>4 DEF Regs!ReadStep, read, result
<1>3. CASE ~r_hs /\ ~rd_hs
  <2>1. /\ owed_r' = owed_r /\ axi_rvalid' = axi_rvalid /\ axi_rdata' = axi_rdata
        /\ ar # <<>> => ar' = ar
        /\ owed_r = 1 => ar' = <<>>
        /\ ar' \in {<<>>} \cup Raised(Offsets)
    BY <1>3, ReadEdge
  <2>2. CASE owed_r = 1
    <3>1. ar = <<>> /\ ar' = <<>> /\ axi_rvalid /\ axi_rvalid'
      BY <2>1, <2>2 DEF FreeResponse
    <3>2. axi_araddr' = axi_araddr
      BY <3>1 DEF ControlClock, SlaveClock, ArReady
    <3>3. QED
      BY <2>1, <3>1, <3>2 DEF Regs!ReadStep, read, result
  <2>3. CASE owed_r = 0 /\ ar = <<>>
    <3>1. ~axi_rvalid /\ ~axi_arready /\ ~axi_arready' /\ ~axi_rvalid'
      BY <2>1, <2>3 DEF ControlClock, SlaveClock, ArReady, ChannelsPaired
    <3>2. read = <<>> /\ result = <<>> /\ result' = <<>>
          /\ read' \in {<<>>} \cup {<<o>> : o \in Offsets}
      BY <2>1, <2>3, <3>1 DEF read, result, Sampled, Raised
    <3>3. QED
      BY <3>2 DEF Regs!ReadStep, read, result
  <2>4. CASE owed_r = 0 /\ ar # <<>>
    <3>1. ~axi_rvalid /\ ~axi_rvalid' /\ ~axi_arready /\ ar' = ar
      BY <1>3, <2>1, <2>4 DEF r_hs
    <3>2. axi_arready' /\ axi_araddr' = ar[1]
      BY <2>4, <3>1 DEF ControlClock, SlaveClock, ArReady
    <3>3. read' = read /\ read = ar /\ read # <<>> /\ result = <<>>
      BY <2>4, <3>1 DEF read, result, Sampled
    <3>4. CASE Slot(ar[1]) = 1
      <4>1. result' = <<Regs!ReadWord(slv_reg0, read[1])>>
        BY <3>1, <3>2, <3>3, <3>4, StatusNow DEF result, Sampled
      <4>2. QED
        BY <3>3, <4>1 DEF Regs!ReadStep, read, result
    <3>5. CASE Slot(ar[1]) # 1
      <4>1. result' = <<>>
        BY <3>1, <3>2, <3>5 DEF result, Sampled
      <4>2. QED
        BY <3>3, <4>1 DEF Regs!ReadStep, read, result
    <3>6. QED
      BY <3>4, <3>5
  <2>5. QED
    BY <2>2, <2>3, <2>4
<1>4. QED
  BY <1>1, <1>2, <1>3

(* Overlapping reads and writes have the effect of one access at a time:    *)
(* the slave implements ControlRegs.                                        *)
THEOREM SlaveImplementsRegs ==
  ASSUME MaxOutstanding = 1 PROVE ControlSpec => ImplementsRegs
<1>1. ControlInit => Regs!Init
  BY DEF ControlInit, Regs!Init, Regs!NoWrite, Sampled
<1>2. SlaveInv /\ [ControlNext]_controlVars => [Regs!Next]_(Regs!vars)
  <2>1. SlaveInv /\ ControlClock => Regs!Next
    BY ClockWrites, ClockReads DEF Regs!Next
  <2>2. ControlReset => Regs!Reset
    BY DEF ControlReset, Regs!Reset, Regs!NoWrite, Sampled
  <2>3. UNCHANGED controlVars => UNCHANGED Regs!vars
    BY DEF controlVars, slave, bus_master, Regs!vars, Sampled
  <2>4. QED
    BY <2>1, <2>2, <2>3 DEF ControlNext, Regs!Next
<1>3. QED
  BY <1>1, <1>2, SlaveInvariant, PTL DEF ControlSpec, ImplementsRegs, Regs!Spec
=============================================================================
