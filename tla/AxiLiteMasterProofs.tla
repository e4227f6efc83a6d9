------------------------ MODULE AxiLiteMasterProofs --------------------------
(* The AXI4-Lite master for every set of requests, every device and every   *)
(* pace of the slave, with core resets only while the bus is quiet.         *)
EXTENDS AxiLiteMaster, TLAPS

(* What a queue of at most one element looks like. *)
LEMMA OneElement ==
  ASSUME NEW x
  PROVE  /\ Append(<<>>, x) = <<x>>
         /\ Head(<<x>>) = x /\ Tail(<<x>>) = <<>>
         /\ Len(<<x>>) = 1 /\ Len(<<>>) = 0
         /\ <<x>> # <<>>
  OBVIOUS

-----------------------------------------------------------------------------
(* The state of the master always has its type: what it latches is the word *)
(* address, the data and the lanes of some access, whatever resets do.      *)
LEMMA ChannelsType ==
  Channels => awready' \in BOOLEAN /\ wready' \in BOOLEAN /\ arready' \in BOOLEAN
BY DEF Channels

LEMMA ClearedType == [i \in Lanes |-> CHOOSE x \in Byte : TRUE] \in [Lanes -> Byte]
<1>1. (CHOOSE x \in Byte : TRUE) \in Byte
  BY RequestShape
<1> QED BY <1>1

THEOREM MasterTypeCorrect == Spec => []TypeOK
<1>1. Init => TypeOK
  BY ClearedType DEF Init, TypeOK, States
<1>2. TypeOK /\ Clock => TypeOK'
  <2> SUFFICES ASSUME TypeOK, Clock PROVE TypeOK'
    OBVIOUS
  <2>1. awready' \in BOOLEAN /\ wready' \in BOOLEAN /\ arready' \in BOOLEAN
    BY ChannelsType DEF Clock
  <2>2. req' \in Requests \cup {NoRequest}
    BY DEF TypeOK, Clock, CoreMem, core
  <2>3. ASSUME Idle PROVE TypeOK'
    <3>1. req.kind \in {"read", "write"} => req \in Requests
      BY DEF TypeOK, NoRequest, Port!NoRequest
    <3>2. QED
      BY <2>1, <2>2, <2>3, <3>1, RequestShape
         DEF TypeOK, Idle, States, aligned_word_addr, Lanes, Port!Lanes
  <2>4. ASSUME WriteCmd \/ WriteResp \/ ReadAddr \/ ReadData PROVE TypeOK'
    BY <2>1, <2>2, <2>4 DEF TypeOK, WriteCmd, WriteResp, ReadAddr, ReadData, States
  <2>5. QED
    BY <2>3, <2>4 DEF Clock
<1>3. TypeOK /\ Reset => TypeOK'
  BY ChannelsType, ClearedType DEF TypeOK, Reset, States
<1>4. TypeOK /\ (SlaveWrite \/ SlaveRead) => TypeOK'
  BY DEF TypeOK, SlaveWrite, SlaveRead, master, core, readys
<1>5. TypeOK /\ UNCHANGED vars => TypeOK'
  BY DEF TypeOK, vars, master, core, readys
<1>6. QED
  BY <1>1, <1>2, <1>3, <1>4, <1>5, PTL DEF Spec, Next

-----------------------------------------------------------------------------
(* The bus in each state of the master: which transfers are on it, and that *)
(* they are those of the access the core holds.                             *)
WriteHeld == /\ req.kind = "write"
             /\ active_addr = aligned_word_addr(req.addr)
             /\ active_wdata = req.wdata /\ active_wstrb = req.wstrb
ReadHeld == /\ req.kind = "read"
            /\ active_addr = aligned_word_addr(req.addr)
Data == [wdata |-> active_wdata, wstrb |-> active_wstrb]

OnBus(aw, w, b, ar, r) ==
  aw_q = aw /\ w_q = w /\ b_q = b /\ ar_q = ar /\ r_q = r
IdleBus == OnBus(<<>>, <<>>, <<>>, <<>>, <<>>)
WriteCmdBus ==
  /\ WriteHeld /\ ~(aw_done /\ w_done)
  /\ OnBus(IF aw_done THEN <<active_addr>> ELSE <<>>,
           IF w_done THEN <<Data>> ELSE <<>>, <<>>, <<>>, <<>>)
WriteRespBus ==
  /\ WriteHeld
  /\ \/ OnBus(<<active_addr>>, <<Data>>, <<>>, <<>>, <<>>)
     \/ OnBus(<<>>, <<>>, <<"OKAY">>, <<>>, <<>>)
ReadDataBus ==
  /\ ReadHeld
  /\ \/ OnBus(<<>>, <<>>, <<>>, <<active_addr>>, <<>>)
     \/ OnBus(<<>>, <<>>, <<>>, <<>>, <<Head(r_q)>>)

BusInv ==
  /\ state \in States
  /\ req \in Requests \cup {NoRequest}
  /\ aw_done \in BOOLEAN /\ w_done \in BOOLEAN
  /\ state = "ST_IDLE" => IdleBus
  /\ state = "ST_WRITE_CMD" => WriteCmdBus
  /\ state = "ST_WRITE_RESP" => WriteRespBus
  /\ state = "ST_READ_ADDR" => ReadHeld /\ IdleBus
  /\ state = "ST_READ_DATA" => ReadDataBus

LEMMA InitBus == Init => BusInv
  BY DEF Init, BusInv, States, IdleBus, OnBus

(* A clock edge, by the state it finds the master in. *)
LEMMA ClockBus == BusInv /\ Clock => BusInv'
<1> SUFFICES ASSUME BusInv, Clock PROVE BusInv'
  OBVIOUS
<1> USE DEF core, BusInv, States, IdleBus, OnBus, WriteHeld, ReadHeld, Data, Clock, Channels,
        Taken, Given, CoreMem, req_ready, m_axi_awvalid, m_axi_wvalid, m_axi_bready,
        m_axi_arvalid, m_axi_rready, m_axi_bvalid, m_axi_rvalid
<1>req. req' \in Requests \cup {NoRequest}
  OBVIOUS
<1>1. CASE Idle
  <2>1. IdleBus' /\ req' \in Requests \cup {NoRequest} /\ ~aw_done' /\ ~w_done'
    BY <1>1, <1>req DEF Idle
  <2>2. CASE req = NoRequest
    BY <1>1, <2>1, <2>2 DEF Idle, NoRequest, Port!NoRequest
  <2>3. CASE req # NoRequest
    <3>1. req' = req
      BY <1>1, <2>3 DEF Idle
    <3>2. QED
      BY <1>1, <2>1, <2>3, <3>1 DEF Idle, WriteCmdBus
  <2>4. QED
    BY <2>2, <2>3
<1>2. CASE WriteCmd
  <2>1. /\ WriteHeld /\ state = "ST_WRITE_CMD" /\ req' = req
        /\ b_q' = <<>> /\ ar_q' = <<>> /\ r_q' = <<>>
    BY <1>2, RequestAssumption DEF WriteCmd, WriteCmdBus, NoRequest, Port!NoRequest
  <2>2. aw_q' = IF aw_done \/ awready THEN <<active_addr>> ELSE <<>>
    BY <1>2, OneElement DEF WriteCmd, WriteCmdBus
  <2>3. w_q' = IF w_done \/ wready THEN <<Data>> ELSE <<>>
    BY <1>2, OneElement DEF WriteCmd, WriteCmdBus
  <2>4. QED
    BY <1>2, <2>1, <2>2, <2>3 DEF WriteCmd, WriteCmdBus, WriteRespBus
<1>3. CASE WriteResp
  <2>1. CASE b_q = <<>>
    BY <1>3, <2>1, OneElement DEF WriteResp, WriteRespBus, NoRequest, Port!NoRequest
  <2>2. CASE b_q # <<>>
    BY <1>3, <2>2, OneElement, <1>req DEF WriteResp, WriteRespBus
  <2>3. QED
    BY <2>1, <2>2
<1>4. CASE ReadAddr
  <2>1. req' = req
    BY <1>4 DEF ReadAddr, NoRequest, Port!NoRequest
  <2>2. QED
    BY <1>4, <2>1, OneElement DEF ReadAddr, ReadDataBus
<1>5. CASE ReadData
  <2>1. CASE r_q = <<>>
    BY <1>5, <2>1, OneElement DEF ReadData, ReadDataBus, NoRequest, Port!NoRequest
  <2>2. CASE r_q # <<>>
    BY <1>5, <2>2, OneElement, <1>req DEF ReadData, ReadDataBus
  <2>3. QED
    BY <2>1, <2>2
<1>6. QED
  BY <1>1, <1>2, <1>3, <1>4, <1>5 DEF Clock

(* A reset finds the bus quiet and leaves it so. *)
LEMMA ResetBus == ResetOnlyQuiet /\ BusInv /\ Reset => BusInv'
  BY DEF BusInv, States, IdleBus, OnBus, Reset, BusQuiet, Channels, Taken, Given,
         m_axi_awvalid, m_axi_wvalid, m_axi_arvalid

(* The slave serves the one access there is. *)
LEMMA SlaveWriteBus ==
  BusInv /\ SlaveWrite => /\ state = "ST_WRITE_RESP" /\ WriteHeld
                          /\ OnBus(<<active_addr>>, <<Data>>, <<>>, <<>>, <<>>)
                          /\ OnBus(<<>>, <<>>, <<"OKAY">>, <<>>, <<>>)'
                          /\ BusInv'
<1> SUFFICES ASSUME BusInv, SlaveWrite
    PROVE  /\ state = "ST_WRITE_RESP" /\ WriteHeld
           /\ OnBus(<<active_addr>>, <<Data>>, <<>>, <<>>, <<>>)
           /\ OnBus(<<>>, <<>>, <<"OKAY">>, <<>>, <<>>)'
           /\ BusInv'
  OBVIOUS
<1>1. /\ state = "ST_WRITE_RESP" /\ WriteHeld
      /\ OnBus(<<active_addr>>, <<Data>>, <<>>, <<>>, <<>>)
  BY DEF SlaveWrite, BusInv, States, IdleBus, OnBus, WriteCmdBus, WriteRespBus, ReadDataBus
<1>2. OnBus(<<>>, <<>>, <<"OKAY">>, <<>>, <<>>)'
  BY <1>1, OneElement DEF SlaveWrite, OnBus, readys
<1>3. UNCHANGED <<master, core>>
  BY DEF SlaveWrite
<1>4. QED
  BY <1>1, <1>2, <1>3 DEF BusInv, WriteRespBus, WriteHeld, master, core, States

LEMMA SlaveReadBus ==
  BusInv /\ SlaveRead => /\ state = "ST_READ_DATA" /\ ReadHeld
                         /\ OnBus(<<>>, <<>>, <<>>, <<active_addr>>, <<>>)
                         /\ aw_q' = <<>> /\ w_q' = <<>> /\ b_q' = <<>> /\ ar_q' = <<>>
                         /\ r_q' = <<device.word[active_addr]>>
                         /\ BusInv'
<1> SUFFICES ASSUME BusInv, SlaveRead
    PROVE  /\ state = "ST_READ_DATA" /\ ReadHeld
           /\ OnBus(<<>>, <<>>, <<>>, <<active_addr>>, <<>>)
           /\ aw_q' = <<>> /\ w_q' = <<>> /\ b_q' = <<>> /\ ar_q' = <<>>
           /\ r_q' = <<device.word[active_addr]>>
           /\ BusInv'
  OBVIOUS
<1>1. /\ state = "ST_READ_DATA" /\ ReadHeld
      /\ OnBus(<<>>, <<>>, <<>>, <<active_addr>>, <<>>)
  BY DEF SlaveRead, BusInv, States, IdleBus, OnBus, WriteCmdBus, WriteRespBus, ReadDataBus
<1>2. UNCHANGED <<master, core>> /\ active_addr' = active_addr
  BY DEF SlaveRead, master
<1>3. /\ aw_q' = <<>> /\ w_q' = <<>> /\ b_q' = <<>> /\ ar_q' = <<>>
      /\ r_q' = <<device.word[active_addr]>>
  BY <1>1, OneElement DEF SlaveRead, OnBus, readys
<1>4. QED
  BY <1>1, <1>2, <1>3, OneElement
     DEF BusInv, ReadDataBus, ReadHeld, OnBus, master, core, States

THEOREM BusInvariant == ASSUME ResetOnlyQuiet PROVE Spec => []BusInv
<1>1. Init => BusInv
  BY InitBus
<1>2. BusInv /\ [Next]_vars => BusInv'
  <2>1. BusInv /\ Next => BusInv'
    BY ClockBus, ResetBus, SlaveWriteBus, SlaveReadBus DEF Next
  <2>2. BusInv /\ UNCHANGED vars => BusInv'
    BY DEF BusInv, WriteCmdBus, WriteRespBus, ReadDataBus, WriteHeld, ReadHeld, IdleBus,
           OnBus, Data, vars, master, core, queues
  <2>3. QED
    BY <2>1, <2>2
<1>3. QED
  BY <1>1, <1>2, PTL DEF Spec

-----------------------------------------------------------------------------
(* The bus holds what the state of the master says, however the slave paces *)
(* its channels (lines 107-130 of riscv_axi_lite_master.sv).                *)
THEOREM OneInFlightHolds == ASSUME ResetOnlyQuiet PROVE Spec => []OneInFlight
<1>1. BusInv => OneInFlight
  BY OneElement DEF BusInv, States, OneInFlight, InFlight, IdleBus, OnBus, WriteCmdBus,
     WriteRespBus, ReadDataBus
<1>2. QED
  BY <1>1, BusInvariant, PTL

(* A valid that met no ready stays up with the same payload (lines 65-76).  *)
THEOREM ValidHeldHolds == ASSUME ResetOnlyQuiet PROVE Spec => ValidHeld
<1>1. Next => (Clock \/ Reset => ValidStep)
  <2>1. ASSUME Clock PROVE ValidStep
    BY <2>1 DEF Clock, Idle, WriteCmd, WriteResp, ReadAddr, ReadData, ValidStep, Held,
       m_axi_awvalid, m_axi_wvalid, m_axi_arvalid
  <2>2. ASSUME Reset PROVE ValidStep
    BY <2>2 DEF Reset, BusQuiet, ValidStep, Held, m_axi_awvalid, m_axi_wvalid, m_axi_arvalid
  <2>3. QED
    BY <2>1, <2>2
<1>2. QED
  BY <1>1, PTL DEF Spec, ValidHeld

-----------------------------------------------------------------------------
(* The refinement. Between edges the slave performs; an edge issues, takes  *)
(* the answer or does nothing the core could see.                           *)
LEMMA ClockImplements == BusInv /\ Clock => [Port!Next]_(Port!vars)
<1> SUFFICES ASSUME BusInv, Clock PROVE [Port!Next]_(Port!vars)
  OBVIOUS
<1> USE DEF BusInv, States, IdleBus, OnBus, Clock, CoreMem, Channels, Taken, req_ready,
        m_axi_bready, m_axi_rready, m_axi_bvalid, m_axi_rvalid, core, Port!vars
<1>1. CASE state \in {"ST_IDLE", "ST_WRITE_CMD", "ST_READ_ADDR"}
  <2>1. b_q = <<>> /\ r_q = <<>> /\ b_q' = <<>> /\ r_q' = <<>>
    BY <1>1 DEF WriteCmdBus
  <2>2. req = NoRequest => UNCHANGED taken /\ (req' \in Requests \/ req' = req)
    OBVIOUS
  <2>3. req # NoRequest => UNCHANGED core
    BY <1>1
  <2>4. QED
    BY <2>1, <2>2, <2>3 DEF Port!Next, Port!Issue, NoRequest
<1>2. CASE state \in {"ST_WRITE_RESP", "ST_READ_DATA"}
  <2>1. req # NoRequest
    BY <1>2 DEF WriteRespBus, ReadDataBus, WriteHeld, ReadHeld, NoRequest, Port!NoRequest
  <2>2. CASE b_q = <<>> /\ r_q = <<>>
    <3>1. UNCHANGED core /\ b_q' = <<>> /\ r_q' = <<>>
      BY <1>2, <2>1, <2>2
    <3>2. QED
      BY <2>2, <3>1
  <2>3. CASE b_q # <<>> \/ r_q # <<>>
    <3>1. /\ b_q' = <<>> /\ r_q' = <<>>
          /\ taken' = IF r_q # <<>> THEN <<Head(r_q)>> ELSE <<>>
          /\ req' \in Requests \cup {NoRequest}
          /\ UNCHANGED device
      BY <1>2, <2>1, <2>3, OneElement DEF WriteRespBus, ReadDataBus
    <3>2. QED
      BY <2>3, <3>1 DEF Port!Next, Port!Answer, NoRequest
  <2>4. QED
    BY <2>2, <2>3
<1>3. QED
  BY <1>1, <1>2

LEMMA ResetImplements == ResetOnlyQuiet /\ BusInv /\ Reset => Port!Reset
  BY DEF Reset, BusQuiet, Channels, Taken, Port!Reset, NoRequest

LEMMA SlaveImplements == BusInv /\ (SlaveWrite \/ SlaveRead) => Port!Perform
<1>1. ASSUME BusInv, SlaveWrite PROVE Port!Perform
  <2>1. /\ WriteHeld
        /\ OnBus(<<active_addr>>, <<Data>>, <<>>, <<>>, <<>>)
        /\ OnBus(<<>>, <<>>, <<"OKAY">>, <<>>, <<>>)'
    BY <1>1, SlaveWriteBus
  <2>2. UNCHANGED <<req, taken>>
    BY <1>1 DEF SlaveWrite, core
  <2>3. Head(aw_q) = Port!WordAddr(req.addr) /\ Head(w_q).wdata = req.wdata
        /\ Head(w_q).wstrb = req.wstrb
    BY <2>1, OneElement DEF OnBus, WriteHeld, Data, aligned_word_addr, Port!WordAddr
  <2>4. QED
    BY <1>1, <2>1, <2>2, <2>3, OneElement
       DEF SlaveWrite, OnBus, WriteHeld, Port!Perform, Port!NoRequest
<1>2. ASSUME BusInv, SlaveRead PROVE Port!Perform
  <2>1. /\ ReadHeld
        /\ OnBus(<<>>, <<>>, <<>>, <<active_addr>>, <<>>)
        /\ aw_q' = <<>> /\ w_q' = <<>> /\ b_q' = <<>> /\ ar_q' = <<>>
        /\ r_q' = <<device.word[active_addr]>>
    BY <1>2, SlaveReadBus
  <2>2. UNCHANGED <<req, taken>> /\ device' = Port!Used(device)
    BY <1>2 DEF SlaveRead, core
  <2>3. active_addr = Port!WordAddr(req.addr)
    BY <2>1 DEF ReadHeld, aligned_word_addr, Port!WordAddr
  <2>4. QED
    BY <2>1, <2>2, <2>3, OneElement DEF OnBus, ReadHeld, Port!Perform, Port!NoRequest
<1>3. QED
  BY <1>1, <1>2

(* Whatever requests the core makes and however slow the slave, every       *)
(* access is performed once and answered with its own result: the master    *)
(* implements PeriphPort.                                                   *)
THEOREM MasterImplementsPort == ASSUME ResetOnlyQuiet PROVE Spec => ImplementsPort
<1>1. Init => Port!Init
  BY DEF Init, Port!Init, NoRequest
<1>2. BusInv /\ [Next]_vars => [Port!Next]_(Port!vars)
  <2>1. BusInv /\ Next => [Port!Next]_(Port!vars)
    BY ClockImplements, ResetImplements, SlaveImplements DEF Next, Port!Next
  <2>2. UNCHANGED vars => UNCHANGED Port!vars
    BY DEF vars, core, queues, Port!vars
  <2>3. QED
    BY <2>1, <2>2
<1>3. QED
  BY <1>1, <1>2, BusInvariant, PTL DEF Spec, ImplementsPort, Port!Spec
=============================================================================
