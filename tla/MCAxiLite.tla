----------------------------- MODULE MCAxiLite ------------------------------
(* The two ends of AXI4-Lite in the wrapper, which are on different buses   *)
(* and share nothing: the master of the data side and the control slave. A  *)
(* behaviour is about one of them (side); the other rests as it was reset.  *)
EXTENDS AxiLiteMaster, AxiLiteControl, TLC

CONSTANT Sides
VARIABLE side
axiVars == <<side, vars, controlVars>>

(* For the master: two words of a device, and accesses that overlap in      *)
(* address and lanes.                                                       *)
MCSides == {"master", "control"}
MCByte == {0, 1}
Fill(x) == [i \in 0 .. 3 |-> x]
MCDevice == (0 :> Fill(0)) @@ (4 :> Fill(1))
Load(a) == [kind |-> "read", addr |-> a]
Store(a, x, lanes) == [kind |-> "write", addr |-> a, wdata |-> Fill(x), wstrb |-> lanes]
MCRequests ==
  {Load(0), Load(6), Store(0, 1, 0 .. 3), Store(2, 1, {2, 3}), Store(5, 0, {1})}

(* For the slave: writes that hold and release the core and one that leaves *)
(* lane 0 alone, to the control register, the read-only status register (by *)
(* the address of a byte in it) and a free slot.                            *)
Put(x, lanes) == [wdata |-> Fill(x), wstrb |-> lanes]
Writes3 == {Put(0, {0, 1}), Put(1, {0}), Put(1, {2})}
AllOffsets == {0, 5, 8}

AxiInit ==
  /\ side \in Sides
  /\ Init /\ ControlInit
  /\ side = "control" => req = NoRequest /\ ~awready /\ ~wready /\ ~arready
MasterStep(A)  == side = "master"  /\ A /\ UNCHANGED <<side, controlVars>>
ControlStep(A) == side = "control" /\ A /\ UNCHANGED <<side, vars>>
AxiNext == MasterStep(Next) \/ ControlStep(ControlNext)
AxiSpec == AxiInit /\ [][AxiNext]_axiVars

(* Fairness and ControlLiveSpec's condition, each on its side.              *)
AxiLiveSpec ==
  /\ AxiSpec
  /\ WF_axiVars(MasterStep(Clock /\ awready')) /\ WF_axiVars(MasterStep(Clock /\ wready'))
  /\ WF_axiVars(MasterStep(Clock /\ arready'))
  /\ WF_axiVars(MasterStep(SlaveWrite)) /\ WF_axiVars(MasterStep(SlaveRead))
  /\ WF_axiVars(ControlStep(ControlClock))
=============================================================================
