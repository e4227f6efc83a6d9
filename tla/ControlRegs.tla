---------------------------- MODULE ControlRegs -----------------------------
(* What the control slave promises its bus master: a write changes the      *)
(* control register once, some time between its request and its response; a *)
(* read returns what the register held some time between the two; the       *)
(* status register is the reset bit of the control register, negated.       *)
EXTENDS Integers

CONSTANTS Byte, Offsets, Payloads

Lanes == 0 .. 3
Zero  == [i \in Lanes |-> 0]
CpuStartsInReset == [Zero EXCEPT ![0] = 1]
CpuRunning(c) == c[0] % 2 = 0

NoWrite == [offset |-> "none"]
Writes == [offset : Offsets, payload : Payloads]

(* Four slots of a word each: control, status and two free ones.            *)
Slot(offset) == (offset \div 4) % 4
ReadWord(c, offset) ==
  CASE Slot(offset) = 0 -> c
    [] Slot(offset) = 1 -> [Zero EXCEPT ![0] = IF CpuRunning(c) THEN 1 ELSE 0]
    [] OTHER            -> Zero
WriteWord(c, w) ==
  [i \in Lanes |-> IF Slot(w.offset) = 0 /\ i \in w.payload.wstrb
                   THEN w.payload.wdata[i] ELSE c[i]]

VARIABLES ctrl,           \* the control register
          write, written, \* the write requested, and whether it was performed
          read, result    \* the offset read (<<>> if none), <<its result>>

vars == <<ctrl, write, written, read, result>>

Init == /\ ctrl = CpuStartsInReset
        /\ write = NoWrite /\ written = FALSE
        /\ read = <<>> /\ result = <<>>

WriteStep ==
  \/ UNCHANGED <<ctrl, write, written>>
  \/ /\ write = NoWrite /\ ~written
     /\ write' \in Writes
     /\ UNCHANGED <<ctrl, written>>
  \/ /\ write # NoWrite
     /\ ctrl' = WriteWord(ctrl, write)
     /\ write' = NoWrite /\ written' = TRUE
  \/ /\ written
     /\ written' = FALSE /\ write' \in Writes \cup {NoWrite}
     /\ UNCHANGED ctrl

ReadStep ==
  \/ UNCHANGED <<read, result>>
  \/ /\ read = <<>>
     /\ read' \in {<<o>> : o \in Offsets}
     /\ UNCHANGED result
  \/ /\ read # <<>> /\ result = <<>>
     /\ result' = <<ReadWord(ctrl, read[1])>>
     /\ UNCHANGED read
  \/ /\ result # <<>>
     /\ result' = <<>> /\ read' \in {<<>>} \cup {<<o>> : o \in Offsets}

(* aresetn clears the slave and, on the other side, the interconnect.       *)
Reset == /\ ctrl' = CpuStartsInReset
         /\ write' = NoWrite /\ written' = FALSE
         /\ read' = <<>> /\ result' = <<>>

Next == (WriteStep /\ ReadStep) \/ Reset
Spec == Init /\ [][Next]_vars
=============================================================================
