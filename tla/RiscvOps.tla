------------------------------ MODULE RiscvOps ------------------------------
(* The combinational blocks against the instruction set, for every operand: *)
(* decoder and ALU, decoder and branch comparator, decoder and load/store   *)
(* unit. A state is one instruction with its operand values.                *)
EXTENDS RiscvAlu, RiscvDecode, RiscvLsu, RiscvIsaOps

CONSTANTS Opcodes, Operands

VARIABLES opcode, funct3, funct7, a, b
vars == <<opcode, funct3, funct7, a, b>>

(* Encodings that exist: funct7 matters for OP and for the two right shifts *)
(* of OP_IMM; branches and accesses have their own funct3.                  *)
Encodings ==
  [OP_IMM |-> {<<f, 0>> : f \in 0 .. 7} \cup {<<5, 32>>},
   OP     |-> {<<f, 0>> : f \in 0 .. 7} \cup {<<0, 32>>, <<5, 32>>},
   BRANCH |-> {<<f, 0>> : f \in {0, 1, 4, 5, 6, 7}},
   LOAD   |-> {<<f, 0>> : f \in {0, 1, 2, 4, 5}},
   STORE  |-> {<<f, 0>> : f \in {0, 1, 2}}]

Init ==
  /\ opcode \in Opcodes
  /\ \E e \in Encodings[opcode] : funct3 = e[1] /\ funct7 = e[2]
  /\ a \in Operands /\ b \in Operands
Next == UNCHANGED vars
Spec == Init /\ [][Next]_vars

op == Decode([opcode |-> opcode, funct3 |-> funct3, funct7 |-> funct7,
              rd |-> 1, rs1 |-> 2, rs2 |-> 3, imm |-> b, sys |-> "none"])

(* An integer instruction decodes to the ALU operation that computes it.    *)
AluImplements ==
  opcode \in {"OP", "OP_IMM"} =>
    /\ AluResult(op.alu_op, a, b)
         = Wrap(IntegerOp(funct3, funct7 = 32, a, b))
    /\ op.reg_write /\ op.use_rs1 /\ op.use_rs2 = (opcode = "OP")

(* A branch decodes to the comparison that decides it.                      *)
BranchImplements ==
  opcode = "BRANCH" => BranchCond(op.branch_kind, a, b) = Taken(funct3, a, b)

Memory(word) == [k \in 0 .. 3 |-> Lane(word, k)]
Aligned(offset) == offset % AccessBytes(funct3) = 0

(* A load picks the bytes at its offset, sign- or zero-extended.            *)
LoadImplements ==
  opcode = "LOAD" =>
    \A offset \in {o \in 0 .. 3 : Aligned(o)} :
      LsuLoadData(op.mem_size, op.mem_unsigned, offset, a)
        = Wrap(LoadedValue(Memory(a), funct3, offset))

(* A store writes its bytes at its offset and leaves the others alone.      *)
StoreImplements ==
  opcode = "STORE" =>
    \A offset \in {o \in 0 .. 3 : Aligned(o)} :
      Memory(MergeLanes(a, LsuWriteData(op.mem_size, offset, b),
                        LsuWstrb(op.mem_size, offset)))
        = StoredMemory(Memory(a), funct3, offset, b)
=============================================================================
