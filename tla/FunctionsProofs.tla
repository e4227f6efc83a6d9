------------------------------- MODULE FunctionsProofs ----------------------
(* Proofs about the runs of MCFunctions: the RV32M units deliver the result *)
(* of the instruction set and the combinational blocks compute it, for     *)
(* every width of the datapath, every operand and every pattern of stalls. *)
EXTENDS MCFunctions, RiscvOpsProofs

(* The units of the instance are those the lemmas are about.                *)
LEMMA UnitNames ==
  /\ Unit!ALU_MUL_OPS = ALU_MUL_OPS /\ Unit!ALU_DIV_OPS = ALU_DIV_OPS
  /\ Unit!XLEN = XLEN /\ Unit!Word = Word
  /\ Unit!MulIdle = MulIdle /\ Unit!DivIdle = DivIdle
BY DEF Unit!ALU_MUL_OPS, ALU_MUL_OPS, Unit!ALU_DIV_OPS, ALU_DIV_OPS, Unit!XLEN, XLEN, Unit!Word, Word,
       Unit!MulIdle, MulIdle, Unit!DivIdle, DivIdle

LEMMA UnitWords ==
  ASSUME NEW x, NEW y, NEW i
  PROVE  /\ Unit!Wrap(x) = Wrap(x) /\ Unit!Signed(x) = Signed(x) /\ Unit!SignBit(x) = SignBit(x)
         /\ Unit!Bit(x, i) = Bit(x, i) /\ Unit!BitNot(x) = BitNot(x) /\ Unit!Negate(x) = Negate(x)
         /\ Unit!Magnitude(i, x) = Magnitude(i, x) /\ Unit!MulExtA(i, x) = MulExtA(i, x)
         /\ Unit!MulExtB(i, x) = MulExtB(i, x) /\ Unit!MulResult(x) = MulResult(x)
         /\ Unit!Divide(x, y) = Divide(x, y) /\ Unit!Remainder(x, y) = Remainder(x, y)
         /\ Unit!MulDivOp(i, x, y) = MulDivOp(i, x, y)
BY DEF Unit!XLEN, XLEN, Unit!Wrap, Wrap, Unit!Signed, Signed, Unit!SignBit, SignBit, Unit!Bit, Bit,
       Unit!BitNot, BitNot, Unit!Negate, Negate, Unit!Magnitude, Magnitude, Unit!MulExtA, MulExtA,
       Unit!MulExtB, MulExtB, Unit!MulResult, MulResult, Unit!Divide, Divide, Unit!Remainder, Remainder,
       Unit!Truncated, Truncated, Unit!Abs, Abs, Unit!MulDivOp, MulDivOp

LEMMA UnitEdges ==
  ASSUME NEW u, NEW start, NEW o, NEW x, NEW y, NEW stall
  PROVE  /\ Unit!MulNext(u, start, o, x, y, stall) = MulNext(u, start, o, x, y, stall)
         /\ Unit!DivNext(u, start, o, x, y, stall) = DivNext(u, start, o, x, y, stall)
         /\ Unit!MulStart(x, o, u, stall) = MulStart(x, o, u, stall)
         /\ Unit!DivStartNow(x, o, u, stall) = DivStartNow(x, o, u, stall)
         /\ Unit!MStall(x, o, u, y) = MStall(x, o, u, y)
BY DEF Unit!XLEN, XLEN, Unit!Wrap, Wrap, Unit!Signed, Signed, Unit!SignBit, SignBit, Unit!Bit, Bit,
       Unit!BitNot, BitNot, Unit!Negate, Negate, Unit!Magnitude, Magnitude, Unit!MulExtA, MulExtA,
       Unit!MulExtB, MulExtB, Unit!MulNext, MulNext, Unit!DivNext, DivNext, Unit!DivStart, DivStart,
       Unit!DivStep, DivStep, Unit!MulStart, MulStart, Unit!DivStartNow, DivStartNow,
       Unit!MStall, MStall, Unit!ALU_MUL_OPS, ALU_MUL_OPS, Unit!ALU_DIV_OPS, ALU_DIV_OPS

-----------------------------------------------------------------------------
(* The units with the instruction in EX. Between instructions they are      *)
(* idle, whatever the registers still hold.                                 *)
UnitIdle == ~mul.busy /\ ~mul.done /\ ~div.busy /\ ~div.done
UnitInv ==
  /\ ex \in [valid : BOOLEAN, funct3 : 0 .. 7, a : Word, b : Word]
  /\ mul \in MulRegs /\ div \in DivRegs
  /\ ~ex.valid => UnitIdle
  /\ ex.valid => MulOk(mul, Unit!Op, ex.a, ex.b) /\ DivOk(div, Unit!Op, ex.a, ex.b)

LEMMA IdleUnits ==
  ASSUME mul \in MulRegs, div \in DivRegs, UnitIdle, NEW o, NEW x, NEW y
  PROVE  MulOk(mul, o, x, y) /\ DivOk(div, o, x, y)
BY DEF UnitIdle, MulOk, DivOk

LEMMA UnitRegs ==
  /\ {MulIdle, Unit!StaleMul} \subseteq MulRegs /\ {DivIdle, Unit!StaleDiv} \subseteq DivRegs
  /\ \A u \in {MulIdle, Unit!StaleMul, DivIdle, Unit!StaleDiv} : ~u.busy /\ ~u.done
<1>1. 0 \in Word /\ 1 \in Word /\ 0 \in 0 .. XLEN - 1 /\ XLEN - 1 \in 0 .. XLEN - 1 /\ XLEN \in Nat /\ XLEN * XLEN \in Int
  BY XlenPow
<1>2. MulIdle \in MulRegs /\ ~MulIdle.busy /\ ~MulIdle.done
  BY DEF MulIdle, MulRegs, ALU_MUL_OPS
<1>3. DivIdle \in DivRegs /\ ~DivIdle.busy /\ ~DivIdle.done
  BY <1>1 DEF DivIdle, DivRegs, ALU_DIV_OPS
<1>4. PICK k : k = XLEN * XLEN
  OBVIOUS
<1>5. Unit!StaleMul = [MulIdle EXCEPT !.op = "MULHU", !.a = XLEN, !.b = XLEN, !.product = k]
  BY <1>4, UnitNames DEF Unit!StaleMul
<1>6. Unit!StaleMul \in MulRegs /\ ~Unit!StaleMul.busy /\ ~Unit!StaleMul.done
  <2>1. PICK x : x = XLEN
    OBVIOUS
  <2>2. Unit!StaleMul = [MulIdle EXCEPT !.op = "MULHU", !.a = x, !.b = x, !.product = k]
    BY <1>5, <2>1
  <2>3. x \in Int /\ k \in Int
    BY <1>1, <1>4, <2>1
  <2>4. "MULHU" \in ALU_MUL_OPS
    BY DEF ALU_MUL_OPS
  <2>5. Unit!StaleMul \in MulRegs
    BY ONLY <1>2, <2>2, <2>3, <2>4 DEF MulRegs
  <2>6. Unit!StaleMul.busy = MulIdle.busy /\ Unit!StaleMul.done = MulIdle.done
    BY ONLY <1>2, <2>2 DEF MulRegs
  <2> QED BY <1>2, <2>5, <2>6
<1>7. Unit!StaleDiv = [DivIdle EXCEPT !.op = "REM", !.count = XLEN - 1, !.divisor = 1,
                         !.quotient = XLEN, !.remainder_neg = TRUE]
  BY UnitNames DEF Unit!StaleDiv
<1>8. Unit!StaleDiv \in DivRegs /\ ~Unit!StaleDiv.busy /\ ~Unit!StaleDiv.done
  BY <1>1, <1>7 DEF DivIdle, DivRegs, ALU_DIV_OPS
<1> QED BY <1>2, <1>3, <1>6, <1>8

LEMMA UnitInit == Unit!Init => UnitInv
<1>1. SUFFICES ASSUME Unit!Init PROVE UnitInv
  OBVIOUS
<1>2. mul \in {MulIdle, Unit!StaleMul} /\ div \in {DivIdle, Unit!StaleDiv} /\ ex = Unit!NoInstr
  BY <1>1, UnitNames DEF Unit!Init
<1>3. mul \in MulRegs /\ div \in DivRegs /\ UnitIdle
  BY <1>2, UnitRegs DEF UnitIdle
<1>4. ex \in [valid : BOOLEAN, funct3 : 0 .. 7, a : Word, b : Word] /\ ~ex.valid
  BY <1>2, XlenPow DEF Unit!NoInstr
<1> QED BY <1>3, <1>4 DEF UnitInv

LEMMA ArriveKeeps ==
  ASSUME UnitInv, NEW f \in 0 .. 7, NEW x \in Word, NEW y \in Word, Unit!Arrive(f, x, y)
  PROVE  UnitInv'
<1>1. ~ex.valid /\ ex' = [valid |-> TRUE, funct3 |-> f, a |-> x, b |-> y] /\ mul' = mul /\ div' = div
  BY DEF Unit!Arrive
<1>2. mul \in MulRegs /\ div \in DivRegs /\ UnitIdle
  BY <1>1 DEF UnitInv
<1>3. UnitIdle'
  BY <1>1, <1>2 DEF UnitIdle
<1>4. mul' \in MulRegs /\ div' \in DivRegs /\ Word' = Word
  BY <1>1, <1>2
<1>5. ex'.valid /\ ex' \in [valid : BOOLEAN, funct3 : 0 .. 7, a : Word, b : Word]
  BY <1>1
<1>6. MulOk(mul', Unit!Op', ex'.a, ex'.b) /\ DivOk(div', Unit!Op', ex'.a, ex'.b)
  BY <1>1, <1>2, IdleUnits
<1> QED BY <1>1, <1>2, <1>4, <1>5, <1>6 DEF UnitInv

(* A clock edge of both units, with the operands there if one starts.       *)
LEMMA UnitsKeep ==
  ASSUME UnitInv, ex.valid, NEW x, NEW y, NEW stall \in BOOLEAN,
         ~mul.busy /\ ~div.busy /\ Unit!MStall(TRUE, Unit!Op, mul, div) => x = ex.a /\ y = ex.b,
         Unit!Units(x, y, stall)
  PROVE  /\ MulOk(mul', Unit!Op, ex.a, ex.b) /\ DivOk(div', Unit!Op, ex.a, ex.b)
         /\ mul' \in MulRegs /\ div' \in DivRegs
         /\ (mul.done /\ ~stall => ~mul'.busy /\ ~mul'.done)
         /\ (div.done /\ ~stall => ~div'.busy /\ ~div'.done)
<1>1. PICK o, p, q : o = Unit!Op /\ p = ex.a /\ q = ex.b
  OBVIOUS
<1>2. MulOk(mul, o, p, q) /\ DivOk(div, o, p, q) /\ p \in Word /\ q \in Word
  BY <1>1 DEF UnitInv
<1>3. PICK s, t : s = MulStart(TRUE, o, mul, stall) /\ t = DivStartNow(TRUE, o, div, stall)
  OBVIOUS
<1>4. mul' = MulNext(mul, s, o, x, y, stall) /\ div' = DivNext(div, t, o, x, y, stall)
  <2>1. s = Unit!MulStart(TRUE, o, mul, stall) /\ t = Unit!DivStartNow(TRUE, o, div, stall)
    BY <1>3, UnitEdges
  <2>2. mul' = Unit!MulNext(mul, s, o, x, y, stall) /\ div' = Unit!DivNext(div, t, o, x, y, stall)
    BY <1>1, <2>1 DEF Unit!Units
  <2> QED BY <2>2, UnitEdges
<1>5. ~mul.busy /\ ~div.busy /\ MStall(TRUE, o, mul, div) => x = p /\ y = q
  BY <1>1, UnitEdges
<1>6. s => x = p /\ y = q
  <2>1. ASSUME s PROVE x = p /\ y = q
    <3>1. o \in ALU_MUL_OPS /\ ~mul.busy /\ ~mul.done
      BY <1>3, <2>1 DEF MulStart
    <3>2. ~div.busy
      BY <1>2, <3>1 DEF DivOk, ALU_MUL_OPS, ALU_DIV_OPS
    <3> QED BY <1>5, <3>1, <3>2 DEF MStall
  <2> QED BY <2>1
<1>7. t => x = p /\ y = q
  <2>1. ASSUME t PROVE x = p /\ y = q
    <3>1. o \in ALU_DIV_OPS /\ ~div.busy /\ ~div.done
      BY <1>3, <2>1 DEF DivStartNow
    <3>2. ~mul.busy
      BY <1>2, <3>1 DEF MulOk, ALU_MUL_OPS, ALU_DIV_OPS
    <3> QED BY <1>5, <3>1, <3>2 DEF MStall
  <2> QED BY <2>1
<1>8. MulOk(mul', o, p, q) /\ (mul.done /\ ~stall => ~mul'.busy /\ ~mul'.done)
  <2>1. /\ p \in Word /\ q \in Word /\ MulOk(mul, o, p, q)
        /\ s = MulStart(TRUE, o, mul, stall) /\ mul' = MulNext(mul, s, o, x, y, stall)
    BY <1>2, <1>3, <1>4
  <2> QED BY ONLY <2>1, <1>6, stall \in BOOLEAN, MulEdge, ZenonT(30)
<1>9. DivOk(div', o, p, q) /\ (div.done /\ ~stall => ~div'.busy /\ ~div'.done)
  <2>1. /\ p \in Word /\ q \in Word /\ DivOk(div, o, p, q)
        /\ t = DivStartNow(TRUE, o, div, stall) /\ div' = DivNext(div, t, o, x, y, stall)
    BY <1>2, <1>3, <1>4
  <2> QED BY ONLY <2>1, <1>7, stall \in BOOLEAN, DivEdge, ZenonT(30)
<1> QED BY <1>1, <1>8, <1>9 DEF MulOk, DivOk

LEMMA WaitKeeps ==
  ASSUME UnitInv, NEW stall \in BOOLEAN, Unit!Wait(stall) PROVE UnitInv'
<1>1. ex.valid /\ Unit!MStall(TRUE, Unit!Op, mul, div) /\ ex' = ex
  BY DEF Unit!Wait
<1>2. PICK x, y : /\ Unit!Units(x, y, stall)
                  /\ ~mul.busy /\ ~div.busy => x = ex.a /\ y = ex.b
  <2>1. CASE mul.busy \/ div.busy
    <3>1. Unit!Units(0, 0, stall)
      BY <2>1 DEF Unit!Wait
    <3> QED BY <2>1, <3>1
  <2>2. CASE ~(mul.busy \/ div.busy)
    <3>1. Unit!Units(ex.a, ex.b, stall)
      BY <2>2 DEF Unit!Wait
    <3> QED BY <2>2, <3>1
  <2> QED BY <2>1, <2>2
<1>3. /\ MulOk(mul', Unit!Op, ex.a, ex.b) /\ DivOk(div', Unit!Op, ex.a, ex.b)
      /\ mul' \in MulRegs /\ div' \in DivRegs
  BY <1>1, <1>2, UnitsKeep
<1>4. Unit!Op' = Unit!Op
  BY <1>1 DEF Unit!Op
<1> QED BY <1>1, <1>3, <1>4 DEF UnitInv

LEMMA LeaveKeeps ==
  ASSUME UnitInv, Unit!Leave PROVE UnitInv'
<1>1. ex.valid /\ ~Unit!MStall(TRUE, Unit!Op, mul, div) /\ ex' = Unit!NoInstr /\ Unit!Units(0, 0, FALSE)
  BY DEF Unit!Leave
<1>2. PICK o : o = Unit!Op
  OBVIOUS
<1>3. /\ MulOk(mul', o, ex.a, ex.b) /\ DivOk(div', o, ex.a, ex.b)
      /\ mul' \in MulRegs /\ div' \in DivRegs
      /\ (mul.done => ~mul'.busy /\ ~mul'.done) /\ (div.done => ~div'.busy /\ ~div'.done)
  BY <1>1, <1>2, UnitsKeep
<1>4. (o \in ALU_MUL_OPS => mul.done) /\ (o \in ALU_DIV_OPS => div.done)
  BY <1>1, <1>2, UnitEdges DEF MStall
<1>5. UnitIdle'
  <2>1. ~mul'.busy /\ ~mul'.done
    BY <1>3, <1>4 DEF MulOk
  <2>2. ~div'.busy /\ ~div'.done
    BY <1>3, <1>4 DEF DivOk
  <2> QED BY <2>1, <2>2 DEF UnitIdle
<1>6. ex' \in [valid : BOOLEAN, funct3 : 0 .. 7, a : Word, b : Word] /\ ~ex'.valid
  BY <1>1, XlenPow DEF Unit!NoInstr
<1> QED BY <1>3, <1>5, <1>6 DEF UnitInv

LEMMA ResetKeeps == ASSUME Unit!Reset PROVE UnitInv'
<1>1. mul' = MulIdle /\ div' = DivIdle /\ ex' = Unit!NoInstr
  BY UnitNames DEF Unit!Reset
<1>2. mul' \in MulRegs /\ div' \in DivRegs /\ UnitIdle'
  BY <1>1, UnitRegs DEF UnitIdle
<1>3. ex' \in [valid : BOOLEAN, funct3 : 0 .. 7, a : Word, b : Word] /\ ~ex'.valid
  BY <1>1, XlenPow DEF Unit!NoInstr
<1> QED BY <1>2, <1>3 DEF UnitInv

LEMMA UnitNext == ASSUME UnitInv, Unit!Next PROVE UnitInv'
<1>1. CASE \E f \in 0 .. 7, x \in Unit!Word, y \in Unit!Word : Unit!Arrive(f, x, y)
  BY <1>1, ArriveKeeps, UnitNames
<1>2. CASE \E stall \in BOOLEAN : Unit!Wait(stall)
  BY <1>2, WaitKeeps
<1>3. CASE Unit!Leave
  BY <1>3, LeaveKeeps
<1>4. CASE Unit!Reset
  BY <1>4, ResetKeeps
<1> QED BY <1>1, <1>2, <1>3, <1>4 DEF Unit!Next

LEMMA UnitSafe == UnitInv => Unit!DivisionInvariant /\ Unit!UnitResult
<1>1. SUFFICES ASSUME UnitInv PROVE Unit!DivisionInvariant /\ Unit!UnitResult
  OBVIOUS
<1>2. Unit!DivisionInvariant
  <2>1. SUFFICES ASSUME div.busy
                 PROVE  LET dividend == Magnitude(div.op, ex.a)
                            divisor  == Magnitude(div.op, ex.b)
                        IN  /\ div.remainder < divisor
                            /\ dividend \div 2^(XLEN - div.count) = divisor * div.quotient + div.remainder
    BY UnitWords, UnitNames DEF Unit!DivisionInvariant
  <2>2. Dividing(div, ex.a, ex.b)
    BY <1>1, <2>1 DEF UnitInv, UnitIdle, DivOk
  <2> QED BY <2>2 DEF Dividing, Halfway
<1>3. Unit!UnitResult
  <2>1. SUFFICES ASSUME ex.valid, mul.done \/ div.done
                 PROVE  Unit!Result = Wrap(MulDivOp(ex.funct3, ex.a, ex.b))
    BY UnitWords DEF Unit!UnitResult
  <2>2. PICK o : o = Unit!Op
    OBVIOUS
  <2>3. Unit!Result = IF o \in ALU_MUL_OPS THEN MulResult(mul) ELSE div.result
    BY <2>2, UnitWords, UnitNames DEF Unit!Result
  <2>4. o = OpName(ex.funct3)
    BY <2>2 DEF Unit!Op, Unit!OpOf, OpName
  <2>5. /\ ex.funct3 \in 0 .. 7 /\ ex.a \in Word /\ ex.b \in Word
        /\ MulOk(mul, o, ex.a, ex.b) /\ DivOk(div, o, ex.a, ex.b)
    BY <1>1, <2>1, <2>2 DEF UnitInv
  <2>6. PICK f, x, y, u, w : f = ex.funct3 /\ x = ex.a /\ y = ex.b /\ u = mul /\ w = div
    OBVIOUS
  <2>7. /\ f \in 0 .. 7 /\ x \in Word /\ y \in Word /\ MulOk(u, o, x, y) /\ DivOk(w, o, x, y)
        /\ u.done \/ w.done
        /\ o = OpName(f)
    BY <2>1, <2>4, <2>5, <2>6
  <2>8. (IF o \in ALU_MUL_OPS THEN MulResult(u) ELSE w.result) = Wrap(MulDivOp(f, x, y))
    BY ONLY <2>7, Delivered
  <2> QED BY <2>3, <2>6, <2>8
<1> QED BY <1>2, <1>3

(* Every RV32M instruction gets its result from the multicycle units, for   *)
(* every width of the datapath, every operand and every pattern of memory   *)
(* stalls (riscv_core.sv).                                                  *)
THEOREM UnitDelivers == Spec => []UnitResult
<1> DEFINE Inv == part = "unit" => UnitInv
<1>1. Init => Inv
  BY UnitInit DEF Init
<1>2. Inv /\ [Next]_vars => Inv'
  <2>1. SUFFICES ASSUME Inv, [Next]_vars PROVE Inv'
    OBVIOUS
  <2>2. part' = part
    BY <2>1 DEF Next, UnitStep, vars, others
  <2>3. SUFFICES ASSUME part = "unit" PROVE UnitInv'
    BY <2>2
  <2>4. CASE Unit!Next
    BY <2>1, <2>3, <2>4, UnitNext
  <2>5. CASE UNCHANGED vars
    <3>1. mul' = mul /\ div' = div /\ ex' = ex
      BY <2>5 DEF vars
    <3>2. Unit!Op' = Unit!Op
      BY <3>1 DEF Unit!Op
    <3> QED BY <2>1, <2>3, <3>1, <3>2 DEF UnitInv, UnitIdle
  <2> QED BY <2>1, <2>3, <2>4, <2>5 DEF Next, UnitStep
<1>3. Inv => UnitResult
  BY UnitSafe DEF UnitResult
<1> HIDE DEF Inv
<1> QED BY <1>1, <1>2, <1>3, PTL DEF Spec

-----------------------------------------------------------------------------
(* The combinational blocks.                                                *)
LEMMA OpsWords ==
  ASSUME NEW x, NEW y, NEW i
  PROVE  /\ Ops!XLEN = XLEN /\ Ops!Word = Word /\ Ops!Wrap(x) = Wrap(x) /\ Ops!Signed(x) = Signed(x)
         /\ Ops!Bit(x, i) = Bit(x, i) /\ Ops!Field(x, y, i) = Field(x, y, i) /\ Ops!Lane(x, i) = Lane(x, i)
         /\ Ops!OfBits(x) = OfBits(x) /\ Ops!BitAnd(x, y) = BitAnd(x, y)
         /\ Ops!BitOr(x, y) = BitOr(x, y) /\ Ops!BitXor(x, y) = BitXor(x, y)
BY DEF Ops!XLEN, XLEN, Ops!Word, Word, Ops!Wrap, Wrap, Ops!SignBit, SignBit, Ops!Signed, Signed,
       Ops!Bit, Bit, Ops!Field, Field, Ops!Lane, Lane, Ops!OfBits, OfBits, Ops!BitAnd, BitAnd,
       Ops!BitOr, BitOr, Ops!BitXor, BitXor

LEMMA OpsBlocks ==
  ASSUME NEW x, NEW y, NEW i, NEW j
  PROVE  /\ Ops!AluResult(i, x, y) = AluResult(i, x, y) /\ Ops!BranchCond(i, x, y) = BranchCond(i, x, y)
         /\ Ops!IntegerOp(i, j, x, y) = IntegerOp(i, j, x, y) /\ Ops!Taken(i, x, y) = Taken(i, x, y)
<1>1. Ops!AluResult(i, x, y) = AluResult(i, x, y)
  BY DEF Ops!XLEN, XLEN, Ops!Word, Word, Ops!Wrap, Wrap, Ops!SignBit, SignBit, Ops!Signed, Signed,
      Ops!Bit, Bit, Ops!Field, Field, Ops!Lane, Lane, Ops!OfBits, OfBits, Ops!BitAnd, BitAnd,
      Ops!BitOr, BitOr, Ops!BitXor, BitXor,
      Ops!AluResult, AluResult, Ops!Shamt, Shamt, Ops!ALU_MUL_OPS, ALU_MUL_OPS, Ops!ALU_DIV_OPS, ALU_DIV_OPS
<1>2. Ops!BranchCond(i, x, y) = BranchCond(i, x, y)
  BY DEF Ops!XLEN, XLEN, Ops!Word, Word, Ops!Wrap, Wrap, Ops!SignBit, SignBit, Ops!Signed, Signed,
      Ops!Bit, Bit, Ops!Field, Field, Ops!Lane, Lane, Ops!OfBits, OfBits, Ops!BitAnd, BitAnd,
      Ops!BitOr, BitOr, Ops!BitXor, BitXor,
      Ops!BranchCond, BranchCond
<1>3. Ops!IntegerOp(i, j, x, y) = IntegerOp(i, j, x, y)
  BY DEF Ops!XLEN, XLEN, Ops!Word, Word, Ops!Wrap, Wrap, Ops!SignBit, SignBit, Ops!Signed, Signed,
      Ops!Bit, Bit, Ops!Field, Field, Ops!Lane, Lane, Ops!OfBits, OfBits, Ops!BitAnd, BitAnd,
      Ops!BitOr, BitOr, Ops!BitXor, BitXor,
      Ops!IntegerOp, IntegerOp
<1>4. Ops!Taken(i, x, y) = Taken(i, x, y)
  BY DEF Ops!XLEN, XLEN, Ops!Word, Word, Ops!Wrap, Wrap, Ops!SignBit, SignBit, Ops!Signed, Signed,
      Ops!Bit, Bit, Ops!Field, Field, Ops!Lane, Lane, Ops!OfBits, OfBits, Ops!BitAnd, BitAnd,
      Ops!BitOr, BitOr, Ops!BitXor, BitXor,
      Ops!Taken, Taken
<1> QED BY <1>1, <1>2, <1>3, <1>4

LEMMA OpsLsu ==
  ASSUME NEW x, NEW y, NEW i, NEW j
  PROVE  /\ Ops!LsuWstrb(i, j) = LsuWstrb(i, j) /\ Ops!LsuWriteData(i, j, x) = LsuWriteData(i, j, x)
         /\ Ops!LsuLoadData(i, y, j, x) = LsuLoadData(i, y, j, x) /\ Ops!MergeLanes(x, y, i) = MergeLanes(x, y, i)
         /\ Ops!LoadedValue(x, i, j) = LoadedValue(x, i, j) /\ Ops!StoredMemory(x, i, j, y) = StoredMemory(x, i, j, y)
         /\ Ops!AccessBytes(i) = AccessBytes(i)
<1>1. Ops!LsuWstrb(i, j) = LsuWstrb(i, j)
  BY DEF Ops!LsuWstrb, LsuWstrb, Ops!Lanes, Lanes
<1>2. Ops!LsuWriteData(i, j, x) = LsuWriteData(i, j, x)
  BY DEF Ops!XLEN, XLEN, Ops!Word, Word, Ops!Wrap, Wrap, Ops!SignBit, SignBit, Ops!Signed, Signed,
      Ops!Bit, Bit, Ops!Field, Field, Ops!Lane, Lane, Ops!OfBits, OfBits, Ops!BitAnd, BitAnd,
      Ops!BitOr, BitOr, Ops!BitXor, BitXor,
      Ops!LsuWriteData, LsuWriteData
<1>3. Ops!LsuLoadData(i, y, j, x) = LsuLoadData(i, y, j, x)
  BY DEF Ops!XLEN, XLEN, Ops!Word, Word, Ops!Wrap, Wrap, Ops!SignBit, SignBit, Ops!Signed, Signed,
      Ops!Bit, Bit, Ops!Field, Field, Ops!Lane, Lane, Ops!OfBits, OfBits, Ops!BitAnd, BitAnd,
      Ops!BitOr, BitOr, Ops!BitXor, BitXor,
      Ops!LsuLoadData, LsuLoadData, Ops!Extend, Extend
<1>4. Ops!MergeLanes(x, y, i) = MergeLanes(x, y, i)
  BY DEF Ops!XLEN, XLEN, Ops!Word, Word, Ops!Wrap, Wrap, Ops!SignBit, SignBit, Ops!Signed, Signed,
      Ops!Bit, Bit, Ops!Field, Field, Ops!Lane, Lane, Ops!OfBits, OfBits, Ops!BitAnd, BitAnd,
      Ops!BitOr, BitOr, Ops!BitXor, BitXor,
      Ops!MergeLanes, MergeLanes
<1>5. Ops!AccessBytes(i) = AccessBytes(i)
  BY DEF Ops!AccessBytes, AccessBytes
<1>6. Ops!LoadedValue(x, i, j) = LoadedValue(x, i, j)
  BY DEF Ops!LoadedValue, LoadedValue, Ops!AccessBytes, AccessBytes, Ops!Cell, Cell, Ops!MemSize, MemSize,
         Ops!Cardinality, Cardinality, Ops!IsFiniteSet, IsFiniteSet
<1>7. Ops!StoredMemory(x, i, j, y) = StoredMemory(x, i, j, y)
  BY DEF Ops!StoredMemory, StoredMemory, Ops!AccessBytes, AccessBytes, Ops!MemSize, MemSize,
         Ops!Cardinality, Cardinality, Ops!IsFiniteSet, IsFiniteSet
<1> QED BY <1>1, <1>2, <1>3, <1>4, <1>5, <1>6, <1>7

LEMMA OpsDecode == ASSUME NEW i PROVE Ops!Decode(i) = Decode(i)
BY DEF Ops!Decode, Decode, Ops!NoControl, NoControl, Ops!BranchKind, BranchKind, Ops!LoadSize, LoadSize,
       Ops!StoreSize, StoreSize, Ops!OpImmAlu, OpImmAlu, Ops!OpAlu, OpAlu, Ops!SystemControl, SystemControl,
       Ops!Bit, Bit

-----------------------------------------------------------------------------
(* One instruction with its operands, and what it decodes to.               *)
OpsCall ==
  /\ a \in Word /\ b \in Word
  /\ opcode \in {"OP", "OP_IMM", "BRANCH", "LOAD", "STORE"}
  /\ opcode \in {"OP", "OP_IMM"} => funct3 \in 0 .. 7 /\ funct7 \in {0, 32}
  /\ funct7 = 32 => funct3 = 5 \/ (opcode = "OP" /\ funct3 = 0)
  /\ opcode = "BRANCH" => funct3 \in {0, 1, 4, 5, 6, 7}
  /\ opcode = "LOAD" => funct3 \in {0, 1, 2, 4, 5}
  /\ opcode = "STORE" => funct3 \in {0, 1, 2}

LEMMA OpsInit == ASSUME Ops!Init PROVE OpsCall
<1>1. opcode \in {"OP", "OP_IMM", "BRANCH", "LOAD", "STORE"} /\ a \in Word /\ b \in Word
  BY OpsWords DEF Ops!Init
<1>2. PICK e \in Ops!Encodings[opcode] : funct3 = e[1] /\ funct7 = e[2]
  BY DEF Ops!Init
<1>3. CASE opcode = "OP"
  <2>1. e \in {<<f, 0>> : f \in 0 .. 7} \cup {<<0, 32>>, <<5, 32>>}
    BY <1>2, <1>3 DEF Ops!Encodings
  <2> QED BY <1>1, <1>2, <1>3, <2>1 DEF OpsCall
<1>4. CASE opcode = "OP_IMM"
  <2>1. e \in {<<f, 0>> : f \in 0 .. 7} \cup {<<5, 32>>}
    BY <1>2, <1>4 DEF Ops!Encodings
  <2> QED BY <1>1, <1>2, <1>4, <2>1 DEF OpsCall
<1>5. CASE opcode = "BRANCH"
  <2>1. e \in {<<f, 0>> : f \in {0, 1, 4, 5, 6, 7}}
    BY <1>2, <1>5 DEF Ops!Encodings
  <2> QED BY <1>1, <1>2, <1>5, <2>1 DEF OpsCall
<1>6. CASE opcode = "LOAD"
  <2>1. e \in {<<f, 0>> : f \in {0, 1, 2, 4, 5}}
    BY <1>2, <1>6 DEF Ops!Encodings
  <2> QED BY <1>1, <1>2, <1>6, <2>1 DEF OpsCall
<1>7. CASE opcode = "STORE"
  <2>1. e \in {<<f, 0>> : f \in {0, 1, 2}}
    BY <1>2, <1>7 DEF Ops!Encodings
  <2> QED BY <1>1, <1>2, <1>7, <2>1 DEF OpsCall
<1> QED BY <1>1, <1>3, <1>4, <1>5, <1>6, <1>7

LEMMA OpIs ==
  /\ opcode \in {"OP", "OP_IMM"} =>
       /\ Ops!op.alu_op = (IF opcode = "OP" THEN OpAlu(funct3, funct7) ELSE OpImmAlu(funct3, funct7))
       /\ Ops!op.reg_write = TRUE /\ Ops!op.use_rs1 = TRUE /\ Ops!op.use_rs2 = (opcode = "OP")
  /\ opcode = "BRANCH" => Ops!op.branch_kind = BranchKind(funct3)
  /\ opcode = "LOAD" => Ops!op.mem_size = LoadSize(funct3) /\ Ops!op.mem_unsigned = (funct3 \in {4, 5})
  /\ opcode = "STORE" => Ops!op.mem_size = StoreSize(funct3)
<1>1. PICK i : i = [opcode |-> opcode, funct3 |-> funct3, funct7 |-> funct7,
                    rd |-> 1, rs1 |-> 2, rs2 |-> 3, imm |-> b, sys |-> "none"]
  OBVIOUS
<1>2. i.opcode = opcode /\ i.funct3 = funct3 /\ i.funct7 = funct7
  BY <1>1
<1>3. PICK o : o = Ops!op
  OBVIOUS
<1>4. o = Decode(i)
  BY <1>1, <1>3, OpsDecode DEF Ops!op
<1>5. /\ i.opcode \in {"OP", "OP_IMM"} =>
           /\ o.alu_op = (IF i.opcode = "OP" THEN OpAlu(i.funct3, i.funct7) ELSE OpImmAlu(i.funct3, i.funct7))
           /\ o.reg_write = TRUE /\ o.use_rs1 = TRUE /\ o.use_rs2 = (i.opcode = "OP")
      /\ i.opcode = "BRANCH" => o.branch_kind = BranchKind(i.funct3)
      /\ i.opcode = "LOAD" => o.mem_size = LoadSize(i.funct3) /\ o.mem_unsigned = (i.funct3 \in {4, 5})
      /\ i.opcode = "STORE" => o.mem_size = StoreSize(i.funct3)
  BY ONLY <1>4, DecodesTo
<1> QED BY ONLY <1>2, <1>3, <1>5

LEMMA OpsAlu == ASSUME OpsCall PROVE Ops!AluImplements
<1>1. SUFFICES ASSUME opcode \in {"OP", "OP_IMM"}
               PROVE  /\ AluResult(Ops!op.alu_op, a, b) = Wrap(IntegerOp(funct3, funct7 = 32, a, b))
                      /\ Ops!op.reg_write /\ Ops!op.use_rs1 /\ Ops!op.use_rs2 = (opcode = "OP")
  BY OpsBlocks, OpsWords DEF Ops!AluImplements
<1>2. /\ Ops!op.alu_op = (IF opcode = "OP" THEN OpAlu(funct3, funct7) ELSE OpImmAlu(funct3, funct7))
      /\ Ops!op.reg_write = TRUE /\ Ops!op.use_rs1 = TRUE /\ Ops!op.use_rs2 = (opcode = "OP")
  BY <1>1, OpIs
<1>3. Ops!op.alu_op = AluOf(funct3, funct7 = 32)
  <2>1. funct3 \in 0 .. 7 /\ funct7 \in {0, 32} /\ (funct7 = 32 => funct3 = 5 \/ (opcode = "OP" /\ funct3 = 0))
    BY <1>1 DEF OpsCall
  <2>2. CASE funct7 = 0
    <3>1. (funct7 = 32) = FALSE
      BY <2>2
    <3> QED BY <1>2, <2>1, <2>2, <3>1, AluCode
  <2>3. CASE funct7 = 32
    <3>1. (funct7 = 32) = TRUE
      BY <2>3
    <3> QED BY <1>2, <2>1, <2>3, <3>1, AluCode
  <2> QED BY <2>1, <2>2, <2>3
<1>4. AluResult(AluOf(funct3, funct7 = 32), a, b) = Wrap(IntegerOp(funct3, funct7 = 32, a, b))
  <2>1. funct3 \in 0 .. 7 /\ (funct7 = 32) \in BOOLEAN /\ a \in Word /\ b \in Word
    BY <1>1 DEF OpsCall
  <2> QED BY <2>1, AluIs
<1> QED BY <1>2, <1>3, <1>4

LEMMA OpsBranch == ASSUME OpsCall PROVE Ops!BranchImplements
<1>1. SUFFICES ASSUME opcode = "BRANCH" PROVE BranchCond(Ops!op.branch_kind, a, b) = Taken(funct3, a, b)
  BY OpsBlocks DEF Ops!BranchImplements
<1>2. Ops!op.branch_kind = BranchKind(funct3)
  BY <1>1, OpIs
<1>3. funct3 \in {0, 1, 4, 5, 6, 7} /\ a \in Word /\ b \in Word
  BY <1>1 DEF OpsCall
<1> QED BY <1>2, <1>3, BranchIs

LEMMA OpsMemory == ASSUME NEW x PROVE Ops!Memory(x) = LanesOfWord(x)
BY OpsWords DEF Ops!Memory, LanesOfWord

LEMMA OpsLoad == ASSUME OpsCall PROVE Ops!LoadImplements
<1>1. SUFFICES ASSUME opcode = "LOAD", NEW m \in 0 .. 3, m % AccessBytes(funct3) = 0
               PROVE  LsuLoadData(Ops!op.mem_size, Ops!op.mem_unsigned, m, a)
                        = Wrap(LoadedValue(LanesOfWord(a), funct3, m))
  BY OpsLsu, OpsMemory, OpsWords DEF Ops!LoadImplements, Ops!Aligned
<1>2. Ops!op.mem_size = LoadSize(funct3) /\ Ops!op.mem_unsigned = (funct3 \in {4, 5})
  BY <1>1, OpIs
<1>3. funct3 \in {0, 1, 2, 4, 5} /\ a \in Word
  BY <1>1 DEF OpsCall
<1> QED BY <1>1, <1>2, <1>3, LoadIs

LEMMA OpsStore == ASSUME OpsCall PROVE Ops!StoreImplements
<1>1. SUFFICES ASSUME opcode = "STORE", NEW m \in 0 .. 3, m % AccessBytes(funct3) = 0
               PROVE  LanesOfWord(MergeLanes(a, LsuWriteData(Ops!op.mem_size, m, b), LsuWstrb(Ops!op.mem_size, m)))
                        = StoredMemory(LanesOfWord(a), funct3, m, b)
  <2>1. ASSUME NEW m \in 0 .. 3, Ops!Aligned(m), opcode = "STORE"
        PROVE  m % AccessBytes(funct3) = 0
    BY <2>1, OpsLsu DEF Ops!Aligned
  <2>2. ASSUME NEW m PROVE Ops!LsuWriteData(Ops!op.mem_size, m, b) = LsuWriteData(Ops!op.mem_size, m, b)
                           /\ Ops!LsuWstrb(Ops!op.mem_size, m) = LsuWstrb(Ops!op.mem_size, m)
    BY OpsLsu
  <2>3. ASSUME NEW m \in 0 .. 3, Ops!Aligned(m), opcode = "STORE"
        PROVE  Ops!Memory(Ops!MergeLanes(a, Ops!LsuWriteData(Ops!op.mem_size, m, b),
                                         Ops!LsuWstrb(Ops!op.mem_size, m)))
                 = Ops!StoredMemory(Ops!Memory(a), funct3, m, b)
    <3>1. PICK d, s : d = Ops!LsuWriteData(Ops!op.mem_size, m, b) /\ s = Ops!LsuWstrb(Ops!op.mem_size, m)
      OBVIOUS
    <3>2. Ops!MergeLanes(a, d, s) = MergeLanes(a, d, s)
      BY OpsLsu
    <3>3. Ops!Memory(MergeLanes(a, d, s)) = LanesOfWord(MergeLanes(a, d, s))
      BY OpsMemory
    <3>4. Ops!StoredMemory(LanesOfWord(a), funct3, m, b) = StoredMemory(LanesOfWord(a), funct3, m, b)
      BY OpsLsu
    <3>5. LanesOfWord(MergeLanes(a, d, s)) = StoredMemory(LanesOfWord(a), funct3, m, b)
      BY <1>1, <2>1, <2>2, <2>3, <3>1
    <3> QED BY <3>1, <3>2, <3>3, <3>4, <3>5, OpsMemory
  <2> QED BY <2>3 DEF Ops!StoreImplements
<1>2. Ops!op.mem_size = StoreSize(funct3)
  BY <1>1, OpIs
<1>3. funct3 \in {0, 1, 2} /\ a \in Word /\ b \in Word
  BY <1>1 DEF OpsCall
<1>4. b \in Int
  BY <1>3, WrapWord
<1>5. PICK x, v, f, n : x = a /\ v = b /\ f = funct3 /\ n = AccessBytes(f)
  OBVIOUS
<1>6. x \in Word /\ v \in Word /\ v \in Int /\ f \in {0, 1, 2} /\ m % AccessBytes(f) = 0
  BY <1>1, <1>3, <1>4, <1>5
<1>7. LanesOfWord(MergeLanes(x, LsuWriteData(StoreSize(f), m, v), LsuWstrb(StoreSize(f), m)))
        = [j \in 0 .. 3 |-> StoreLane(x, v, StoreSize(f), m, j)]
  BY DEF LanesOfWord, StoreLane
<1>8. ASSUME NEW j \in 0 .. 3 PROVE StoreLane(x, v, StoreSize(f), m, j) = LaneAfter(x, v, n, m, j)
  BY <1>5, <1>6, StoreIs
<1>9. StoredMemory(LanesOfWord(x), f, m, v) = [j \in 0 .. 3 |-> LaneAfter(x, v, n, m, j)]
  BY <1>5, <1>6, StoredIs
<1> QED BY <1>2, <1>5, <1>7, <1>8, <1>9

(* The decoder with the ALU, the branch comparator and the load/store unit  *)
(* computes what the instruction set says, for every width of the datapath, *)
(* every operand and every offset (riscv_decode.sv, riscv_alu.sv,           *)
(* riscv_lsu.sv).                                                           *)
THEOREM DatapathCorrect == Spec => []DatapathImplements
<1> DEFINE Inv == part = "ops" => OpsCall
<1>1. Init => Inv
  BY OpsInit DEF Init
<1>2. Inv /\ [Next]_vars => Inv'
  <2>1. SUFFICES ASSUME Inv, [Next]_vars PROVE Inv'
    OBVIOUS
  <2>2. UNCHANGED others
    BY <2>1 DEF Next, UnitStep, vars
  <2> QED BY <2>1, <2>2 DEF OpsCall, others
<1>3. Inv => DatapathImplements
  BY OpsAlu, OpsBranch, OpsLoad, OpsStore DEF DatapathImplements
<1> HIDE DEF Inv
<1> QED BY <1>1, <1>2, <1>3, PTL DEF Spec
=============================================================================
