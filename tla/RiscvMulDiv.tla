---------------------------- MODULE RiscvMulDiv -----------------------------
(* The multicycle RV32M units of riscv_core.sv: a two-cycle multiplier and  *)
(* an iterative divider that produces one quotient bit per cycle. Each is a *)
(* record of registers; MulNext and DivNext are their clock edges.          *)
EXTENDS RiscvPkg

MulIdle ==
  [busy |-> FALSE, done |-> FALSE, op |-> "MUL", a |-> 0, b |-> 0,
   product |-> 0]

(* Operand registers: sign- or zero-extended by one bit. *)
MulExtA(op, a) == IF op \in {"MULH", "MULHSU"} THEN Signed(a) ELSE a
(* Mutant of MulExtB: MULHSU takes its second operand as signed. *)
MulExtB_HsuSigned(op, b) ==
  IF op \in {"MULH", "MULHSU"} THEN Signed(b) ELSE b
MulExtB(op, b) == IF op = "MULH" THEN Signed(b) ELSE b

MulResult(mul) ==
  IF mul.op = "MUL" THEN Wrap(mul.product)
                    ELSE Wrap(mul.product \div 2^XLEN)

(* Mutant of MulNext: done is never cleared. *)
MulNext_DoneSticks(mul, start, op, a, b, mem_stall) ==
  CASE start ->
         [mul EXCEPT !.op = op, !.a = MulExtA(op, a),
                     !.b = MulExtB(op, b), !.busy = TRUE]
    [] ~start /\ mul.busy ->
         [mul EXCEPT !.product = mul.a * mul.b, !.busy = FALSE, !.done = TRUE]
    [] OTHER -> mul

(* done falls on the first edge without mem_stall; start and the multiply   *)
(* step exclude each other.                                                 *)
MulNext(mul, start, op, a, b, mem_stall) ==
  LET held == [mul EXCEPT !.done = mul.done /\ mem_stall]
  IN  CASE start ->
             [held EXCEPT !.op = op, !.a = MulExtA(op, a),
                          !.b = MulExtB(op, b), !.busy = TRUE]
        [] ~start /\ mul.busy ->
             [held EXCEPT !.product = mul.a * mul.b, !.busy = FALSE,
                          !.done = TRUE]
        [] OTHER -> held

-----------------------------------------------------------------------------
DivIdle ==
  [busy |-> FALSE, done |-> FALSE, op |-> "DIVU", count |-> 0,
   dividend |-> 0, divisor |-> 0, quotient |-> 0, remainder |-> 0,
   quotient_neg |-> FALSE, remainder_neg |-> FALSE, result |-> 0]

Negate(x) == Wrap(BitNot(x) + 1)
Magnitude(op, x) ==
  IF op \in {"DIV", "REM"} /\ SignBit(x) THEN Negate(x) ELSE x

(* Mutant of DivStart: a remainder takes the sign of the quotient. *)
DivStart_RemainderSign(div, op, a, b) ==
  CASE b = 0 ->
         [div EXCEPT !.op = op, !.count = 0, !.busy = FALSE, !.done = TRUE,
            !.result = IF op \in {"DIV", "DIVU"} THEN 2^XLEN - 1 ELSE a]
    [] OTHER ->
         [div EXCEPT !.op = op, !.count = 0, !.busy = TRUE,
            !.dividend = Magnitude(op, a), !.divisor = Magnitude(op, b),
            !.quotient = 0, !.remainder = 0,
            !.quotient_neg = op = "DIV" /\ SignBit(a) # SignBit(b),
            !.remainder_neg = op = "REM" /\ SignBit(a) # SignBit(b)]

(* Division by zero and the signed overflow answer at once; any other       *)
(* division loads the magnitudes and the signs of the results.              *)
DivStart(div, op, a, b) ==
  CASE b = 0 ->
         [div EXCEPT !.op = op, !.count = 0, !.busy = FALSE, !.done = TRUE,
            !.result = IF op \in {"DIV", "DIVU"} THEN 2^XLEN - 1 ELSE a]
    [] op \in {"DIV", "REM"} /\ a = 2^(XLEN - 1) /\ b = 2^XLEN - 1 ->
         [div EXCEPT !.op = op, !.count = 0, !.busy = FALSE, !.done = TRUE,
            !.result = IF op = "DIV" THEN 2^(XLEN - 1) ELSE 0]
    [] OTHER ->
         [div EXCEPT !.op = op, !.count = 0, !.busy = TRUE,
            !.dividend = Magnitude(op, a), !.divisor = Magnitude(op, b),
            !.quotient = 0, !.remainder = 0,
            !.quotient_neg = op = "DIV" /\ SignBit(a) # SignBit(b),
            !.remainder_neg = op = "REM" /\ SignBit(a)]

(* Mutants of DivStep: an equal divisor is not subtracted; the count runs   *)
(* past the last bit.                                                       *)
DivStep_Strict(div) ==
  LET trial     == 2 * Wrap(div.remainder) + Bit(div.dividend, XLEN - 1)
      subtract  == trial > div.divisor
      remainder == IF subtract THEN trial - div.divisor ELSE trial
      quotient  == Wrap(2 * div.quotient) + (IF subtract THEN 1 ELSE 0)
      last      == div.count = XLEN - 1
  IN  [div EXCEPT !.dividend = Wrap(2 * div.dividend),
                  !.quotient = quotient, !.remainder = remainder,
                  !.count = IF last THEN @ ELSE @ + 1,
                  !.busy = ~last, !.done = @ \/ last]
DivStep_CountOverruns(div) ==
  LET last == div.count = XLEN - 1
  IN  [div EXCEPT !.count = @ + 1, !.busy = ~last, !.done = @ \/ last]

(* One restoring-division step: shift the next dividend bit into the        *)
(* remainder and subtract the divisor if it fits.                           *)
DivStep(div) ==
  LET trial     == 2 * Wrap(div.remainder) + Bit(div.dividend, XLEN - 1)
      subtract  == trial >= div.divisor
      remainder == IF subtract THEN trial - div.divisor ELSE trial
      quotient  == Wrap(2 * div.quotient) + (IF subtract THEN 1 ELSE 0)
      last      == div.count = XLEN - 1
  IN  [div EXCEPT
         !.dividend = Wrap(2 * div.dividend),
         !.quotient = quotient, !.remainder = remainder,
         !.count = IF last THEN div.count ELSE div.count + 1,
         !.busy = ~last, !.done = @ \/ last,
         !.result =
           IF ~last THEN @
           ELSE IF div.op \in {"DIV", "DIVU"}
             THEN IF div.quotient_neg THEN Negate(quotient) ELSE quotient
             ELSE IF div.remainder_neg THEN Negate(Wrap(remainder))
                                       ELSE Wrap(remainder)]

(* Mutant of DivNext: done is never cleared. *)
DivNext_DoneSticks(div, start, op, a, b, mem_stall) ==
  CASE start -> DivStart(div, op, a, b)
    [] ~start /\ div.busy -> DivStep(div)
    [] OTHER -> div

DivNext(div, start, op, a, b, mem_stall) ==
  LET held == [div EXCEPT !.done = div.done /\ mem_stall]
  IN  CASE start -> DivStart(held, op, a, b)
        [] ~start /\ div.busy -> DivStep(held)
        [] OTHER -> held

-----------------------------------------------------------------------------
(* Mutant of MulStart: a busy multiplier is started again. *)
MulStart_WhenBusy(valid, op, mul, mem_stall) ==
  valid /\ op \in ALU_MUL_OPS /\ ~mul.done /\ ~mem_stall

(* When the instruction in EX starts a unit, and whether it waits for one.  *)
MulStart(valid, op, mul, mem_stall) ==
  valid /\ op \in ALU_MUL_OPS /\ ~mul.busy /\ ~mul.done /\ ~mem_stall
DivStartNow(valid, op, div, mem_stall) ==
  valid /\ op \in ALU_DIV_OPS /\ ~div.busy /\ ~div.done /\ ~mem_stall
MStall(valid, op, mul, div) ==
  /\ valid
  /\ (op \in ALU_MUL_OPS /\ ~mul.done) \/ (op \in ALU_DIV_OPS /\ ~div.done)
=============================================================================
