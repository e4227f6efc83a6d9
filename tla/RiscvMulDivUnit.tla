-------------------------- MODULE RiscvMulDivUnit ---------------------------
(* The multicycle units with the EX stage that drives them: an instruction  *)
(* arrives with its operands, waits for the unit and leaves on a cycle      *)
(* without a memory stall. The operands are only there in the first cycles: *)
(* once a unit has started, forwarding may show it other values.            *)
EXTENDS RiscvMulDiv, RiscvIsaOps

CONSTANT MemStall       \* values mem_stall may take

OpOf == <<"MUL", "MULH", "MULHSU", "MULHU", "DIV", "DIVU", "REM", "REMU">>

VARIABLES mul, div,
          ex            \* [valid, funct3, a, b]: the instruction in EX
vars == <<mul, div, ex>>

NoInstr == [valid |-> FALSE, funct3 |-> 0, a |-> 0, b |-> 0]
Op == OpOf[ex.funct3 + 1]

(* Registers left behind by an earlier MULHU and an earlier REM: only busy   *)
(* and done are cleared between operations.                                 *)
StaleMul ==
  [MulIdle EXCEPT !.op = "MULHU", !.a = XLEN, !.b = XLEN,
                  !.product = XLEN * XLEN]
StaleDiv ==
  [DivIdle EXCEPT !.op = "REM", !.count = XLEN - 1, !.divisor = 1,
                  !.quotient = XLEN, !.remainder_neg = TRUE]

Init == mul \in {MulIdle, StaleMul} /\ div \in {DivIdle, StaleDiv}
          /\ ex = NoInstr

(* Bound: an operation arrives at units that are fresh or StaleMul/StaleDiv, *)
(* not after every pair of earlier operations.                              *)
Arrive(funct3, a, b) ==
  /\ ~ex.valid
  /\ mul \in {MulIdle, StaleMul} /\ div \in {DivIdle, StaleDiv}
  /\ ex' = [valid |-> TRUE, funct3 |-> funct3, a |-> a, b |-> b]
  /\ UNCHANGED <<mul, div>>

Units(a, b, mem_stall) ==
  /\ mul' = MulNext(mul, MulStart(TRUE, Op, mul, mem_stall), Op, a, b,
                    mem_stall)
  /\ div' = DivNext(div, DivStartNow(TRUE, Op, div, mem_stall), Op, a, b,
                    mem_stall)

(* A cycle of waiting. The forwarded operands are ex.a and ex.b until the   *)
(* unit starts and arbitrary (here: zero) afterwards.                       *)
Wait(mem_stall) ==
  /\ ex.valid /\ MStall(TRUE, Op, mul, div)
  /\ IF mul.busy \/ div.busy THEN Units(0, 0, mem_stall)
                             ELSE Units(ex.a, ex.b, mem_stall)
  /\ UNCHANGED ex

(* The cycle in which the result is there and memory does not stall.        *)
Leave ==
  /\ ex.valid /\ ~MStall(TRUE, Op, mul, div)
  /\ Units(0, 0, FALSE)
  /\ ex' = NoInstr

Reset == mul' = MulIdle /\ div' = DivIdle /\ ex' = NoInstr

Next ==
  \/ \E funct3 \in 0 .. 7, a \in Word, b \in Word : Arrive(funct3, a, b)
  \/ \E mem_stall \in MemStall : Wait(mem_stall)
  \/ Leave
  \/ Reset

Spec == Init /\ [][Next]_vars

(* Memory does not stall for ever.                                          *)
FairSpec == Spec /\ WF_vars(Wait(FALSE)) /\ WF_vars(Leave)

-----------------------------------------------------------------------------
Result == IF Op \in ALU_MUL_OPS THEN MulResult(mul) ELSE div.result

(* The result a unit delivers is the RV32M one, division by zero and signed *)
(* overflow included.                                                       *)
UnitResult ==
  ex.valid /\ (mul.done \/ div.done)
    => Result = Wrap(MulDivOp(ex.funct3, ex.a, ex.b))

(* The invariant of restoring division: what has been shifted in of the     *)
(* dividend is divisor * quotient + remainder, with a proper remainder.     *)
DivisionInvariant ==
  div.busy =>
    LET dividend == Magnitude(div.op, ex.a)
        divisor  == Magnitude(div.op, ex.b)
    IN  /\ div.remainder < divisor
        /\ dividend \div 2^(XLEN - div.count)
             = divisor * div.quotient + div.remainder

(* Every RV32M instruction leaves EX, leaving both units idle.              *)
Completes == ex.valid ~> ~ex.valid /\ ~mul.busy /\ ~div.busy
                                   /\ ~mul.done /\ ~div.done
=============================================================================
