--------------------------- MODULE MCRetireShadow ---------------------------
(* The retirement trace over programs that set a trap vector and then run   *)
(* any three instructions that write, wait, branch, jump, trap or return.   *)
EXTENDS RetireShadow, MCRiscvCore

ShadowAlphabet ==
  {ADDI(1, 0, 4), LW(2, 0, 0), ADD(2, 2, 1), MUL(1, 2, 1), BEQ(1, 2, 8),
   JAL(2, 8), System("ebreak"), System("ecall")}

(* Slots 5 and 6 are a handler that skips nothing and returns: it moves     *)
(* mepc to the halting jump at slot 4.                                      *)
ShadowProgram(x, y, z) ==
  [i \in 0 .. 6 |-> <<CSRRWI(0, "mtvec", 20), x, y, z, JAL(0, 0),
                      CSRRWI(0, "mepc", 16), System("mret")>>[i + 1]]
ShadowPrograms ==
  {ShadowProgram(x, y, z) :
     x \in ShadowAlphabet, y \in ShadowAlphabet, z \in ShadowAlphabet}
=============================================================================
