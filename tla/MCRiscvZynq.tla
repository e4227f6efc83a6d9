---------------------------- MODULE MCRiscvZynq -----------------------------
(* Programs for the wrapper: accesses that follow each other on the same    *)
(* and on different words, of the RAM and of a peripheral, and redirects.   *)
EXTENDS RiscvZynq, MCRiscvCore

AllBramModes == {"WRITE_FIRST", "READ_FIRST", "NO_CHANGE"}
ZynqAlphabet ==
  {LW(1, 0, 0), SW(1, 0, 0), SW(2, 0, 4), SB(0, 0, 1), LW(2, 0, 4),
   SW(1, 0, 32), LW(2, 0, 32), MUL(2, 1, 1), BEQ(1, 2, 8), System("ecall")}
ZynqPrograms == ProgramsOver(ZynqAlphabet, 3)
SixteenWords == [i \in 0 .. 15 |-> IF i < 2 THEN 5 - 2 * i ELSE 0]
=============================================================================
