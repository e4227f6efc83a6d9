------------------------------ MODULE RiscvPkg ------------------------------
(* Words, bit fields and the shared constants of the core (riscv_pkg.sv).   *)
(* A word has four lanes of ByteBits bits; the RTL has ByteBits = 8.        *)
(* Opcodes, ALU operations, write-back selects, branch kinds and CSR        *)
(* addresses are named by strings: only their identity matters.             *)
EXTENDS Integers

CONSTANT ByteBits

ASSUME ByteBitsAssumption == ByteBits \in Nat \ {0}

XLEN == 4 * ByteBits
Word == 0 .. 2^XLEN - 1
Byte == 0 .. 2^ByteBits - 1

Wrap(x)   == x % 2^XLEN
SignBit(x) == x >= 2^(XLEN - 1)
Signed(x) == IF SignBit(x) THEN x - 2^XLEN ELSE x
Bit(x, i) == (x \div 2^i) % 2
(* Bits hi down to lo of x, as x[hi:lo]. *)
Field(x, hi, lo) == (x \div 2^lo) % 2^(hi - lo + 1)

(* The word whose bit i is b[i]. *)
OfBits(b) ==
  LET sum[n \in 0 .. XLEN] ==
        IF n = 0 THEN 0 ELSE sum[n - 1] + b[n - 1] * 2^(n - 1)
  IN  sum[XLEN]

BitAnd(a, b) == OfBits([i \in 0 .. XLEN - 1 |-> Bit(a, i) * Bit(b, i)])
BitOr(a, b)  == a + b - BitAnd(a, b)
BitXor(a, b) == a + b - 2 * BitAnd(a, b)
BitNot(a)    == 2^XLEN - 1 - a

ALU_MUL_OPS == {"MUL", "MULH", "MULHSU", "MULHU"}
ALU_DIV_OPS == {"DIV", "DIVU", "REM", "REMU"}

CAUSE_BREAKPOINT       == 3
CAUSE_LOAD_MISALIGNED  == 4
CAUSE_LOAD_ACCESS      == 5
CAUSE_STORE_MISALIGNED == 6
CAUSE_STORE_ACCESS     == 7
CAUSE_ECALL_M          == 11
CAUSE_MACHINE_EXTERNAL_INTERRUPT == 2^(XLEN - 1) + 11

MSTATUS_MIE_BIT  == 3
MSTATUS_MPIE_BIT == 7
MIE_MEIE_BIT     == 11
MIP_MEIP_BIT     == 11
=============================================================================
