---------------------------- MODULE RiscvIsaOps -----------------------------
(* What each RV32IM instruction computes, stated on signed and unsigned     *)
(* integers and on a memory of bytes: the reference the core's ALU, LSU and *)
(* RV32M units are checked against. Results are taken modulo a word.        *)
EXTENDS RiscvPkg, FiniteSets

Abs(x) == IF x < 0 THEN -x ELSE x
Truncated(x, y) == IF (x < 0) # (y < 0) THEN -(Abs(x) \div Abs(y))
                                        ELSE Abs(x) \div Abs(y)

Divide(x, y)    == IF y = 0 THEN -1 ELSE Truncated(x, y)
Remainder(x, y) == IF y = 0 THEN x ELSE x - y * Truncated(x, y)

(* funct3 of OP_IMM and OP; alt is funct7[5] (SUB, SRA). *)
IntegerOp(funct3, alt, a, b) ==
  LET sh == b % XLEN IN
  CASE funct3 = 0 -> IF alt THEN a + (2^XLEN - b) ELSE a + b
    [] funct3 = 1 -> a * 2^sh
    [] funct3 = 2 -> IF Signed(a) < Signed(b) THEN 1 ELSE 0
    [] funct3 = 3 -> IF a < b THEN 1 ELSE 0
    [] funct3 = 4 -> OfBits([i \in 0 .. XLEN - 1 |->
                              IF Bit(a, i) # Bit(b, i) THEN 1 ELSE 0])
    [] funct3 = 5 -> IF alt THEN Signed(a) \div 2^sh ELSE a \div 2^sh
    [] funct3 = 6 -> OfBits([i \in 0 .. XLEN - 1 |->
                              IF Bit(a, i) + Bit(b, i) > 0 THEN 1 ELSE 0])
    [] funct3 = 7 -> OfBits([i \in 0 .. XLEN - 1 |->
                              IF Bit(a, i) + Bit(b, i) = 2 THEN 1 ELSE 0])

MulDivOp(funct3, a, b) ==
  CASE funct3 = 0 -> a * b
    [] funct3 = 1 -> (Signed(a) * Signed(b)) \div 2^XLEN
    [] funct3 = 2 -> (Signed(a) * b) \div 2^XLEN
    [] funct3 = 3 -> (a * b) \div 2^XLEN
    [] funct3 = 4 -> Divide(Signed(a), Signed(b))
    [] funct3 = 5 -> Divide(a, b)
    [] funct3 = 6 -> Remainder(Signed(a), Signed(b))
    [] funct3 = 7 -> Remainder(a, b)

Taken(funct3, a, b) ==
  CASE funct3 = 0 -> a = b
    [] funct3 = 1 -> a # b
    [] funct3 = 4 -> Signed(a) < Signed(b)
    [] funct3 = 5 -> Signed(a) >= Signed(b)
    [] funct3 = 6 -> a < b
    [] funct3 = 7 -> a >= b

-----------------------------------------------------------------------------
(* Loads and stores of 1, 2 or 4 bytes, little-endian, in a memory that     *)
(* wraps at its size.                                                       *)
AccessBytes(funct3) == 2^(funct3 % 4)
MemSize(mem) == Cardinality(DOMAIN mem)
Cell(mem, address, k) == (address + k) % MemSize(mem)

LoadedValue(mem, funct3, address) ==
  LET n       == AccessBytes(funct3)
      byte(k) == IF k < n THEN mem[Cell(mem, address, k)] * 2^(k * ByteBits)
                 ELSE 0
      raw     == byte(0) + byte(1) + byte(2) + byte(3)
  IN  IF funct3 < 4 /\ raw >= 2^(n * ByteBits - 1)
        THEN raw - 2^(n * ByteBits) ELSE raw

StoredMemory(mem, funct3, address, value) ==
  LET size   == MemSize(mem)
      k(m)   == (m - address) % size          \* the byte of value m receives
  IN  [m \in DOMAIN mem |->
         IF k(m) < AccessBytes(funct3)
           THEN (value \div 2^(k(m) * ByteBits)) % 2^ByteBits
           ELSE mem[m]]
=============================================================================
