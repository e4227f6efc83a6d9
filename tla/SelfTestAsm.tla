---------------------------- MODULE SelfTestAsm -----------------------------
(* The assembler of FW/simple_test.c against the field and immediate        *)
(* extraction of riscv_decode.sv: the self-test is hand-assembled, and a bit*)
(* in the wrong place is blamed on the core. A 32-bit word is the set of its*)
(* bits that are 1, so << is a shift of positions and | is union. A state   *)
(* is one call of an encoder, or of li on a word of LiBits bits.            *)
EXTENDS Integers

CONSTANTS Registers,    \* register numbers used as operands
          Imm12, Imm13, Imm20, Imm21,   \* immediates: I and S, B, U, J form
          LiBits,       \* width of the words li builds; 32 in the source
          LiLow         \* width of their low part; 12 in the source


VARIABLES form, imm, r1, r2
vars == <<form, imm, r1, r2>>

Bits(v)       == {k \in 0 .. 30 : (v \div 2^k) % 2 = 1}
Shl(w, n)     == {k + n : k \in w} \cap 0 .. 31
Shr(w, n)     == {k - n : k \in {j \in w : j >= n}}
Mask(w, n)    == {k \in w : k < n}                 \* & of the n low bits
Low(v, n)     == Bits(v % 2^n)                     \* (uint32_t)v & mask
Slice(w, hi, lo) == Mask(Shr(w, lo), hi - lo + 1)

-----------------------------------------------------------------------------
(* simple_test.c *)
OP_I == 19
OP_STORE == 35
OP_BR == 99
OP_JAL == 111
OP_LUI == 55
OP_R == 51

enc_r(f7, rs2, rs1, f3, rd) ==
  Shl(Bits(f7), 25) \cup Shl(Bits(rs2), 20) \cup Shl(Bits(rs1), 15)
    \cup Shl(Bits(f3), 12) \cup Shl(Bits(rd), 7) \cup Bits(OP_R)
enc_i(im, rs1, f3, rd, op) ==
  Shl(Low(im, 12), 20) \cup Shl(Bits(rs1), 15) \cup Shl(Bits(f3), 12)
    \cup Shl(Bits(rd), 7) \cup Bits(op)
enc_ish(f7, shamt, rs1, f3, rd) ==
  Shl(Bits(f7), 25) \cup Shl(Low(shamt, 5), 20) \cup Shl(Bits(rs1), 15)
    \cup Shl(Bits(f3), 12) \cup Shl(Bits(rd), 7) \cup Bits(OP_I)
enc_s(im, rs2, rs1, f3) ==
  LET w == Low(im, 12) IN
  Shl(Mask(Shr(w, 5), 7), 25) \cup Shl(Bits(rs2), 20) \cup Shl(Bits(rs1), 15)
    \cup Shl(Bits(f3), 12) \cup Shl(Mask(w, 5), 7) \cup Bits(OP_STORE)
(* Mutant of enc_b: bits 11 and 12 of the offset change places.             *)
enc_b_SwappedBits(im, rs2, rs1, f3) ==
  LET w == Low(im, 13) IN
  Shl(Slice(w, 11, 11), 31) \cup Shl(Slice(w, 10, 5), 25) \cup Shl(Bits(rs2), 20)
    \cup Shl(Bits(rs1), 15) \cup Shl(Bits(f3), 12) \cup Shl(Slice(w, 4, 1), 8)
    \cup Shl(Slice(w, 12, 12), 7) \cup Bits(OP_BR)
enc_b(im, rs2, rs1, f3) ==
  LET w == Low(im, 13) IN
  Shl(Slice(w, 12, 12), 31) \cup Shl(Slice(w, 10, 5), 25) \cup Shl(Bits(rs2), 20)
    \cup Shl(Bits(rs1), 15) \cup Shl(Bits(f3), 12) \cup Shl(Slice(w, 4, 1), 8)
    \cup Shl(Slice(w, 11, 11), 7) \cup Bits(OP_BR)
enc_u(im20, rd, op) ==
  Shl(Low(im20, 20), 12) \cup Shl(Bits(rd), 7) \cup Bits(op)
enc_j(im, rd) ==
  LET w == Low(im, 21) IN
  Shl(Slice(w, 20, 20), 31) \cup Shl(Slice(w, 10, 1), 21) \cup Shl(Slice(w, 11, 11), 20)
    \cup Shl(Slice(w, 19, 12), 12) \cup Shl(Bits(rd), 7) \cup Bits(OP_JAL)

(* Mutant of li: the low part is not sign-extended.                         *)
li_LowUnsigned(val) ==
  LET lo == val % 2^LiLow
      hi == val \div 2^LiLow
  IN IF hi = 0 THEN [lui |-> <<>>, addi |-> <<lo>>]
     ELSE [lui |-> <<hi>>, addi |-> IF val % 2^LiLow # 0 THEN <<lo>> ELSE <<>>]
(* li: the instructions emitted to build val, as the pair of their          *)
(* immediates; the ADDI is left out when the low part is zero. hi is        *)
(* computed in unsigned arithmetic, which wraps.                            *)
li(val) ==
  LET low == val % 2^LiLow
      lo  == IF low >= 2^(LiLow - 1) THEN low - 2^LiLow ELSE low
      hi  == ((val - lo) % 2^LiBits) \div 2^LiLow
  IN IF hi = 0 THEN [lui |-> <<>>, addi |-> <<lo>>]
     ELSE [lui |-> <<hi>>, addi |-> IF low # 0 THEN <<lo>> ELSE <<>>]

-----------------------------------------------------------------------------
(* riscv_decode.sv *)
rd(in)     == Slice(in, 11, 7)
funct3(in) == Slice(in, 14, 12)
rs1(in)    == Slice(in, 19, 15)
rs2(in)    == Slice(in, 24, 20)
funct7(in) == Slice(in, 31, 25)
opcode(in) == Slice(in, 6, 0)

Sign(in, from) == IF 31 \in in THEN from .. 31 ELSE {}
imm_i(in) == Slice(in, 31, 20) \cup Sign(in, 12)
imm_s(in) == Shl(Slice(in, 31, 25), 5) \cup Slice(in, 11, 7) \cup Sign(in, 12)
imm_b(in) == Shl(Slice(in, 7, 7), 11) \cup Shl(Slice(in, 30, 25), 5)
               \cup Shl(Slice(in, 11, 8), 1) \cup Sign(in, 12)
imm_u(in) == Shl(Slice(in, 31, 12), 12)
imm_j(in) == Shl(Slice(in, 19, 12), 12) \cup Shl(Slice(in, 20, 20), 11)
               \cup Shl(Slice(in, 30, 21), 1) \cup Sign(in, 20)

-----------------------------------------------------------------------------
Forms == [r |-> {0, 32}, i |-> Imm12, ish |-> {0, 1, 17, 31}, s |-> Imm12, b |-> Imm13,
          u |-> Imm20, j |-> Imm21, li |-> 0 .. 2^LiBits - 1]

Init ==
  /\ form \in DOMAIN Forms
  /\ imm \in Forms[form]
  /\ IF form = "li" THEN r1 = 0 /\ r2 = 0 ELSE r1 \in Registers /\ r2 \in Registers
Next == UNCHANGED vars
Spec == Init /\ [][Next]_vars

(* The 32-bit word of a signed value. *)
Word32(v) == IF v >= 0 THEN Bits(v) ELSE Bits(v + 2^30 + 2^30) \cup {31}
(* bit 30 of a small negative value is in Bits(v + 2^31). *)

(* Every instruction the self-test assembles is decoded by the core to the  *)
(* opcode, registers and immediate it was assembled from: no field spills   *)
(* into another and no bit of an immediate is misplaced (lines 78-130).     *)
EncodingsDecode ==
  CASE form = "r" ->
         LET w == enc_r(imm, r2, r1, 5, r1) IN
         /\ funct7(w) = Bits(imm) /\ rs2(w) = Bits(r2) /\ rs1(w) = Bits(r1)
         /\ funct3(w) = Bits(5) /\ rd(w) = Bits(r1) /\ opcode(w) = Bits(OP_R)
    [] form = "i" ->
         LET w == enc_i(imm, r1, 2, r2, OP_I) IN
         /\ imm_i(w) = Word32(imm) /\ rs1(w) = Bits(r1) /\ rd(w) = Bits(r2)
         /\ funct3(w) = Bits(2) /\ opcode(w) = Bits(OP_I)
    [] form = "ish" ->
         LET w == enc_ish(32, imm, r1, 5, r2) IN
         /\ rs2(w) = Bits(imm) /\ funct7(w) = Bits(32) /\ rs1(w) = Bits(r1)
         /\ rd(w) = Bits(r2) /\ funct3(w) = Bits(5) /\ opcode(w) = Bits(OP_I)
    [] form = "s" ->
         LET w == enc_s(imm, r2, r1, 2) IN
         /\ imm_s(w) = Word32(imm) /\ rs2(w) = Bits(r2) /\ rs1(w) = Bits(r1)
         /\ funct3(w) = Bits(2) /\ opcode(w) = Bits(OP_STORE)
    [] form = "b" ->
         LET w == enc_b(imm, r2, r1, 7) IN
         /\ imm_b(w) = Word32(imm) /\ rs2(w) = Bits(r2) /\ rs1(w) = Bits(r1)
         /\ funct3(w) = Bits(7) /\ opcode(w) = Bits(OP_BR)
    [] form = "u" ->
         LET w == enc_u(imm, r1, OP_LUI) IN
         /\ imm_u(w) = Shl(Bits(imm), 12) /\ rd(w) = Bits(r1) /\ opcode(w) = Bits(OP_LUI)
    [] form = "j" ->
         LET w == enc_j(imm, r1) IN
         /\ imm_j(w) = Word32(imm) /\ rd(w) = Bits(r1) /\ opcode(w) = Bits(OP_JAL)
    [] form = "li" -> TRUE

(* li builds the constant it is given, whatever its low part: LUI and ADDI  *)
(* add up to it, both immediates fit their fields (lines 133-147).          *)
LiBuildsConstant ==
  form = "li" =>
    LET code == li(imm)
        base == IF code.lui = <<>> THEN 0 ELSE code.lui[1] * 2^LiLow
        add  == IF code.addi = <<>> THEN 0 ELSE code.addi[1]
    IN /\ (base + add) % 2^LiBits = imm
       /\ add \in -(2^(LiLow - 1)) .. 2^(LiLow - 1) - 1
       /\ base < 2^LiBits
=============================================================================
