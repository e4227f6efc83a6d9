------------------------------ MODULE RiscvLsu ------------------------------
(* Load/store data formatting of the MEM stage (riscv_lsu.sv): byte lanes,  *)
(* write strobes and sign extension. mem_size is 0 (byte), 1 (half) or      *)
(* 2 (word); the strobe is the set of lanes written.                        *)
EXTENDS RiscvPkg

Lanes == 0 .. 3

Lane(word, k) == Field(word, (k + 1) * ByteBits - 1, k * ByteBits)

(* Mutant of LsuWstrb: a half is always written to the low lanes. *)
LsuWstrb_LowHalf(mem_size, addr_lo) ==
  CASE mem_size = 0 -> {addr_lo}
    [] mem_size = 1 -> {0, 1}
    [] OTHER        -> Lanes

LsuWstrb(mem_size, addr_lo) ==
  CASE mem_size = 0 -> {addr_lo}
    [] mem_size = 1 -> IF addr_lo >= 2 THEN {2, 3} ELSE {0, 1}
    [] OTHER        -> Lanes

(* Replicated data shifted left: {4{d[7:0]}} << 8*addr_lo for a byte and    *)
(* {2{d[15:0]}} << 16*addr_lo[1] for a half.                                *)
LsuWriteData(mem_size, addr_lo, store_data) ==
  LET byte == Field(store_data, ByteBits - 1, 0)
      half == Field(store_data, 2 * ByteBits - 1, 0)
      rep4 == byte * (1 + 2^ByteBits + 2^(2 * ByteBits) + 2^(3 * ByteBits))
      rep2 == half * (1 + 2^(2 * ByteBits))
  IN  CASE mem_size = 0 -> Wrap(rep4 * 2^(ByteBits * addr_lo))
        [] mem_size = 1 -> Wrap(rep2 * 2^(2 * ByteBits * (addr_lo \div 2)))
        [] OTHER        -> store_data

(* Mutant of Extend: the unsigned loads extend the sign too. *)
Extend_AlwaysSigned(x, n, mem_unsigned) ==
  IF x < 2^(n - 1) THEN x ELSE Wrap(x - 2^n)

(* x as a signed number of n bits, sign-extended to a word unless unsigned. *)
Extend(x, n, mem_unsigned) ==
  IF mem_unsigned \/ x < 2^(n - 1) THEN x ELSE Wrap(x - 2^n)

LsuLoadData(mem_size, mem_unsigned, addr_lo, read_data) ==
  CASE mem_size = 0 ->
         Extend(Lane(read_data, addr_lo), ByteBits, mem_unsigned)
    [] mem_size = 1 ->
         Extend(IF addr_lo >= 2
                  THEN Field(read_data, 4 * ByteBits - 1, 2 * ByteBits)
                  ELSE Field(read_data, 2 * ByteBits - 1, 0),
                2 * ByteBits, mem_unsigned)
    [] OTHER -> read_data

(* What a memory with byte strobes keeps: old with the lanes in strobe      *)
(* replaced by those of new.                                                *)
MergeLanes(old, new, strobe) ==
  LET lane(k) == Lane(IF k \in strobe THEN new ELSE old, k) * 2^(ByteBits * k)
  IN  lane(0) + lane(1) + lane(2) + lane(3)
=============================================================================
