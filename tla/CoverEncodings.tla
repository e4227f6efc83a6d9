--------------------------- MODULE CoverEncodings ----------------------------
(* The wildcard bins of the compressed hints and illegal encodings against  *)
(* the fields of the encoding, for every half-word. A state is a half-word. *)
EXTENDS CoverGroups

VARIABLE half
Init == half \in [1 .. 4 -> 0 .. 15]
Next == UNCHANGED half
Spec == Init /\ [][Next]_half

(* The fields of a compressed encoding.                                     *)
quadrant == half[4] % 4
funct3   == half[1] \div 2
bit12    == half[1] % 2
rdField  == half[2] * 2 + half[3] \div 8
lowField == (half[3] % 8) * 4 + half[4] \div 4
funct2   == half[2] \div 4
Op(q, f) == quadrant = q /\ funct3 = f
NoImm    == bit12 = 0 /\ lowField = 0

(* C.ADDI, C.LI, C.LUI, the shifts, C.MV and C.ADD that do nothing: they    *)
(* write x0, or shift or add zero.                                          *)
HintFields ==
  [addi   |-> Op(1, 0) /\ NoImm /\ rdField # 0,
   li     |-> Op(1, 2) /\ rdField = 0,
   lui    |-> Op(1, 3) /\ rdField = 0,
   srli64 |-> Op(1, 4) /\ NoImm /\ funct2 = 0,
   srai64 |-> Op(1, 4) /\ NoImm /\ funct2 = 1,
   slli   |-> Op(2, 0) /\ rdField = 0,
   slli64 |-> Op(2, 0) /\ NoImm,
   mv     |-> Op(2, 4) /\ bit12 = 0 /\ rdField = 0 /\ lowField # 0,
   add    |-> Op(2, 4) /\ bit12 = 1 /\ rdField = 0 /\ lowField # 0]

(* The reserved encodings: a zero immediate, an x0 that may not be one, a   *)
(* free function code. x2 as the destination of C.LUI is C.ADDI16SP.        *)
IllegalFields ==
  [c_illegal  |-> Op(0, 0) /\ bit12 = 0 /\ rdField = 0 /\ lowField = 0,
   c_addi4spn |-> Op(0, 0) /\ bit12 = 0 /\ rdField = 0 /\ lowField \in 1 .. 7,
   c_addiw    |-> Op(1, 1) /\ rdField = 0,
   c_addi16sp |-> Op(1, 3) /\ NoImm /\ rdField = 2,
   c_lui      |-> Op(1, 3) /\ NoImm /\ rdField \notin {0, 2},
   c_reserv_0 |-> Op(1, 4) /\ bit12 = 1 /\ funct2 = 3 /\ lowField \div 8 = 2,
   c_reserv_1 |-> Op(1, 4) /\ bit12 = 1 /\ funct2 = 3 /\ lowField \div 8 = 3,
   c_jr       |-> Op(2, 4) /\ NoImm /\ rdField = 0,
   c_lwsp     |-> Op(2, 2) /\ rdField = 0,
   c_lqsp     |-> Op(2, 1) /\ rdField = 0,
   c_ldsp     |-> Op(2, 3) /\ rdField = 0]

BinsOf(group) == {h[2] : h \in Hits([assign_attributes("NOP") EXCEPT !.binary = half], group)}
Holding(fields) == {n \in DOMAIN fields : fields[n]}

(* Every half-word is in exactly the hint bins its fields say (hint_cg).    *)
HintBinsExact == BinsOf(hint_cg) = Holding(HintFields)

(* Every half-word is in exactly the illegal bins its fields say, and no    *)
(* illegal encoding is counted as a hint too (illegal_compressed_instr_cg). *)
IllegalBinsExact ==
  /\ BinsOf(illegal_compressed_instr_cg) = Holding(IllegalFields)
  /\ BinsOf(illegal_compressed_instr_cg) = {} \/ BinsOf(hint_cg) = {}
=============================================================================
