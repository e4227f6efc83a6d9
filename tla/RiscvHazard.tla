----------------------------- MODULE RiscvHazard ----------------------------
(* Operand forwarding and load-use stalls (riscv_hazard.sv). op is the      *)
(* decoded instruction in ID and if_id_valid tells whether there is one;    *)
(* id_ex and ex_mem are the pipeline registers of EX and MEM.               *)
EXTENDS Naturals

(* Mutant of ForwardSel: a result in EX/MEM is not seen. *)
ForwardSel_NoExMem(if_id_valid, use_rs, rs, id_ex, ex_mem) ==
  IF /\ if_id_valid /\ use_rs /\ rs # 0
     /\ id_ex.valid /\ id_ex.op.reg_write
     /\ ~id_ex.op.mem_read /\ id_ex.op.rd = rs THEN "MEM" ELSE "REG"

(* Where the operand of the instruction in decode will be found next cycle: *)
(* "REG" the captured register-file data, "MEM" in EX/MEM, "WB" in MEM/WB.  *)
ForwardSel(if_id_valid, use_rs, rs, id_ex, ex_mem) ==
  IF ~(if_id_valid /\ use_rs /\ rs # 0) THEN "REG"
  ELSE IF /\ id_ex.valid /\ id_ex.op.reg_write
          /\ ~id_ex.op.mem_read /\ id_ex.op.rd = rs THEN "MEM"
  ELSE IF ex_mem.valid /\ ex_mem.op.reg_write /\ ex_mem.op.rd = rs THEN "WB"
  ELSE "REG"

(* The first cycle of a load-use stall: stall_if, stall_id and bubble_ex.   *)
LoadHazardEx(if_id_valid, op, id_ex) ==
  /\ if_id_valid /\ id_ex.valid /\ id_ex.op.mem_read /\ id_ex.op.rd # 0
  /\ \/ op.use_rs1 /\ op.rs1 = id_ex.op.rd
     \/ op.use_rs2 /\ op.rs2 = id_ex.op.rd
=============================================================================
