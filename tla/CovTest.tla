------------------------------- MODULE CovTest -------------------------------
(* The coverage test (riscv_instr_cov_test.py) reading the CSV traces of    *)
(* one run. Beside it runs what it reads about: the program of the trace,   *)
(* whose registers are x. A row of a trace is written for an executed       *)
(* instruction; its operands are in the order of the disassembly.           *)
EXTENDS CoverGroups

CONSTANTS
  Regs,           \* the registers of the program, integer and floating-point
  supported_isa,  \* riscv_core_setting: the groups of the target
  Traces          \* see trace

(* Regs \subseteq DOMAIN riscv_reg_t \cup DOMAIN riscv_fpr_t. A member of     *)
(* Traces is [instrs, files, rows, order]: what the program executes (see   *)
(* Asm), the bounds on the traces of the command line and on the rows of    *)
(* all of them, and how a load or store is written: "imm_base" as the       *)
(* collector reads it, or "base_imm" as the log converters write it.        *)

VARIABLES
  trace,          \* the traces of this run
  x,              \* the registers of the running program
  gpr_state,      \* riscv_cov_instr.gpr_state, one for all the traces
  pre_instr,      \* the instruction sampled last
  instr_cnt,      \* of instr_cg, per trace
  entry_cnt, total_entry_cnt, skipped_cnt, unexpected_illegal_instr_cnt,
  expect_illegal_instr,
  phase, files, rows,
  seen            \* what was read: see Init

vars == <<trace, x, gpr_state, pre_instr, instr_cnt, entry_cnt, total_entry_cnt,
          skipped_cnt, unexpected_illegal_instr_cnt, expect_illegal_instr,
          phase, files, rows, seen>>
counters == <<total_entry_cnt, skipped_cnt, unexpected_illegal_instr_cnt>>

IsFpr(r) == r \in DOMAIN riscv_fpr_t
Blank(r) == IF IsFpr(r) THEN "zero" ELSE 0
NoOperands == {"NOP", "WFI", "FENCE", "FENCE_I", "EBREAK", "C_EBREAK",
               "SFENCE_VMA", "ECALL", "C_NOP", "MRET", "SRET", "URET"}

(* An executed instruction is [name, rd, rs1, rs2, rs3, imm, val, form]: rd *)
(* and val are what it wrote (Absent for a register it has not), form how   *)
(* its row looks ("plain", "malformed", or with the word illegal in a       *)
(* field).                                                                  *)
Absent == ""
(* Its operands in the row:                                                 *)
Reg(r) == <<IF IsFpr(r) THEN "f" ELSE "x", r>>
Imm(m) == <<"i", m.imm>>
Mem(m, r) == IF trace.order = "imm_base" THEN <<Reg(r), Imm(m), Reg(m.rs1)>>
             ELSE <<Reg(r), Reg(m.rs1), Imm(m)>>
Operands(m, a) ==
  CASE m.name \in NoOperands -> <<>>
    [] a.category = "LOAD" /\ m.name \notin {"FSD"} -> Mem(m, m.rd)
    [] a.category = "STORE" \/ m.name = "FSD" -> Mem(m, m.rs2)
    [] a.category = "CSR" -> <<Reg(m.rd), <<"c", MEPC>>, Reg(m.rs1)>>
    [] a.format \in {"U", "J"} -> <<Reg(m.rd), Imm(m)>>
    [] a.format = "B" -> <<Reg(m.rs1), Reg(m.rs2), Imm(m)>>
    [] a.format = "I" /\ a.category \notin {"LOAD", "CSR"} /\ m.name \notin NoOperands ->
         IF a.group \in {"RV32F", "RV32D"} THEN <<Reg(m.rd), Reg(m.rs1)>>
         ELSE <<Reg(m.rd), Reg(m.rs1), Imm(m)>>
    [] a.format = "R" /\ a.category # "CSR" -> <<Reg(m.rd), Reg(m.rs1), Reg(m.rs2)>>
    [] a.format = "R4" -> <<Reg(m.rd), Reg(m.rs1), Reg(m.rs2), Reg(m.rs3)>>
    [] a.format = "CI" /\ a.category # "LOAD" /\ m.name \notin NoOperands ->
         <<Reg(m.rd), Imm(m)>>
    [] a.format \in {"CA", "CR"} /\ a.category # "JUMP" -> <<Reg(m.rd), Reg(m.rs2)>>
    [] a.format = "CB" -> <<Reg(m.rs1), Imm(m)>>
    [] a.format = "CR" /\ a.category = "JUMP" -> <<Reg(m.rs1)>>
    [] a.format = "CJ" -> <<Imm(m)>>
Asm(m) == Operands(m, get_attr_list(m.name))

-----------------------------------------------------------------------------
(* Nothing read yet: no register known to the collector, no instruction     *)
(* sampled, no silent row.                                                  *)
Nothing == [known |-> {}, silent |-> 0, last |-> <<>>, before |-> <<>>]

Init ==
  /\ trace \in Traces
  /\ x = [r \in Regs |-> Blank(r)] /\ gpr_state = x
  /\ pre_instr = assign_attributes("NOP")
  /\ instr_cnt = 0 /\ entry_cnt = 0 /\ total_entry_cnt = 0
  /\ skipped_cnt = 0 /\ unexpected_illegal_instr_cnt = 0
  /\ expect_illegal_instr = FALSE
  /\ phase = "idle" /\ files = 0 /\ rows = 0
  /\ seen = Nothing

(* Mutant of OpenFile: instr_cg is not reset. *)
OpenFile_NoReset ==
  /\ phase = "idle" /\ files < trace.files
  /\ phase' = "reading" /\ files' = files + 1
  /\ entry_cnt' = 0
  /\ x' = [r \in Regs |-> Blank(r)]
  /\ seen' = [Nothing EXCEPT !.silent = seen.silent]
  /\ UNCHANGED <<trace, instr_cnt, gpr_state, pre_instr, counters, expect_illegal_instr, rows>>
(* Mutant of OpenFile: the count of the trace before is kept. *)
OpenFile_KeepCount ==
  /\ phase = "idle" /\ files < trace.files
  /\ phase' = "reading" /\ files' = files + 1
  /\ entry_cnt' = entry_cnt /\ instr_cnt' = 0
  /\ x' = [r \in Regs |-> Blank(r)]
  /\ seen' = [Nothing EXCEPT !.silent = seen.silent]
  /\ UNCHANGED <<trace, gpr_state, pre_instr, counters, expect_illegal_instr, rows>>
(* The next trace, of another program. gpr_state stays, and so does pre_instr. *)
OpenFile ==
  /\ phase = "idle" /\ files < trace.files
  /\ phase' = "reading" /\ files' = files + 1
  /\ entry_cnt' = 0 /\ instr_cnt' = 0
  /\ x' = [r \in Regs |-> Blank(r)]
  /\ seen' = [Nothing EXCEPT !.silent = seen.silent]
  /\ UNCHANGED <<trace, gpr_state, pre_instr, counters, expect_illegal_instr, rows>>

(* The program executes m, and its row is the next one.                     *)
Executes(m) ==
  /\ phase = "reading" /\ rows < trace.rows
  /\ rows' = rows + 1 /\ UNCHANGED <<trace, files>>
  /\ x' = IF m.rd \in Regs \ {"ZERO"} THEN [x EXCEPT ![m.rd] = m.val] ELSE x
Writes(m) == {m.rd} \cap (Regs \ {"ZERO"})
Unsampled(m, silent) ==
  seen' = [seen EXCEPT !.known = @ \ Writes(m),
                       !.silent = @ + silent]

(* A row with the wrong number of columns.                                  *)
MalformedRow(m) ==
  /\ m.form = "malformed" /\ Executes(m)
  /\ skipped_cnt' = skipped_cnt + 1 /\ entry_cnt' = entry_cnt + 1
  /\ Unsampled(m, 0)
  /\ UNCHANGED <<gpr_state, pre_instr, instr_cnt, total_entry_cnt,
                 unexpected_illegal_instr_cnt, expect_illegal_instr, phase>>

(* Rows the test passes over without counting them: three pseudo-           *)
(* instructions, and every name with amo, lr or sc in it, as jalr has.      *)
PassedOver == {"li", "ret", "la", "JALR", "C_JALR"}
Spoken(m) == expect_illegal_instr' = (expect_illegal_instr \/ m.form = "illegal")
SilentRow(m) ==
  /\ m.form # "malformed" /\ m.name \in PassedOver /\ Executes(m) /\ Spoken(m)
  /\ Unsampled(m, 1)
  /\ UNCHANGED <<gpr_state, pre_instr, instr_cnt, entry_cnt, counters, phase>>

(* sample() does not know the name.                                         *)
UnknownRow(m) ==
  /\ m.form # "malformed" /\ m.name = "unknown" /\ Executes(m) /\ Spoken(m)
  /\ unexpected_illegal_instr_cnt' =
       unexpected_illegal_instr_cnt + (IF expect_illegal_instr' THEN 0 ELSE 1)
  /\ entry_cnt' = entry_cnt + 1
  /\ Unsampled(m, 0)
  /\ UNCHANGED <<gpr_state, pre_instr, instr_cnt, total_entry_cnt, skipped_cnt, phase>>

Sampleable(m) == m.form # "malformed" /\ m.name \notin PassedOver \cup {"unknown"}
InSupportedGroup(m) ==
  m.name \in NamesWithAttr /\ get_attr_list(m.name).group \in supported_isa

(* A known instruction of a group the target does not have.                 *)
UnsupportedRow(m) ==
  /\ Sampleable(m) /\ m.name \in NamesWithAttr /\ ~InSupportedGroup(m)
  /\ Executes(m) /\ Spoken(m)
  /\ entry_cnt' = entry_cnt + 1
  /\ Unsampled(m, 0)
  /\ UNCHANGED <<gpr_state, pre_instr, instr_cnt, counters, phase>>

IsFp(i) == i.group \in {"RV32F", "RV32D"}
HasReadable(i, ops) == IF IsFp(i) THEN FpSrcReadable(i, ops) ELSE SrcReadable(i, ops)
Readable(m) ==
  m.name \notin NoOperands => HasReadable(assign_attributes(m.name), Asm(m))

(* assign_trace_info_to_instr: the sources with the register values so far, *)
(* then each update of the row.                                             *)
WithSources(i, ops, s) ==
  IF IsFp(i) THEN FpUpdateSrc(i, ops, s) ELSE update_src_regs(i, ops, s)
WithUpdates(i, m) ==
  IF Writes(m) = {} THEN i
  ELSE IF IsFp(i) THEN FpUpdateDst(i, m.rd, m.val) ELSE update_dst_regs(i, m.rd, m.val)
(* Mutant of AssignTraceInfo: the update comes first. *)
AssignTraceInfo_DstFirst(m) ==
  LET i == assign_attributes(m.name)
      s == [r \in Regs |-> IF r \in Writes(m) THEN m.val ELSE gpr_state[r]]
  IN  IF m.name \in NoOperands THEN i
      ELSE WithUpdates(WithSources(i, Asm(m), s), m)
AssignTraceInfo(m) ==
  IF m.name \in NoOperands THEN assign_attributes(m.name)
  ELSE WithUpdates(WithSources(assign_attributes(m.name), Asm(m), gpr_state), m)

(* Mutant of UpdatedState: the register keeps its first value. *)
UpdatedState_First(m) ==
  [r \in Regs |-> IF r \in Writes(m) /\ gpr_state[r] = Blank(r) THEN m.val ELSE gpr_state[r]]
(* update_dst_regs writes the shared register state.                        *)
UpdatedState(m) ==
  IF m.name \in NoOperands THEN gpr_state
  ELSE [r \in Regs |-> IF r \in Writes(m) THEN m.val ELSE gpr_state[r]]

(* sample() of the test, and of instr_cg.                                   *)
Classified(i)  == IF IsFp(i) THEN FpPreSample(i) ELSE pre_sample(i)
WithHazards(i) == IF instr_cnt' > 1 THEN check_hazard_condition(i, pre_instr) ELSE i
SampledRow(m) ==
  /\ Sampleable(m) /\ InSupportedGroup(m) /\ Readable(m)
  /\ Executes(m) /\ Spoken(m)
  /\ instr_cnt' = instr_cnt + 1
  /\ pre_instr' = WithHazards(Classified(AssignTraceInfo(m)))
  /\ gpr_state' = UpdatedState(m)
  /\ entry_cnt' = entry_cnt + 1
  /\ seen' = [seen EXCEPT !.known = @ \cup Writes(m),
                          !.last = <<[m |-> m, x |-> x, known |-> seen.known]>>,
                          !.before = seen.last]
  /\ UNCHANGED <<counters, phase>>

(* The row raises an exception, which nothing catches: a name without       *)
(* attributes, or operands that are not what the format expects.            *)
Abort(m) ==
  /\ Sampleable(m)
  /\ m.name \in NamesWithAttr => InSupportedGroup(m) /\ ~Readable(m)
  /\ Executes(m) /\ Spoken(m)
  /\ phase' = "aborted"
  /\ Unsampled(m, 0)
  /\ UNCHANGED <<gpr_state, pre_instr, instr_cnt, entry_cnt, counters>>

EndFile ==
  /\ phase = "reading"
  /\ total_entry_cnt' = total_entry_cnt + entry_cnt
  /\ phase' = "idle"
  /\ UNCHANGED <<trace, x, gpr_state, pre_instr, instr_cnt, entry_cnt, skipped_cnt,
                 unexpected_illegal_instr_cnt, expect_illegal_instr, files, rows, seen>>

(* get_coverage_report: the end, whatever was skipped or illegal.           *)
Report ==
  /\ phase = "idle" /\ files = trace.files
  /\ phase' = "reported"
  /\ UNCHANGED <<trace, x, gpr_state, pre_instr, instr_cnt, entry_cnt, counters,
                 expect_illegal_instr, files, rows, seen>>

Ended == phase \in {"reported", "aborted"} /\ UNCHANGED vars

Next ==
  \/ OpenFile \/ EndFile \/ Report \/ Ended
  \/ \E m \in trace.instrs : \/ MalformedRow(m) \/ SilentRow(m) \/ UnknownRow(m)
                       \/ UnsupportedRow(m) \/ SampledRow(m) \/ Abort(m)

Spec == Init /\ [][Next]_vars

-----------------------------------------------------------------------------
TypeOK ==
  /\ DOMAIN x = Regs /\ DOMAIN gpr_state = Regs
  /\ DOMAIN pre_instr = DOMAIN assign_attributes("NOP")
  /\ phase \in {"idle", "reading", "reported", "aborted"}
  /\ files \in 0 .. trace.files /\ rows \in 0 .. trace.rows /\ entry_cnt \in 0 .. trace.rows
  /\ {instr_cnt, total_entry_cnt, skipped_cnt, unexpected_illegal_instr_cnt}
       \subseteq 0 .. trace.rows
  /\ expect_illegal_instr \in BOOLEAN

(* The collector's value of a register is the program's whenever the last   *)
(* write of that register came in a row that was sampled.                   *)
StateTracksProgram == \A r \in seen.known : gpr_state[r] = x[r]

(* The row sampled last, the one before it in the same trace.               *)
Sampled1 == seen.last # <<>>
Last == seen.last[1]
Before == seen.before[1]
Knows(l, r) == r = "ZERO" \/ r \in l.known

(* Whatever the format and the order of its operands, the sampled record    *)
(* has the registers, the immediate and the result of its own row, and the  *)
(* source values are those before the row's own write.                      *)
OwnOperands ==
  Sampled1 /\ ~IsFp(pre_instr) =>
    LET m == Last.m
    IN  /\ m.rs1 # Absent =>
             /\ pre_instr.rs1 = riscv_reg_t[m.rs1]
             /\ Knows(Last, m.rs1) => pre_instr.rs1_value = Last.x[m.rs1]
        /\ m.rs2 # Absent =>
             /\ pre_instr.rs2 = riscv_reg_t[m.rs2]
             /\ Knows(Last, m.rs2) => pre_instr.rs2_value = Last.x[m.rs2]
        /\ m.rd \notin {Absent, "ZERO"} =>
             pre_instr.rd = riscv_reg_t[m.rd] /\ pre_instr.rd_value = m.val
        /\ pre_instr.imm = m.imm

(* The load/store hazard of a sampled access is the one the program has     *)
(* with the row sampled before it in this trace, by their addresses; the    *)
(* first row of a trace has none, whatever the trace before it ended with.  *)
Kind(l) == get_attr_list(l.m.name).category
Addr(l) == l.x[l.m.rs1] + l.m.imm
Accesses(l) ==
  Kind(l) \in {"LOAD", "STORE"} /\ get_attr_list(l.m.name).group # "RV32F"
LsuHazardExact ==
  Sampled1 /\ Accesses(Last) /\ Knows(Last, Last.m.rs1) =>
    IF seen.before = <<>> \/ (seen.before # <<>> /\ ~Accesses(Before))
    THEN pre_instr.lsu_hazard = hazard_e["NO_HAZARD"]
    ELSE Knows(Before, Before.m.rs1) =>
           pre_instr.lsu_hazard =
             hazard_e[CASE Addr(Last) # Addr(Before) -> "NO_HAZARD"
                        [] Addr(Last) = Addr(Before) /\ Kind(Last) = "LOAD" ->
                             IF Kind(Before) = "STORE" THEN "RAW_HAZARD" ELSE "NO_HAZARD"
                        [] Addr(Last) = Addr(Before) /\ Kind(Last) = "STORE" ->
                             IF Kind(Before) = "STORE" THEN "WAW_HAZARD" ELSE "WAR_HAZARD"]

(* branch_hit says whether the program took the branch.                     *)
Outcome(name, a, b) ==
  CASE name = "BEQ" -> a = b [] name = "BNE" -> a # b
    [] name = "BLTU" -> a < b [] name = "BGEU" -> ~(a < b)
BranchOutcome ==
  /\ Sampled1 /\ Last.m.name \in {"BEQ", "BNE", "BLTU", "BGEU"}
  /\ Knows(Last, Last.m.rs1) /\ Knows(Last, Last.m.rs2)
  => (pre_instr.branch_hit = 1) =
      Outcome(Last.m.name, Last.x[Last.m.rs1], Last.x[Last.m.rs2])

(* The signs are those of the program's values, and a division is by zero   *)
(* exactly when the divisor is.                                             *)
ValueClasses ==
  Sampled1 /\ ~IsFp(pre_instr) =>
    LET m == Last.m
    IN  /\ m.rs1 # Absent /\ Knows(Last, m.rs1) =>
             (pre_instr.rs1_sign = 1) = (Last.x[m.rs1] >= MinValue)
        /\ m.rd \notin {Absent, "ZERO"} => (pre_instr.rd_sign = 1) = (m.val >= MinValue)
        /\ m.name \in Divisions /\ Knows(Last, m.rs2) =>
             (pre_instr.div_result = div_result_e["DIV_BY_ZERO"]) = (Last.x[m.rs2] = 0)

(* Every row read is in the report's counts, but for those passed over and  *)
(* the one that aborted.                                                    *)
RowsAccounted ==
  rows = total_entry_cnt + seen.silent
           + (IF phase \in {"reading", "aborted"} THEN entry_cnt ELSE 0)
           + (IF phase = "aborted" THEN 1 ELSE 0)

(* The sources of a fused multiply-add and of a move or conversion are the  *)
(* row's own, with their values.                                            *)
FpSources ==
  Sampled1 /\ IsFp(pre_instr) /\ pre_instr.format \in {"I", "R4"} =>
    LET m == Last.m
    IN  /\ IsFpr(m.rs1) => /\ pre_instr.fs1 = riscv_fpr_t[m.rs1]
                           /\ Knows(Last, m.rs1) => pre_instr.fs1_value = Last.x[m.rs1]
        /\ m.rs2 # Absent => /\ pre_instr.fs2 = riscv_fpr_t[m.rs2]
                             /\ Knows(Last, m.rs2) => pre_instr.fs2_value = Last.x[m.rs2]
=============================================================================
