---------------------------- MODULE Environment -----------------------------
(* The programs around the core, each by itself: the loader on the ARM with *)
(* the program it loads, the checking half of the UVM environment, the      *)
(* generator of test programs, the comparison of traces, the coverage test. *)
(* A behaviour is one of them (part); the variables of the others stay      *)
(* parked.                                                                  *)
EXTENDS Integers, Sequences

CONSTANTS
  Apps, CodeWords, Tests, POLL_TIMEOUT, ImemFaults,                 \* Loader
  Spike, EcallPc, Faults, BadPc, BadData, Depth, LowMark, HighMark, \* UvmScoreboard
  Programs, Deviations,                                             \* TraceCompare
  InstrCnt, max_branch_step, Kinds, MaxStreams, JumpCnt, LoopLimit, \* InstrSequence
  CounterValues,
  XLEN, TraceRegs, supported_isa, Traces                                 \* CovTest

ASSUME LoaderAssumption ==
  /\ Apps \subseteq {"gcc", "selftest"}
  /\ CodeWords \in Nat \ {0} /\ Tests \in Nat \ {0} /\ POLL_TIMEOUT \in Nat \ {0}

(* The reference run comes to its one ECALL without ever repeating an       *)
(* address at once (an instruction that jumps to itself would never end);   *)
(* no commit has the address or the value of a deviation.                   *)
Commit == [pc : Nat, rd : Seq(Nat)]
ASSUME LogAssumption ==
  /\ Spike \in Seq(Commit) /\ EcallPc \in Nat
  /\ \E e \in 2 .. Len(Spike) :
       /\ \A k \in 1 .. Len(Spike) : Spike[k].pc = EcallPc <=> k = e
       /\ \A k \in 1 .. e - 1 : Spike[k].pc # Spike[k + 1].pc
  /\ \A k \in 1 .. Len(Spike) : Spike[k].pc # BadPc /\ Spike[k].rd # <<BadData>>
  /\ BadPc \in Nat \ {EcallPc} /\ BadData \in Nat
  /\ \A f \in Faults : f.kind = "none" \/ f.at \in 2 .. Len(Spike)
ASSUME MarksAssumption ==
  Depth \in Nat /\ LowMark \in Nat /\ HighMark \in Nat /\ LowMark < HighMark

(* What the programs of a trace execute before their ECALL, and the places  *)
(* a core may differ at.                                                    *)
ASSUME TraceAssumption ==
  /\ Programs \subseteq
       Seq([kind : {"write", "store", "illegal"}, rd : {"zero", "a", "b"}, val : Int])
  /\ \A d \in Deviations : d.kind \in {"data", "lost", "cut", "extra"} =>
       d.at \in Nat \ {0} /\ \A p \in Programs : d.at <= Len(p)

(* An instruction without operands writes no register.                      *)
ASSUME OperandAssumption ==
  \A t \in Traces : \A m \in t.instrs :
    m.name \in {"NOP", "WFI", "FENCE", "FENCE_I", "EBREAK", "C_EBREAK",
               "SFENCE_VMA", "ECALL", "C_NOP", "MRET", "SRET", "URET"}
    => m.rd \notin TraceRegs \ {"ZERO"}

(* The settings of the generator.                                           *)
ASSUME GeneratorAssumption ==
  /\ InstrCnt \in Nat /\ max_branch_step \in Nat /\ MaxStreams \in Nat
  /\ JumpCnt \in Nat \ {0} /\ CounterValues \in Nat \ {0}
  /\ Kinds \subseteq {"plain", "jal", "loop"}

VARIABLES part,
  \* Loader
  app, cpu_reset, imem, dmem, arm, i, poll, status, got, verdict,
  core_pc, a, b, fail_count,
  \* UvmScoreboard
  fault, retired, prev_pc, flow_stopped, trace_ptr, actual_fifo, expected_fifo,
  flow_tx, flow_ended, flow_error, checker_fifo, actual_buffer, expected_q,
  log_pos, ecall_detected, commit_error,
  \* CovTest
  trace, x, gpr_state, pre_instr, instr_cnt, entry_cnt, total_entry_cnt,
  skipped_cnt, unexpected_illegal_instr_cnt, expect_illegal_instr,
  phase, files, rows, seen,
  \* TraceCompare
  program, deviation, stage, line, in_trampoline, instr, csv_1, csv_2,
  trace_1_index, trace_2_index, seeking, gpr_val_1, gpr_val_2, matched_cnt,
  mismatch_cnt,
  \* InstrSequence
  gen_phase, instr_list, streams, j, label_idx, branch_target, pc, loop_cnt, visited

-----------------------------------------------------------------------------
Load     == INSTANCE Loader
Check    == INSTANCE UvmScoreboard
Compare  == INSTANCE TraceCompare
Generate == INSTANCE InstrSequence WITH phase <- gen_phase
Cov      == INSTANCE CovTest WITH Regs <- TraceRegs

(* The registers of a trace, x0 among them, and the operands of each of its *)
(* instructions: those the format names, the destination of a CA format a   *)
(* second time as a source, the stack pointer where it is implied; integer  *)
(* registers but in the floating-point groups, and as the base of any       *)
(* access. Not C_ADDI4SPN, whose immediate the collector never reads        *)
(* (riscv_cov_instr.py:511).                                                *)
Integers(r) == r \notin DOMAIN Cov!riscv_fpr_t
OperandsOfFormat(m) ==
  LET at == Cov!get_attr_list(m.name)
      stack == \/ m.name = "C_ADDI16SP" \/ at.format = "CSS"
               \/ at.format = "CI" /\ at.category = "LOAD"
  IN  /\ m.rs1 # Cov!Absent =>
           \/ at.format \in {"I", "R", "R4", "S", "B", "CL", "CS", "CB"}
           \/ at.format = "CA" /\ m.rs1 = m.rd
           \/ at.format = "CR" /\ at.category = "JUMP"
           \/ stack /\ m.rs1 = "SP"
      /\ m.rs2 # Cov!Absent =>
           \/ at.format \in {"R4", "S", "B", "CS", "CSS", "CA"}
           \/ at.format = "R" /\ at.category # "CSR"
           \/ at.format = "CR" /\ at.category # "JUMP"
           \/ m.name = "FSD"
      /\ m.imm # 0 => at.format \notin {"R", "R4", "CA", "CR"}
      /\ at.group \notin {"RV32F", "RV32D"} => Integers(m.rs1) /\ Integers(m.rs2)
      /\ at.category \in {"LOAD", "STORE"} => Integers(m.rs1)
      /\ m.name \in Cov!NoOperands => m.rs1 = Cov!Absent /\ m.rs2 = Cov!Absent /\ m.imm = 0
      /\ m.name # "C_ADDI4SPN"
ASSUME RowAssumption ==
  /\ "ZERO" \in TraceRegs /\ Cov!Absent \notin TraceRegs
  /\ TraceRegs \subseteq DOMAIN Cov!riscv_reg_t \cup DOMAIN Cov!riscv_fpr_t
  /\ \A t \in Traces : \A m \in t.instrs :
       /\ m.rd \in TraceRegs \cup {Cov!Absent} /\ m.imm \in Int
       /\ Integers(m.rd) => m.val \in Int
       /\ m.name \in Cov!NamesWithAttr => OperandsOfFormat(m)

loaderVars == <<app, cpu_reset, imem, dmem, arm, i, poll, status, got, verdict,
                core_pc, a, b, fail_count>>
checkVars  == <<fault, retired, prev_pc, flow_stopped, trace_ptr, actual_fifo,
                expected_fifo, flow_tx, flow_ended, flow_error, checker_fifo,
                actual_buffer, expected_q, log_pos, ecall_detected, commit_error>>
covVars    == <<trace, x, gpr_state, pre_instr, instr_cnt, entry_cnt,
                total_entry_cnt, skipped_cnt, unexpected_illegal_instr_cnt,
                expect_illegal_instr, phase, files, rows, seen>>
compareVars == <<program, deviation, stage, line, in_trampoline, instr, csv_1,
                 csv_2, trace_1_index, trace_2_index, seeking, gpr_val_1,
                 gpr_val_2, matched_cnt, mismatch_cnt>>
generateVars == <<gen_phase, instr_list, streams, j, label_idx, branch_target,
                  pc, loop_cnt, visited>>
vars == <<part, loaderVars, checkVars, covVars, compareVars, generateVars>>

ParkLoader ==
  /\ app = 0 /\ cpu_reset = 0 /\ imem = 0 /\ dmem = 0 /\ arm = "" /\ i = 0
  /\ poll = 0 /\ status = 0 /\ got = 0 /\ verdict = 0
  /\ core_pc = 0 /\ a = 0 /\ b = 0 /\ fail_count = 0
ParkCheck ==
  /\ fault = 0 /\ retired = 0 /\ prev_pc = 0 /\ flow_stopped = 0 /\ trace_ptr = 0
  /\ actual_fifo = 0 /\ expected_fifo = 0 /\ flow_tx = 0 /\ flow_ended = 0
  /\ flow_error = 0 /\ checker_fifo = 0 /\ actual_buffer = 0 /\ expected_q = 0
  /\ log_pos = 0 /\ ecall_detected = FALSE /\ commit_error = 0
ParkCov ==
  /\ trace = 0 /\ x = 0 /\ gpr_state = 0 /\ pre_instr = 0 /\ instr_cnt = 0
  /\ entry_cnt = 0 /\ total_entry_cnt = 0 /\ skipped_cnt = 0
  /\ unexpected_illegal_instr_cnt = 0 /\ expect_illegal_instr = 0
  /\ phase = 0 /\ files = 0 /\ rows = 0 /\ seen = 0
ParkCompare ==
  /\ program = 0 /\ deviation = 0 /\ stage = "" /\ line = 0 /\ in_trampoline = 0
  /\ instr = 0 /\ csv_1 = 0 /\ csv_2 = 0 /\ trace_1_index = 0 /\ trace_2_index = 0
  /\ seeking = 0 /\ gpr_val_1 = 0 /\ gpr_val_2 = 0 /\ matched_cnt = 0
  /\ mismatch_cnt = 0
ParkGenerate ==
  /\ gen_phase = "" /\ instr_list = 0 /\ streams = 0 /\ j = 0 /\ label_idx = 0
  /\ branch_target = 0 /\ pc = 0 /\ loop_cnt = 0 /\ visited = 0

Init ==
  /\ part \in {"loader", "check", "cov", "compare", "generate"}
  /\ IF part = "loader" THEN Load!Init ELSE ParkLoader
  /\ IF part = "check" THEN Check!Init ELSE ParkCheck
  /\ IF part = "cov" THEN Cov!Init ELSE ParkCov
  /\ IF part = "compare" THEN Compare!Init ELSE ParkCompare
  /\ IF part = "generate" THEN Generate!Init ELSE ParkGenerate

LoaderStep(A)   == /\ part = "loader" /\ A
                   /\ UNCHANGED <<part, checkVars, covVars, compareVars, generateVars>>
CheckStep(A)    == /\ part = "check" /\ A
                   /\ UNCHANGED <<part, loaderVars, covVars, compareVars, generateVars>>
CovStep(A)      == /\ part = "cov" /\ A
                   /\ UNCHANGED <<part, loaderVars, checkVars, compareVars, generateVars>>
CompareStep(A)  == /\ part = "compare" /\ A
                   /\ UNCHANGED <<part, loaderVars, checkVars, covVars, generateVars>>
GenerateStep(A) == /\ part = "generate" /\ A
                   /\ UNCHANGED <<part, loaderVars, checkVars, covVars, compareVars>>
Next == LoaderStep(Load!Next) \/ CheckStep(Check!Next) \/ CovStep(Cov!Next)
          \/ CompareStep(Compare!Next) \/ GenerateStep(Generate!Next)

Spec == Init /\ [][Next]_vars

(* The ARM program runs on; the processes of the simulator do; so does a    *)
(* generated program (LiveSpec of Loader, FairSpec of UvmScoreboard and of  *)
(* InstrSequence).                                                          *)
FairSpec ==
  /\ Spec
  /\ WF_vars(LoaderStep(Load!ArmStep)) /\ WF_vars(CheckStep(Check!Next))
  /\ WF_vars(GenerateStep(Generate!Next))

-----------------------------------------------------------------------------
TypeOK == CASE part = "loader" -> Load!TypeOK [] part = "check" -> Check!TypeOK
            [] part = "cov" -> Cov!TypeOK [] part = "compare" -> Compare!TypeOK
            [] part = "generate" -> Generate!TypeOK

(* The loader (run_gcc_program.c, simple_test.c): its verdict is about the  *)
(* program it loaded, all of which runs and whose DONE is its last word     *)
(* (GCC/main.c); it returns whatever the core does.                         *)
VerdictOfThisRun ==
  part = "loader" => Load!VerdictOfThisRun /\ Load!RunsWholeImage /\ Load!DoneIsLast
Returns == (arm = "hold") ~> (arm = "end")

(* The scoreboards (cpu_env.sv): no error for a core that agrees with       *)
(* Spike, an error for one deviation, and the test ends.                    *)
NoFalseAlarm == part = "check" => Check!NoFalseAlarm
DeviationReported ==
  part = "check" => Check!EarlyDataReported /\ Check!FlowFaultReported
TestEnds == (part = "check") ~> ecall_detected

(* The coverage test (riscv_cov_instr.py): its registers follow the         *)
(* program's, what it samples is what the program did, and the counts of    *)
(* its report are those of the rows.                                        *)
StateTracksProgram == part = "cov" => Cov!StateTracksProgram /\ Cov!RowsAccounted
SampleExact ==
  part = "cov" => /\ Cov!OwnOperands /\ Cov!FpSources /\ Cov!LsuHazardExact
                  /\ Cov!BranchOutcome /\ Cov!ValueClasses

(* The CSV of Spike is its program (spike_log_to_trace_csv.py); the verdict *)
(* on a seed is about the register states both traces go through, and while *)
(* they agree both are looked at in the same state (instr_trace_compare.py).*)
VerdictSound ==
  part = "compare" => Compare!SpikeRowsExact /\ Compare!VerdictSound /\ Compare!InStep

(* A generated program (riscv_instr_sequence.py): its targets resolve, and  *)
(* forward; its streams are whole, and one of jumps takes all of them; it   *)
(* ends, whichever way its branches go.                                     *)
ProgramWhole ==
  part = "generate" => /\ Generate!TargetsResolve
                       /\ Generate!StreamsWhole /\ Generate!JumpsAllTaken
ProgramEnds == (part = "generate") ~> (gen_phase = "end")
=============================================================================
