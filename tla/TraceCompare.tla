---------------------------- MODULE TraceCompare ----------------------------
(* The trace regression of one seed (run_simulation.py, process_seed): the  *)
(* log of Spike and the log of the RTL become CSV files, and the two are    *)
(* compared. A log is a sequence of lines; a row of a CSV is the sequence   *)
(* of its register updates <<rd, val>>, empty when the field is.            *)
EXTENDS Integers, Sequences, SequencesExt

CONSTANTS
  Programs,    \* what Spike may execute: see Lines
  Deviations   \* how the core may differ from it: [kind, at]

VARIABLES
  program, deviation,                  \* of this seed
  stage,                               \* where process_seed is
  line, in_trampoline, instr,          \* read_spike_trace
  csv_1, csv_2,
  trace_1_index, trace_2_index, seeking,
  gpr_val_1, gpr_val_2, matched_cnt, mismatch_cnt

logVars == <<line, in_trampoline, instr>>
cmpVars == <<trace_1_index, trace_2_index, seeking, gpr_val_1, gpr_val_2,
             matched_cnt, mismatch_cnt>>
vars == <<program, deviation, stage, logVars, csv_1, csv_2, cmpVars>>

Regs == {"zero", "a", "b"}

-----------------------------------------------------------------------------
(* An executed instruction is [kind, rd, val]: one that writes a register,  *)
(* a write of x0, a store, an illegal instruction. The program ends with    *)
(* its ECALL, after which both logs go on with the handler.                 *)
Write(r, v) == [kind |-> "write", rd |-> r, val |-> v]
Ecall == [kind |-> "ecall", rd |-> "zero", val |-> 0]
Handler == Write("a", 9)

(* Spike's log with -l and --log-commits: no commit line for x0.            *)
Core(i) == [kind |-> "core", i |-> i]
Line(k, i) == [kind |-> k, i |-> i]
Lines(i) ==
  CASE i.kind = "write" /\ i.rd # "zero" -> <<Core(i), Line("commit", i)>>
    [] i.kind = "store" -> <<Core(i), Line("other", i)>>
    [] i.kind = "illegal" -> <<Core(i), Line("illegal", i)>>
    [] OTHER -> <<Core(i)>>
Trampoline ==
  <<Core(Write("b", 5)), Line("commit", Write("b", 5)), Line("end_trampoline", Ecall)>>
SpikeLog ==
  Trampoline \o FlattenSeq([k \in 1 .. Len(program) |-> Lines(program[k])])
    \o Lines(Ecall) \o Lines(Handler)

(* What the core retires; its log ends there, or goes on with the handler.  *)
Deviating(p, d) ==
  CASE d.kind = "data" -> [p EXCEPT ![d.at].val = @ + 1]
    [] d.kind = "lost" -> RemoveAt(p, d.at)
    [] d.kind = "extra" -> InsertAt(p, d.at, Write("b", 2))
    [] d.kind = "cut" -> SubSeq(p, 1, d.at - 1)
    [] d.kind = "handler" -> Append(p, Handler)
    [] OTHER -> p
RtlLog == Deviating(program, deviation)

-----------------------------------------------------------------------------
Init ==
  /\ program \in Programs /\ deviation \in Deviations
  /\ stage = "spike"
  /\ line = 1 /\ in_trampoline = TRUE /\ instr = <<>>
  /\ csv_1 = <<>> /\ csv_2 = <<>>
  /\ trace_1_index = 0 /\ trace_2_index = 0 /\ seeking = FALSE
  /\ gpr_val_1 = [r \in Regs |-> 0] /\ gpr_val_2 = gpr_val_1
  /\ matched_cnt = 0 /\ mismatch_cnt = 0

(* process_spike_sim_log writes the entries with an update, and the ECALL.  *)
Yielded(e) ==
  IF e.gpr # <<>> \/ e.kind = "ecall" THEN Append(csv_1, e.gpr) ELSE csv_1
Entry(i) == [kind |-> i.kind, gpr |-> <<>>]

(* A line that ends the instruction in hand.                                *)
(* Mutant of Ends: the instruction in hand is dropped at the next one.      *)
Ends_Illegal(l) == l.kind = "illegal"
Ends(l) == l.kind \in {"core", "illegal"}

(* One line of Spike's log: the states TRAMPOLINE, INSTR and EFFECT of      *)
(* read_spike_trace. Reading stops at the ECALL.                            *)
ReadSpike ==
  /\ stage = "spike" /\ line <= Len(SpikeLog)
  /\ LET l == SpikeLog[line]
     IN  IF in_trampoline
           THEN /\ in_trampoline' = (l.kind # "end_trampoline")
                /\ line' = line + 1 /\ UNCHANGED <<instr, csv_1>>
         ELSE /\ UNCHANGED in_trampoline
              /\ line' = IF l.kind = "core" /\ l.i.kind = "ecall"
                           THEN Len(SpikeLog) + 1 ELSE line + 1
              /\ instr' = CASE l.kind = "core" -> <<Entry(l.i)>>
                            [] l.kind = "illegal" -> <<>>
                            [] l.kind = "commit" /\ instr # <<>> ->
                                 <<[instr[1] EXCEPT !.gpr = Append(@, <<l.i.rd, l.i.val>>)]>>
                            [] OTHER -> instr
              /\ csv_1' = IF instr # <<>> /\ Ends(l)
                            THEN Yielded(instr[1]) ELSE csv_1
  /\ UNCHANGED <<program, deviation, stage, csv_2, cmpVars>>

EndSpike ==
  /\ stage = "spike" /\ line > Len(SpikeLog)
  /\ csv_1' = IF instr # <<>> THEN Yielded(instr[1]) ELSE csv_1
  /\ stage' = "rtl" /\ line' = 1
  /\ UNCHANGED <<program, deviation, in_trampoline, instr, csv_2, cmpVars>>

(* rtl_log_to_csv.py keeps the lines with a write of a register but x0.     *)
Kept(i) == i.kind = "write" /\ i.rd # "zero"
ReadRtl ==
  /\ stage = "rtl" /\ line <= Len(RtlLog)
  /\ csv_2' = IF Kept(RtlLog[line])
                THEN Append(csv_2, <<<<RtlLog[line].rd, RtlLog[line].val>>>>) ELSE csv_2
  /\ line' = line + 1
  /\ UNCHANGED <<program, deviation, stage, in_trampoline, instr, csv_1, cmpVars>>
EndRtl ==
  /\ stage = "rtl" /\ line > Len(RtlLog)
  /\ stage' = "rows"
  /\ UNCHANGED <<program, deviation, logVars, csv_1, csv_2, cmpVars>>

-----------------------------------------------------------------------------
(* check_update_gpr: the state after a row, and whether the row changed it. *)
Updated(row, s) == IF row = <<>> THEN s ELSE [s EXCEPT ![row[1][1]] = row[1][2]]
Changes(row, s) == row # <<>> /\ s[row[1][1]] # row[1][2]

(* The next row of trace 1; unless it changes a register, the one after it. *)
NextRow ==
  /\ stage = "rows" /\ ~seeking /\ trace_1_index < Len(csv_1)
  /\ trace_1_index' = trace_1_index + 1
  /\ gpr_val_1' = Updated(csv_1[trace_1_index'], gpr_val_1)
  /\ seeking' = Changes(csv_1[trace_1_index'], gpr_val_1)
  /\ UNCHANGED <<program, deviation, stage, logVars, csv_1, csv_2, trace_2_index,
                 gpr_val_2, matched_cnt, mismatch_cnt>>

(* The end of trace 2 ends the comparison, whatever is left of trace 1.     *)
RowDone(index) ==
  /\ seeking' = FALSE
  /\ stage' = IF index = Len(csv_2) THEN "rest" ELSE "rows"

(* The row found is compared with the one of trace 1.                       *)
(* Mutant of Agrees: only the registers are compared.                       *)
Agrees_Rd(row, found) == row[1][1] = found[1][1]
(* Mutant of Agrees: only the values are.                                   *)
Agrees_Value(row, found) == row[1][2] = found[1][2]
Agrees(row, found) == row = found

Seek ==
  /\ stage = "rows" /\ seeking /\ trace_2_index < Len(csv_2)
  /\ LET row == csv_2[trace_2_index + 1]
     IN  /\ trace_2_index' = trace_2_index + 1
         /\ gpr_val_2' = Updated(row, gpr_val_2)
         /\ IF ~Changes(row, gpr_val_2)
              THEN UNCHANGED <<seeking, stage, matched_cnt, mismatch_cnt>>
              ELSE /\ RowDone(trace_2_index')
                   /\ IF Agrees(csv_1[trace_1_index], row)
                        THEN matched_cnt' = matched_cnt + 1 /\ UNCHANGED mismatch_cnt
                        ELSE mismatch_cnt' = mismatch_cnt + 1 /\ UNCHANGED matched_cnt
  /\ UNCHANGED <<program, deviation, logVars, csv_1, csv_2, trace_1_index, gpr_val_1>>
SeekFails ==
  /\ stage = "rows" /\ seeking /\ trace_2_index = Len(csv_2)
  /\ mismatch_cnt' = mismatch_cnt + 1
  /\ RowDone(trace_2_index)
  /\ UNCHANGED <<program, deviation, logVars, csv_1, csv_2, trace_1_index,
                 trace_2_index, gpr_val_1, gpr_val_2, matched_cnt>>
EndRows ==
  /\ stage = "rows" /\ ~seeking /\ trace_1_index = Len(csv_1)
  /\ stage' = "rest"
  /\ UNCHANGED <<program, deviation, logVars, csv_1, csv_2, cmpVars>>

(* Rows of trace 2 that are left: the first that changes a register makes   *)
(* all of them mismatches.                                                  *)
Rest ==
  /\ stage = "rest" /\ trace_2_index < Len(csv_2)
  /\ LET row == csv_2[trace_2_index + 1]
     IN  /\ gpr_val_2' = Updated(row, gpr_val_2)
         /\ IF Changes(row, gpr_val_2)
              THEN /\ mismatch_cnt' = mismatch_cnt + (Len(csv_2) - trace_2_index)
                   /\ stage' = "done" /\ UNCHANGED trace_2_index
              ELSE /\ trace_2_index' = trace_2_index + 1
                   /\ UNCHANGED <<mismatch_cnt, stage>>
  /\ UNCHANGED <<program, deviation, logVars, csv_1, csv_2, trace_1_index, seeking,
                 gpr_val_1, matched_cnt>>
EndRest ==
  /\ stage = "rest" /\ trace_2_index = Len(csv_2)
  /\ stage' = "done"
  /\ UNCHANGED <<program, deviation, logVars, csv_1, csv_2, cmpVars>>
Done == stage = "done" /\ UNCHANGED vars

Next == ReadSpike \/ EndSpike \/ ReadRtl \/ EndRtl \/ NextRow \/ Seek \/ SeekFails
          \/ EndRows \/ Rest \/ EndRest \/ Done
Spec == Init /\ [][Next]_vars

-----------------------------------------------------------------------------
(* Every variable has its type. *)
TypeOK ==
  /\ program \in Programs /\ deviation \in Deviations
  /\ stage \in {"spike", "rtl", "rows", "rest", "done"}
  /\ line \in 1 .. Len(SpikeLog) + 1 /\ in_trampoline \in BOOLEAN /\ Len(instr) <= 1
  /\ trace_1_index \in 0 .. Len(csv_1) /\ trace_2_index \in 0 .. Len(csv_2)
  /\ seeking \in BOOLEAN /\ DOMAIN gpr_val_1 = Regs /\ DOMAIN gpr_val_2 = Regs
  /\ matched_cnt \in 0 .. Len(csv_1) /\ mismatch_cnt \in 0 .. Len(csv_1) + Len(csv_2)

(* The CSV of Spike has the register writes of the program, in order: none  *)
(* of the trampoline, none of the handler, none lost or given to another    *)
(* instruction, whatever lines stand between; then the row of the ECALL.    *)
RowsUpTo(p) ==
  LET written[k \in 0 .. Len(p)] ==
        IF k = 0 THEN <<>>
        ELSE IF Kept(p[k]) THEN Append(written[k - 1], <<<<p[k].rd, p[k].val>>>>)
        ELSE written[k - 1]
  IN  written
Rows(p) == RowsUpTo(p)[Len(p)]
SpikeRowsExact == stage # "spike" => csv_1 = Append(Rows(program), <<>>)

(* The register states a trace goes through; rows that write the value the  *)
(* register has already do not count.                                       *)
Walk(csv) ==
  LET walk[k \in 0 .. Len(csv)] ==
        IF k = 0 THEN [state |-> [r \in Regs |-> 0], past |-> <<>>]
        ELSE IF Changes(csv[k], walk[k - 1].state)
               THEN [state |-> Updated(csv[k], walk[k - 1].state),
                     past |-> Append(walk[k - 1].past, Updated(csv[k], walk[k - 1].state))]
        ELSE walk[k - 1]
  IN  walk
History(csv) == Walk(csv)[Len(csv)].past

(* The verdict: a trace that goes through the states of the reference       *)
(* passes; one that passes went through no other state, in no other order.  *)
Passed == stage = "done" /\ mismatch_cnt = 0
VerdictSound ==
  /\ Passed => IsPrefix(History(csv_2), History(csv_1))
  /\ stage = "done" /\ History(csv_1) = History(csv_2) => Passed

(* Up to the first mismatch the two traces are looked at in the same state. *)
InStep ==
  stage = "rows" /\ mismatch_cnt = 0 /\ ~seeking => gpr_val_1 = gpr_val_2
=============================================================================
