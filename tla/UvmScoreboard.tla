--------------------------- MODULE UvmScoreboard ----------------------------
(* The checking half of the UVM environment (cpu_env.sv): two monitors send *)
(* what the core retires to the commit scoreboard and to the flow predictor *)
(* and flow scoreboard, which compare it with the log Spike wrote before.   *)
(* A commit is [pc, rd], rd being <<>> or <<value written>>.                *)
EXTENDS Naturals, Sequences, SequencesExt

CONSTANTS
  Spike,            \* the commits of the reference run, from the reset address
  EcallPc,          \* where the program has its ECALL
  Faults,           \* deviations of the core considered: [kind, at]
  BadPc, BadData,   \* an address and a value that no commit has
  Depth,            \* commits held back before the comparison; 20
  LowMark, HighMark \* expected_q is refilled to HighMark; 50 and 500

VARIABLES
  fault, retired,                      \* the core: its deviation, its progress
  prev_pc, flow_stopped,               \* cpu_flow_monitor
  trace_ptr,                           \* cpu_flow_predictor
  actual_fifo, expected_fifo, flow_tx, \* cpu_flow_scoreboard; flow_tx waits
  flow_ended, flow_error,              \*   for its prediction
  checker_fifo, actual_buffer,         \* cpu_commit_scoreboard
  expected_q, log_pos, ecall_detected, commit_error

coreVars == <<fault, retired>>
flowVars == <<prev_pc, flow_stopped, trace_ptr, actual_fifo, expected_fifo,
              flow_tx, flow_ended, flow_error>>
commitVars == <<checker_fifo, actual_buffer, expected_q, log_pos,
                ecall_detected, commit_error>>
vars == <<coreVars, flowVars, commitVars>>

-----------------------------------------------------------------------------
(* The commits of a core that deviates once from the reference run.         *)
Deviating(f) ==
  CASE f.kind = "data" -> [Spike EXCEPT ![f.at].rd = <<BadData>>]
    [] f.kind = "jump" -> [Spike EXCEPT ![f.at].pc = BadPc]
    [] f.kind = "lost" -> RemoveAt(Spike, f.at)
    [] f.kind = "wait" -> InsertAt(Spike, f.at, [Spike[f.at] EXCEPT !.rd = <<>>])
    [] OTHER -> Spike
Commits == Deviating(fault)

Init ==
  /\ fault \in Faults /\ retired = 0
  /\ prev_pc = Spike[1].pc /\ flow_stopped = FALSE
  /\ trace_ptr = 1
  /\ actual_fifo = <<>> /\ expected_fifo = <<>> /\ flow_tx = <<>>
  /\ flow_ended = FALSE /\ flow_error = FALSE
  /\ checker_fifo = <<>> /\ actual_buffer = <<>>
  /\ expected_q = <<Spike[1]>> /\ log_pos = 1
  /\ ecall_detected = FALSE /\ commit_error = FALSE

-----------------------------------------------------------------------------
(* The predictor looks for the transaction's first address from where it    *)
(* stands in the log and predicts the address that follows it there.        *)
Found(pc) == {i \in trace_ptr .. Len(Spike) : Spike[i].pc = pc}

(* Mutant of Predict: the search does not start where the last one stopped. *)
Predict_FromStart(current) ==
  LET at == {i \in 1 .. Len(Spike) : Spike[i].pc = current}
      i  == IF at = {} THEN Len(Spike) + 1 ELSE Min(at)
  IN  IF current = EcallPc THEN UNCHANGED <<trace_ptr, expected_fifo>>
      ELSE IF i >= Len(Spike) THEN trace_ptr' = i /\ UNCHANGED expected_fifo
      ELSE /\ trace_ptr' = i + 1
           /\ expected_fifo' = Append(expected_fifo, <<current, Spike[i + 1].pc>>)
Predict(current) ==
  LET i == IF Found(current) = {} THEN Len(Spike) + 1 ELSE Min(Found(current))
  IN  IF current = EcallPc THEN UNCHANGED <<trace_ptr, expected_fifo>>
      ELSE IF i >= Len(Spike) THEN trace_ptr' = i /\ UNCHANGED expected_fifo
      ELSE /\ trace_ptr' = i + 1
           /\ expected_fifo' = Append(expected_fifo, <<current, Spike[i + 1].pc>>)

(* The flow monitor drops repeats and stops at the ECALL. *)
FlowMonitor(pc) ==
  IF flow_stopped \/ pc = EcallPc
    THEN /\ flow_stopped' = TRUE
         /\ UNCHANGED <<prev_pc, actual_fifo, expected_fifo, trace_ptr>>
    ELSE /\ prev_pc' = pc /\ UNCHANGED flow_stopped
         /\ IF pc = prev_pc
              THEN UNCHANGED <<actual_fifo, expected_fifo, trace_ptr>>
              ELSE /\ actual_fifo' = Append(actual_fifo, <<prev_pc, pc>>)
                   /\ Predict(prev_pc)

(* Every consumer waits for input. *)
ConsumersIdle ==
  /\ checker_fifo = <<>>
  /\ actual_fifo = <<>> \/ flow_tx # <<>>
  /\ flow_tx = <<>> \/ expected_fifo = <<>>
  /\ flow_ended = ecall_detected

(* One retirement. The consumers take no simulated time: they have come to  *)
(* wait for input before the clock brings the next one.                     *)
Retire ==
  /\ retired < Len(Commits)
  /\ ConsumersIdle
  /\ retired' = retired + 1
  /\ checker_fifo' = <<Commits[retired + 1]>>
  /\ FlowMonitor(Commits[retired + 1].pc)
  /\ UNCHANGED <<fault, flow_tx, flow_ended, flow_error, actual_buffer,
                 expected_q, log_pos, ecall_detected, commit_error>>

-----------------------------------------------------------------------------
(* Commit scoreboard.                                                       *)
(* Mutant of Refilled: HighMark more lines, not up to HighMark. *)
Refilled_Appends ==
  IF Len(expected_q) > LowMark THEN [q |-> expected_q, pos |-> log_pos]
  ELSE LET last == Min({log_pos + HighMark, Len(Spike)})
       IN  [q |-> expected_q \o SubSeq(Spike, log_pos + 1, last), pos |-> last]

Refilled ==
  IF Len(expected_q) > LowMark THEN [q |-> expected_q, pos |-> log_pos]
  ELSE LET more == IF HighMark < Len(expected_q) THEN 0
                                                 ELSE HighMark - Len(expected_q)
           last == Min({log_pos + more, Len(Spike)})
       IN  [q |-> expected_q \o SubSeq(Spike, log_pos + 1, last), pos |-> last]

(* Mutant of CheckTransaction: only addresses are compared. *)
CheckTransaction_PcOnly(tx) ==
  LET q  == Refilled.q
      at == {i \in 1 .. Len(q) : q[i].pc = tx.pc}
  IN  /\ log_pos' = Refilled.pos /\ UNCHANGED commit_error
      /\ expected_q' = IF at = {} THEN q ELSE SubSeq(q, Min(at) + 1, Len(q))
(* The first expected commit of that address, if any, is compared; what     *)
(* stands before it is skipped if it agrees, and one entry goes if not.     *)
CheckTransaction(tx) ==
  LET q  == Refilled.q
      at == {i \in 1 .. Len(q) : q[i].pc = tx.pc}
  IN  /\ log_pos' = Refilled.pos
      /\ IF at = {} THEN expected_q' = q /\ UNCHANGED commit_error
         ELSE IF q[Min(at)] = tx
           THEN /\ expected_q' = SubSeq(q, Min(at) + 1, Len(q))
                /\ UNCHANGED commit_error
           ELSE expected_q' = Tail(q) /\ commit_error' = TRUE

(* Mutant of CommitScoreboard: the ECALL waits in the buffer like any other. *)
CommitScoreboard_EcallBuffered ==
  /\ checker_fifo # <<>>
  /\ checker_fifo' = Tail(checker_fifo)
  /\ LET buffered == Append(actual_buffer, Head(checker_fifo))
     IN  IF Len(buffered) <= Depth
           THEN /\ actual_buffer' = buffered
                /\ UNCHANGED <<expected_q, log_pos, ecall_detected, commit_error>>
         ELSE IF Head(buffered).pc = EcallPc
           THEN /\ ecall_detected' = TRUE /\ actual_buffer' = <<>>
                /\ UNCHANGED <<expected_q, log_pos, commit_error>>
         ELSE /\ actual_buffer' = Tail(buffered)
              /\ CheckTransaction(Head(buffered))
              /\ UNCHANGED ecall_detected
  /\ UNCHANGED <<coreVars, flowVars>>

CommitScoreboard ==
  /\ checker_fifo # <<>>
  /\ checker_fifo' = Tail(checker_fifo)
  /\ LET tx       == Head(checker_fifo)
         buffered == Append(actual_buffer, tx)
     IN  IF ecall_detected
           THEN UNCHANGED <<actual_buffer, expected_q, log_pos,
                            ecall_detected, commit_error>>
         ELSE IF tx.pc = EcallPc
           THEN /\ ecall_detected' = TRUE /\ actual_buffer' = <<>>
                /\ UNCHANGED <<expected_q, log_pos, commit_error>>
         ELSE IF Len(buffered) > Depth
           THEN /\ actual_buffer' = Tail(buffered)
                /\ CheckTransaction(Head(buffered))
                /\ UNCHANGED ecall_detected
         ELSE /\ actual_buffer' = buffered
              /\ UNCHANGED <<expected_q, log_pos, ecall_detected, commit_error>>
  /\ UNCHANGED <<coreVars, flowVars>>

-----------------------------------------------------------------------------
(* Flow scoreboard: the process waiting for test_done_event, and the loop.  *)
FlowTestDone ==
  /\ ecall_detected /\ ~flow_ended
  /\ flow_ended' = TRUE
  /\ UNCHANGED <<coreVars, commitVars, prev_pc, flow_stopped, trace_ptr,
                 actual_fifo, expected_fifo, flow_tx, flow_error>>

FlowTake ==
  /\ flow_tx = <<>> /\ actual_fifo # <<>>
  /\ actual_fifo' = Tail(actual_fifo)
  /\ flow_tx' = IF flow_ended THEN <<>> ELSE <<Head(actual_fifo)>>
  /\ UNCHANGED <<coreVars, commitVars, prev_pc, flow_stopped, trace_ptr,
                 expected_fifo, flow_ended, flow_error>>

(* Mutant of FlowCompare: next_pc is not compared. *)
FlowCompare_CurrentOnly ==
  /\ flow_tx # <<>> /\ expected_fifo # <<>>
  /\ expected_fifo' = Tail(expected_fifo)
  /\ flow_tx' = <<>>
  /\ flow_error' = (flow_error \/ flow_tx[1][1] # Head(expected_fifo)[1])
  /\ UNCHANGED <<coreVars, commitVars, prev_pc, flow_stopped, trace_ptr,
                 actual_fifo, flow_ended>>

FlowCompare ==
  /\ flow_tx # <<>> /\ expected_fifo # <<>>
  /\ expected_fifo' = Tail(expected_fifo)
  /\ flow_tx' = <<>>
  /\ flow_error' = (flow_error \/ flow_tx[1] # Head(expected_fifo))
  /\ UNCHANGED <<coreVars, commitVars, prev_pc, flow_stopped, trace_ptr,
                 actual_fifo, flow_ended>>

(* The program's last instruction is a jump to itself: simulation stops.    *)
Stop ==
  /\ retired = Len(Commits) /\ ConsumersIdle
  /\ UNCHANGED vars

Next == Retire \/ CommitScoreboard \/ FlowTestDone \/ FlowTake \/ FlowCompare
          \/ Stop

Spec == Init /\ [][Next]_vars
FairSpec == Spec /\ WF_vars(Next)

-----------------------------------------------------------------------------
EcallAt == CHOOSE i \in 1 .. Len(Spike) : Spike[i].pc = EcallPc
ErrorSeen == commit_error \/ flow_error

(* What is in the queues and buffers stays within the marks.                *)
TypeOK ==
  /\ Len(actual_buffer) <= Depth /\ Len(checker_fifo) <= 1
  /\ Len(expected_q) <= HighMark
  /\ Len(expected_fifo) <= 1 /\ Len(flow_tx) <= 1
  /\ log_pos \in 1 .. Len(Spike)

(* A core that agrees with Spike gets no error from either scoreboard,      *)
(* through loops that commit the same address again and again. One that is  *)
(* reported once more for a cycle it waits in EX gets none from the flow    *)
(* scoreboard.                                                              *)
NoFalseAlarm ==
  /\ fault.kind = "none" => ~ErrorSeen
  /\ fault.kind = "wait" => ~flow_error

(* A wrong register write is reported unless it is one of the last Depth    *)
(* commits before the ECALL.                                                *)
EarlyDataReported ==
  ecall_detected /\ fault.kind = "data" /\ fault.at < EcallAt - Depth
    => commit_error

(* A wrong turn is reported however close to the end it is; a lost commit,  *)
(* unless the ECALL comes right after it, or after a loop of two            *)
(* instructions that it is in: one turn less of that is not noticed.        *)
LoopOfTwo(k) == Spike[k].pc = Spike[k + 2].pc
FlowFaultReported ==
  retired = Len(Commits) /\ ConsumersIdle =>
    /\ fault.kind = "jump" /\ fault.at < EcallAt => flow_error
    /\ fault.kind = "lost" /\ (\E k \in fault.at - 1 .. EcallAt - 3 : ~LoopOfTwo(k))
         => flow_error

(* The test ends, whatever single commit was wrong.                         *)
TestEnds == <>ecall_detected
=============================================================================
