---------------------------- MODULE InstrSequence ---------------------------
(* The main program of a generated test (riscv-dv, riscv_instr_sequence):   *)
(* a random instruction list, directed streams inserted into it, labels and *)
(* branch targets assigned; then the assembled program runs, its branches   *)
(* going either way. The custom tests have no sub-programs and ask for no   *)
(* illegal or hint instructions.                                            *)
EXTENDS Integers, Sequences, FiniteSets, SequencesExt

CONSTANTS
  InstrCnt,         \* instructions of the random list
  max_branch_step,
  Kinds,            \* of directed streams: "plain", "jal", "loop"
  MaxStreams,       \* streams inserted
  JumpCnt,          \* num_of_jump_instr of a jal stream
  LoopLimit,        \* limit of a loop that counts from 0 in steps of 1
  CounterValues     \* of the counter's register, which wraps

VARIABLES
  phase,            \* "insert", "label", "target", "run", "end"
  instr_list,
  streams,          \* kinds of the streams inserted
  j, label_idx, branch_target,     \* post_process_instr
  pc, loop_cnt,     \* of the running program
  visited           \* positions executed since its stream was entered

vars == <<phase, instr_list, streams, j, label_idx, branch_target, pc, loop_cnt, visited>>

-----------------------------------------------------------------------------
(* An instruction of stream s (0 is the random list) at position pos of it. *)
(* Labels: numeric ones from 0 up; a name of its own for each stream.       *)
NoLabel == -1
Named(s) == -1 - s
Instr(kind, s, pos) ==
  [kind |-> kind, stream |-> s, pos |-> pos, atomic |-> FALSE, has_label |-> TRUE,
   label |-> NoLabel, numeric |-> FALSE, target |-> NoLabel, dir |-> "f"]
AtomicInstr(kind, s, pos) == [Instr(kind, s, pos) EXCEPT !.atomic = TRUE]
Without(instr) == [instr EXCEPT !.has_label = FALSE]

(* gen_instr: the random list, without the branches at its end.             *)
(* Mutant of Popped: they stay. *)
Popped_Kept(list) == list
Popped(list) == SubSeq(list, 1, SelectLastInSeq(list, LAMBDA e : e.kind # "branch"))
RandomLists ==
  {Popped([k \in 1 .. InstrCnt |-> Instr(f[k], 0, k)]) :
     f \in [1 .. InstrCnt -> {"op", "branch"}]}

(* post_randomize of a stream without jumps of its own.                     *)
Plain(s) == <<Without(AtomicInstr("op", s, 1)), Without(AtomicInstr("op", s, 2))>>

(* post_randomize of riscv_jal_instr: a chain of jumps in a random order.   *)
(* Mutants of NextJump: the last jump goes back to the first; the last is   *)
(* never jumped to.                                                         *)
NextJump_Skips(order, i) == IF i >= JumpCnt - 1 THEN JumpCnt ELSE order[i + 1]
NextJump_Wraps(order, i) == order[(i % JumpCnt) + 1]
NextJump(order, i) == IF i = JumpCnt THEN JumpCnt ELSE order[i + 1]
Jump(s, pos, label, target) ==
  [AtomicInstr("jump", s, pos) EXCEPT
     !.label = label, !.target = target, !.dir = IF target > label THEN "f" ELSE "b"]
Jal(s, order) ==
  <<Jump(s, 1, Named(s), order[1])>>
    \o [k \in 1 .. JumpCnt |->
          Jump(s, k + 1, k - 1,
               NextJump(order, CHOOSE i \in 1 .. JumpCnt : order[i] = k - 1))]
    \o <<[AtomicInstr("op", s, JumpCnt + 2) EXCEPT !.label = JumpCnt]>>

(* A stream with one loop. What build_loop_instr_stream appends between the *)
(* update and the branch is the first element of the list it is building:   *)
(* the counter is set again. mix_instr_stream then puts the branch before   *)
(* the last instruction: before one it is mixed with, or before that second *)
(* setting of the counter (late). The branch compares with any register.    *)
Loop(s, rs2, late) ==
  LET target == [AtomicInstr("op", s, 3) EXCEPT !.label = Named(s)]
      branch(pos) == [Without(AtomicInstr(rs2, s, pos)) EXCEPT !.target = Named(s), !.dir = "b"]
      other(kind, pos) == Without(AtomicInstr(kind, s, pos))
  IN  <<other("init_counter", 1), other("op", 2), target>>
        \o IF late
             THEN <<other("op", 4), other("update_counter", 5), branch(6),
                    other("init_counter", 7)>>
             ELSE <<other("update_counter", 4), other("init_counter", 5), branch(6),
                    other("op", 7)>>

Orders == {f \in [1 .. JumpCnt -> 0 .. JumpCnt - 1] : IsInjective(f)}
StreamsOf(kind, s) ==
  CASE kind = "plain" -> {Plain(s)}
    [] kind = "jal"   -> {Jal(s, order) : order \in Orders}
    [] kind = "loop"  -> {Loop(s, rs2, late) : rs2 \in {"bne_limit", "bne_zero"}, late \in BOOLEAN}

-----------------------------------------------------------------------------
Init ==
  /\ phase = "insert"
  /\ instr_list \in {l \in RandomLists : l # <<>>}
  /\ streams = <<>>
  /\ j = 1 /\ label_idx = 0 /\ branch_target = {}
  /\ pc = 1 /\ loop_cnt = 0 /\ visited = {}

(* insert_instr_stream puts a stream before an instruction that is not      *)
(* atomic.                                                                  *)
(* Mutant of Places: before any. *)
Places_Any(list) == DOMAIN list
Places(list) == {k \in DOMAIN list : ~list[k].atomic}
InsertStream ==
  /\ phase = "insert" /\ Len(streams) < MaxStreams
  /\ \E kind \in Kinds, at \in Places(instr_list) :
       \E new_instr \in StreamsOf(kind, Len(streams) + 1) :
         /\ instr_list' = SubSeq(instr_list, 1, at - 1) \o new_instr
                            \o SubSeq(instr_list, at, Len(instr_list))
         /\ streams' = Append(streams, kind)
  /\ UNCHANGED <<phase, j, label_idx, branch_target, pc, loop_cnt, visited>>

(* Which instructions get a number for label, and how many of the first k   *)
(* do.                                                                      *)
Numbered(instr) == instr.has_label /\ ~instr.atomic
LabelsUpTo(k) == Cardinality({m \in 1 .. k : Numbered(instr_list[m])})
AssignLabels ==
  /\ phase = "insert" /\ phase' = "target"
  /\ instr_list' =
       [k \in DOMAIN instr_list |->
          IF Numbered(instr_list[k])
            THEN [instr_list[k] EXCEPT !.label = LabelsUpTo(k - 1), !.numeric = TRUE]
            ELSE instr_list[k]]
  /\ label_idx' = LabelsUpTo(Len(instr_list))
  /\ UNCHANGED <<streams, j, branch_target, pc, loop_cnt, visited>>

(* Removes the numeric labels that are no target. *)
Kept(instr, targets) == instr.has_label /\ (instr.numeric => instr.label \in targets)

(* One turn of the second loop of post_process_instr; a branch goes a       *)
(* random step forward, at most to the last label.                          *)
AssignTarget ==
  /\ phase = "target" /\ j <= Len(instr_list)
  /\ LET instr == instr_list[j]
     IN  IF instr.kind = "branch"
           THEN \E step \in 1 .. max_branch_step :
                  LET target == IF instr.label + step >= label_idx
                                  THEN label_idx - 1 ELSE instr.label + step
                  IN  /\ branch_target' = branch_target \cup {target}
                      /\ instr_list' = [instr_list EXCEPT ![j].target = target,
                                          ![j].has_label = Kept(instr, branch_target')]
           ELSE /\ instr_list' = [instr_list EXCEPT ![j].has_label = Kept(instr, branch_target)]
                /\ UNCHANGED branch_target
  /\ j' = j + 1
  /\ UNCHANGED <<phase, streams, label_idx, pc, loop_cnt, visited>>

(* generate_instr_stream: the first instruction has the program's label.    *)
GenerateInstrStream ==
  /\ phase = "target" /\ j > Len(instr_list) /\ phase' = "run"
  /\ instr_list' = [instr_list EXCEPT ![1].has_label = TRUE, ![1].label = NoLabel]
  /\ UNCHANGED <<streams, j, label_idx, branch_target, pc, loop_cnt, visited>>

-----------------------------------------------------------------------------
(* Where the assembler takes a target from position k: "Nf" is the nearest  *)
(* label N after it, "Nb" the nearest before it. 0: there is none.          *)
Resolve(k) ==
  LET at == {m \in DOMAIN instr_list :
               instr_list[m].has_label /\ instr_list[m].label = instr_list[k].target}
      after == {m \in at : m > k}
      before == {m \in at : m <= k}
  IN  IF instr_list[k].dir = "f"
        THEN IF after = {} THEN 0 ELSE CHOOSE m \in after : \A n \in after : m <= n
        ELSE IF before = {} THEN 0 ELSE CHOOSE m \in before : \A n \in before : n <= m

Goes(k) ==
  CASE instr_list[k].kind = "branch" -> {k + 1, Resolve(k)}
    [] instr_list[k].kind = "jump" -> {Resolve(k)}
    [] instr_list[k].kind = "bne_limit" -> {IF loop_cnt # LoopLimit THEN Resolve(k) ELSE k + 1}
    [] instr_list[k].kind = "bne_zero" -> {IF loop_cnt # 0 THEN Resolve(k) ELSE k + 1}
    [] OTHER -> {k + 1}

Same(k, m) ==
  k \in DOMAIN instr_list /\ m \in DOMAIN instr_list
    /\ instr_list[k].stream = instr_list[m].stream /\ instr_list[k].stream # 0
Execute ==
  /\ phase = "run" /\ pc <= Len(instr_list)
  /\ pc' \in Goes(pc) \ {0}
  /\ visited' = IF Same(pc, pc') THEN visited \cup {pc} ELSE {}
  /\ loop_cnt' = CASE instr_list[pc].kind = "init_counter" -> 0
                   [] instr_list[pc].kind = "update_counter" -> (loop_cnt + 1) % CounterValues
                   [] OTHER -> loop_cnt
  /\ UNCHANGED <<phase, instr_list, streams, j, label_idx, branch_target>>
Finish ==
  /\ phase = "run" /\ pc > Len(instr_list) /\ phase' = "end"
  /\ UNCHANGED <<instr_list, streams, j, label_idx, branch_target, pc, loop_cnt, visited>>
Ended == phase = "end" /\ UNCHANGED vars

Next == InsertStream \/ AssignLabels \/ AssignTarget \/ GenerateInstrStream
          \/ Execute \/ Finish \/ Ended
Spec == Init /\ [][Next]_vars

(* The generator is a program and the core executes on.                     *)
FairSpec == Spec /\ WF_vars(Next)

-----------------------------------------------------------------------------
(* Every variable has its type. *)
TypeOK ==
  /\ phase \in {"insert", "target", "run", "end"}
  /\ Len(instr_list) \in 1 .. InstrCnt + MaxStreams * (JumpCnt + 7)
  /\ Len(streams) <= MaxStreams
  /\ j \in 1 .. Len(instr_list) + 1 /\ label_idx \in 0 .. InstrCnt
  /\ branch_target \subseteq 0 .. InstrCnt - 1
  /\ pc \in 1 .. Len(instr_list) + 1 /\ loop_cnt \in 0 .. CounterValues - 1
  /\ visited \subseteq DOMAIN instr_list

(* Every target of the finished program resolves. A branch of the random    *)
(* list goes forward; its target is the instruction of the list whose       *)
(* number it was given, or lies in a stream of jumps, whose labels are      *)
(* numbers too (which StreamsEnteredAtStart forbids, and does not hold). A  *)
(* stream's jump stays in the stream.                                       *)
Running == phase \in {"run", "end"}
TargetsResolve ==
  Running =>
    \A k \in DOMAIN instr_list :
      instr_list[k].target # NoLabel =>
        /\ Resolve(k) # 0
        /\ IF instr_list[k].kind = "branch"
             THEN /\ Resolve(k) > k
                  /\ ~instr_list[Resolve(k)].atomic
                       \/ streams[instr_list[Resolve(k)].stream] = "jal"
             ELSE Same(k, Resolve(k))

(* "The atomic instruction streams don't have labels except for the first   *)
(* instruction. This is to avoid branching into an atomic instruction       *)
(* stream which breaks its atomicy." (riscv_instr_sequence.py:123-124)      *)
(* The jumps of a jal stream have them (riscv_directed_instr_lib.py:140),   *)
(* and the assembler takes the nearest, so this does not hold.              *)
StreamsEnteredAtStart ==
  Running =>
    \A k \in DOMAIN instr_list :
      instr_list[k].kind = "branch" /\ instr_list[Resolve(k)].atomic =>
        instr_list[Resolve(k)].pos = 1

(* A directed stream is in the program in one piece, in its order.          *)
StreamsWhole ==
  \A k \in 2 .. Len(instr_list) :
    /\ instr_list[k].stream # 0 /\ instr_list[k].pos > 1 =>
         Same(k - 1, k) /\ instr_list[k - 1].pos = instr_list[k].pos - 1

(* A stream of jumps entered at its start executes each of its jumps before *)
(* it is left.                                                              *)
JumpsAllTaken ==
  phase = "run" /\ pc \in DOMAIN instr_list /\ instr_list[pc].pos = JumpCnt + 2
    /\ streams[instr_list[pc].stream] = "jal"
    /\ (\E k \in visited : instr_list[k].pos = 1)
    => Cardinality(visited) = JumpCnt + 1

(* Every generated program ends.                                            *)
Terminates == <>(phase = "end")
=============================================================================
