------------------------------- MODULE Loader -------------------------------
(* The ARM program that loads and runs a program on the core, and the core  *)
(* program it runs, sharing the two block RAMs and the reset bit:           *)
(*   app = "gcc"      FW/run_gcc_program.c with GCC/main.c,                 *)
(*   app = "selftest" FW/simple_test.c with the program it assembles.       *)
(* A step is one access of one of the two to shared state.                  *)
EXTENDS Integers, Sequences

CONSTANTS Apps,           \* the applications considered
          CodeWords,      \* words of the image (RISCV_CODE_WORD_COUNT, prog_n)
          Tests,          \* results of the self-test (test_n)
          POLL_TIMEOUT,
          ImemFaults      \* TRUE: a word of the IMEM may read back wrong

VARIABLES
  app,
  cpu_reset,      \* bit 0 of the control register
  imem, dmem,
  arm,            \* where the ARM program is
  i, poll, status, got,
  verdict,
  core_pc, a, b, fail_count   \* the program on the core

armVars  == <<arm, i, poll, status, got, verdict>>
coreVars == <<core_pc, a, b, fail_count>>
vars     == <<app, cpu_reset, imem, dmem, armVars, coreVars>>

STATUS_DONE == 51966       \* 0xCAFECAFE; only its difference from others counts
TEST_A == 13
TEST_B == 70
EXPECTED_RESULT == (TEST_A + TEST_B) + (TEST_A * TEST_B)

(* Addresses in the data RAM: the mailbox of shared_mem.h, the results of   *)
(* the self-test; the words a program uses, in the order they are cleared.  *)
INPUT0 == 4
INPUT1 == 8
RESULT == 12
STATUS == 16
FAIL == 20
EXPECTED == 24
DIAG(n) == 32 + 4 * n
Result(n) == 64 + 4 * (n - 1)
TestWords == [n \in 1 .. Tests |-> Result(n)]
Words == IF app = "gcc"
         THEN <<INPUT0, INPUT1, RESULT, STATUS, FAIL, EXPECTED>> \o [n \in 1 .. 5 |-> DIAG(n - 1)]
         ELSE <<STATUS>> \o TestWords
WordSet == {Words[k] : k \in 1 .. Len(Words)}
exp_val(n) == 100 + n

-----------------------------------------------------------------------------
(* A program of an earlier session may still run, and its results, done     *)
(* word included, may still be in memory.                                   *)
Init ==
  /\ app \in Apps
  /\ cpu_reset \in BOOLEAN
  /\ imem = [k \in 1 .. CodeWords |-> "old"]
  /\ dmem \in {[x \in WordSet |-> IF x = STATUS THEN s ELSE 7] : s \in {0, STATUS_DONE}}
  /\ arm = "hold" /\ i = 1 /\ poll = 0 /\ status = 0
  /\ got = <<>> /\ verdict = "none"
  /\ core_pc = 1 /\ a = 0 /\ b = 0 /\ fail_count = 0

Goto(label) == arm' = label /\ i' = 1
CoreStays  == UNCHANGED coreVars
Finish(v) == verdict' = v /\ Goto("end")

(* Xil_Out32(CTRL_BASE, ...): the core loses its state when held.           *)
HoldReset ==
  /\ arm = "hold" /\ Goto("clear")
  /\ cpu_reset' = TRUE
  /\ core_pc' = 1 /\ a' = 0 /\ b' = 0 /\ fail_count' = 0
  /\ UNCHANGED <<app, imem, dmem, poll, status, got, verdict>>

(* Mutant of ClearDmem: the words of the last session stay.                 *)
ClearDmem_None ==
  /\ arm = "clear" /\ Goto("load")
  /\ UNCHANGED <<app, cpu_reset, imem, dmem, poll, status, got, verdict>>
  /\ CoreStays
ClearDmem ==
  /\ arm = "clear"
  /\ dmem' = [dmem EXCEPT ![Words[i]] = 0]
  /\ IF i = Len(Words) THEN Goto("load") ELSE i' = i + 1 /\ UNCHANGED arm
  /\ UNCHANGED <<app, cpu_reset, imem, poll, status, got, verdict>>
  /\ CoreStays

LoadImem ==
  /\ arm = "load"
  /\ imem' \in {[imem EXCEPT ![i] = "code"]}
                 \cup (IF ImemFaults THEN {[imem EXCEPT ![i] = "bad"]} ELSE {})
  /\ IF i = CodeWords THEN Goto("verify") ELSE i' = i + 1 /\ UNCHANGED arm
  /\ UNCHANGED <<app, cpu_reset, dmem, poll, status, got, verdict>>
  /\ CoreStays

(* Mutant of VerifyImem: only the last word is compared.                    *)
VerifyImem_LastWord ==
  /\ arm = "verify"
  /\ IF imem[CodeWords] # "code" THEN Finish("VERIFY_FAIL")
     ELSE UNCHANGED verdict /\ Goto("release")
  /\ UNCHANGED <<app, cpu_reset, imem, dmem, poll, status, got>>
  /\ CoreStays
VerifyImem ==
  /\ arm = "verify"
  /\ IF imem[i] # "code" THEN Finish("VERIFY_FAIL")
     ELSE /\ UNCHANGED verdict
          /\ IF i = CodeWords THEN Goto("release") ELSE i' = i + 1 /\ UNCHANGED arm
  /\ UNCHANGED <<app, cpu_reset, imem, dmem, poll, status, got>>
  /\ CoreStays

Release ==
  /\ arm = "release" /\ Goto("poll")
  /\ cpu_reset' = FALSE
  /\ poll' = 0
  /\ UNCHANGED <<app, imem, dmem, status, got, verdict>>
  /\ CoreStays

(* Mutant of Poll: one poll more than the limit.                            *)
Poll_OneMore ==
  /\ arm = "poll" /\ poll <= POLL_TIMEOUT
  /\ status' = dmem[STATUS]
  /\ IF status' = STATUS_DONE THEN Goto("read") /\ UNCHANGED <<poll, verdict>>
     ELSE /\ poll' = poll + 1
          /\ IF poll' <= POLL_TIMEOUT THEN UNCHANGED <<arm, i, verdict>> ELSE Finish("TIMEOUT")
  /\ got' = <<>>
  /\ UNCHANGED <<app, cpu_reset, imem, dmem>>
  /\ CoreStays
(* Mutant of Poll: no limit.                                                *)
Poll_Unbounded ==
  /\ arm = "poll"
  /\ status' = dmem[STATUS]
  /\ IF status' = STATUS_DONE THEN Goto("read") ELSE UNCHANGED <<arm, i>>
  /\ got' = <<>>
  /\ UNCHANGED <<app, cpu_reset, imem, dmem, poll, verdict>>
  /\ CoreStays
(* One round of the polling loop; after the last one without DONE, gcc      *)
(* gives up and selftest goes on to the results there are.                  *)
Poll ==
  /\ arm = "poll" /\ poll < POLL_TIMEOUT
  /\ status' = dmem[STATUS]
  /\ IF status' = STATUS_DONE THEN Goto("read") /\ UNCHANGED <<poll, verdict>>
     ELSE /\ poll' = poll + 1
          /\ IF poll' < POLL_TIMEOUT THEN UNCHANGED <<arm, i, verdict>>
             ELSE IF app = "gcc" THEN Finish("TIMEOUT")
             ELSE Goto("read") /\ UNCHANGED verdict
  /\ got' = <<>>
  /\ UNCHANGED <<app, cpu_reset, imem, dmem>>
  /\ CoreStays

Reads == IF app = "gcc" THEN <<RESULT, EXPECTED, FAIL, DIAG(0), DIAG(1), DIAG(2)>>
                        ELSE TestWords

ReadBack ==
  /\ arm = "read" /\ i <= Len(Reads)
  /\ got' = Append(got, dmem[Reads[i]])
  /\ i' = i + 1
  /\ UNCHANGED <<app, cpu_reset, imem, dmem, arm, poll, status, verdict>>
  /\ CoreStays

Verdict ==
  /\ arm = "read" /\ i > Len(Reads)
  /\ Finish(CASE app = "gcc" -> IF got[1] # got[2] \/ got[3] # 0 THEN "FAIL" ELSE "PASS"
              [] OTHER -> IF /\ \A n \in 1 .. Tests : got[n] = exp_val(n)
                             /\ poll < POLL_TIMEOUT THEN "PASS" ELSE "FAIL")
  /\ UNCHANGED <<app, cpu_reset, imem, dmem, poll, status, got>>
  /\ CoreStays

(* The user runs the loader again, with the core in whatever state it is.   *)
Rerun ==
  /\ arm = "end" /\ Goto("hold")
  /\ verdict' = "none" /\ got' = <<>>
  /\ imem' = [k \in 1 .. CodeWords |-> "old"]
  /\ UNCHANGED <<app, cpu_reset, dmem, poll, status>>
  /\ CoreStays

ArmStep == HoldReset \/ ClearDmem \/ LoadImem \/ VerifyImem \/ Release \/ Poll
           \/ ReadBack \/ Verdict

-----------------------------------------------------------------------------
Whole == \A k \in 1 .. CodeWords : imem[k] = "code"
Running == ~cpu_reset

(* An image that is not the whole program, an earlier one for instance, may *)
(* write anything. Bound: it raises DONE or spoils one of two result words. *)
Clobbered == {STATUS, RESULT, Result(1)} \cap WordSet
OtherProgram ==
  /\ Running /\ ~Whole
  /\ \E x \in Clobbered :
       dmem' = [dmem EXCEPT ![x] = IF x = STATUS THEN STATUS_DONE ELSE 7]
  /\ UNCHANGED <<app, cpu_reset, imem, armVars, coreVars>>

(* GCC/main.c. After the last store the program blinks for ever.            *)
Store(x, v) == dmem' = [dmem EXCEPT ![x] = v] /\ UNCHANGED <<a, b, fail_count>>
One(check) == IF check THEN 1 ELSE 0
GccStore ==
  <<[x |-> INPUT0, v |-> TEST_A], [x |-> INPUT1, v |-> TEST_B],
    [x |-> DIAG(0), v |-> a], [x |-> DIAG(1), v |-> b], [x |-> DIAG(2), v |-> a + b],
    [x |-> DIAG(3), v |-> a - b], [x |-> DIAG(4), v |-> a * b]>>
(* Mutant of GccReport: DONE is written before the results.                 *)
GccReport_DoneFirst ==
  <<[x |-> STATUS, v |-> STATUS_DONE], [x |-> RESULT, v |-> a + b + a * b],
    [x |-> EXPECTED, v |-> EXPECTED_RESULT], [x |-> FAIL, v |-> fail_count]>>
GccReport ==
  <<[x |-> RESULT, v |-> a + b + a * b], [x |-> EXPECTED, v |-> EXPECTED_RESULT],
    [x |-> FAIL, v |-> fail_count], [x |-> STATUS, v |-> STATUS_DONE]>>
GccMain ==
  \/ /\ core_pc \in 1 .. 2
     /\ Store(GccStore[core_pc].x, GccStore[core_pc].v)
  \/ /\ core_pc = 3
     /\ a' = dmem[INPUT0] /\ UNCHANGED <<b, fail_count, dmem>>
  \/ /\ core_pc = 4
     /\ b' = dmem[INPUT1] /\ UNCHANGED <<a, fail_count, dmem>>
  \/ /\ core_pc \in 5 .. 9
     /\ Store(GccStore[core_pc - 2].x, GccStore[core_pc - 2].v)
  \/ /\ core_pc = 10
     /\ fail_count' = One(a + b # 20) + One(a - b # 6) + One(a * b # 91)
     /\ UNCHANGED <<a, b, dmem>>
  \/ /\ core_pc \in 11 .. 14
     /\ Store(GccReport[core_pc - 10].x, GccReport[core_pc - 10].v)

(* The assembled self-test: a store per test, then the done word.           *)
SelfTest ==
  \/ /\ core_pc \in 1 .. Tests
     /\ Store(Result(core_pc), exp_val(core_pc))
  \/ /\ core_pc = Tests + 1
     /\ Store(STATUS, STATUS_DONE)

CoreStep ==
  /\ Running /\ Whole
  /\ \/ app = "gcc" /\ GccMain
     \/ app = "selftest" /\ SelfTest
  /\ core_pc' = core_pc + 1
  /\ UNCHANGED <<app, cpu_reset, imem, armVars>>

Next == ArmStep \/ Rerun \/ OtherProgram \/ CoreStep

Spec == Init /\ [][Next]_vars
LiveSpec == Spec /\ WF_vars(ArmStep)

-----------------------------------------------------------------------------
TypeOK ==
  /\ arm \in {"hold", "clear", "load", "verify", "release", "poll", "read", "end"}
  /\ poll \in 0 .. POLL_TIMEOUT
  /\ verdict \in {"none", "VERIFY_FAIL", "TIMEOUT", "PASS", "FAIL"}
  /\ core_pc \in 1 .. (IF app = "gcc" THEN 15 ELSE Tests + 2)

(* The words in the end. GCC/main.c computes 993 from its inputs 13 and 70, *)
(* and its three checks, made for other inputs (20, 6 and 91 are sum,       *)
(* difference and product of 13 and 7), all fail. GCC/README.md:65-68 says  *)
(* otherwise: RESULT and EXPECTED 0xfff (4095), FAIL_COUNT 0.               *)
FinalWord(x) ==
  CASE x \in {RESULT, EXPECTED} -> 993
    [] x = FAIL -> 3
    [] x = DIAG(0) -> 13 [] x = DIAG(1) -> 70 [] x = DIAG(2) -> 83
    [] OTHER -> exp_val((x - Result(1)) \div 4 + 1)

(* The verdict is about this run of this program: what the loader read,     *)
(* once it saw DONE, is what the program computed after this release, never *)
(* words an earlier program left or words not written yet. So a self-test   *)
(* that was seen DONE passes, and main.c never does.                        *)
VerdictOfThisRun ==
  arm \in {"read", "end"} /\ status = STATUS_DONE /\ verdict # "VERIFY_FAIL" =>
    /\ \A k \in 1 .. Len(got) : got[k] = FinalWord(Reads[k])
    /\ arm = "end" => verdict = IF app = "gcc" THEN "FAIL" ELSE "PASS"

(* The mailbox protocol: while the loader polls, a DONE in memory is that   *)
(* of the loaded program, and every result word was written before it.      *)
DoneIsLast ==
  arm \in {"poll", "read"} /\ dmem[STATUS] = STATUS_DONE =>
    \A k \in 1 .. Len(Reads) : dmem[Reads[k]] = FinalWord(Reads[k])

(* From the release on, the core runs the whole image that was verified.    *)
RunsWholeImage == arm \in {"poll", "read"} => Running /\ Whole

(* The loader returns whatever the core does.                               *)
Returns == (arm = "hold") ~> (arm = "end")
=============================================================================
