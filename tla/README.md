# A verification development of the RV32IM core and the programs around it

TLA+ models, model checks and proofs for the RV32IM + Zicsr core in
`src/fpga/rtl/`, its Zynq wrapper and AXI4-Lite blocks, the software that loads
it (`src/FW/`, `src/GCC/`) and the test bench that judges it (`src/UVM_tb/`).
The models are written from the code; `src/README.md`, `src/specs/core_specs.md`
and comments supply what the code promises.

## 1. The system

| Part | Source | State it keeps | Operations |
|---|---|---|---|
| Pipeline | `riscv_core.sv` | `pc_f`, fetch flags, a one-entry response buffer, the registers IF/ID, ID/EX, EX/MEM, MEM/WB | one clock edge: advance, redirect, memory stall; reset |
| Decoder | `riscv_decode.sv`, `riscv_pkg.sv` | none | instruction to controls |
| ALU, branch comparator | `riscv_alu.sv` | none | results, conditions |
| Load/store unit | `riscv_lsu.sv` | none | strobes, write data, extraction |
| Register file | `riscv_regfile.sv` | 32 words | two reads, one write, write-first bypass |
| Hazard unit | `riscv_hazard.sv` | none | forwarding selects, load-use stall |
| CSR file | `riscv_csr.sv` | ten CSRs | read, write, trap entry, MRET, interrupt sampling |
| RV32M units | `riscv_core.sv`, lines 520-620 | operand, count and result registers, `busy`, `done` | start, step, finish |
| BRAM adapters, address decoding | `riscv_zynq_wrapper.sv` | last cycle's address and request | derive ready from two equal addresses in a row |
| AXI4-Lite master | `riscv_axi_lite_master.sv` | five-state machine, address, data | read and write transactions |
| AXI4-Lite control slave | `axi_lite_control.sv` | reset and status registers, response flags | register reads and writes |
| Loader and mailbox | `src/FW/`, `src/GCC/main.c` | words shared by the ARM and the core | hold, clear, load, verify, release, poll, read back |
| Retirement shadow | `src/UVM_tb/uvm_classic/cpu_top.sv` | shadow valid bits of the stages | report retired instructions |
| UVM environment | `src/UVM_tb/uvm_classic/` | monitors' buffers, two scoreboards, the log of Spike | compare commits and control flow with the log |
| Trace regression | `riscv-dv/scripts/`, `run_simulation.py` | two logs, two CSV files, register states | convert, compare, give a verdict |
| Test generator | `riscv-dv/pygen/` | instruction list, directed streams, labels | make a program |
| Coverage collector | `riscv-dv/pygen/` | register state, the last instruction, cover groups | read traces, sample |

How they interact. The core asks the instruction memory with
`imem_req`/`imem_addr` and is answered by `imem_ready` with the instruction and
its address (`imem_resp_pc`), any number of cycles later. It holds a data access
in MEM until `dmem_ready`; until then the pipe stands still (`mem_stall`). EX
holds an RV32M instruction until its unit is done (`m_stall`). EX redirects
fetch on a taken branch, a jump, a trap or MRET. The interrupt lines are sampled
into `meipend` at every edge. The wrapper turns the two memory ports into BRAM
accesses or, by address, AXI transactions; the control slave's bit 0 is the
core's reset. The loader writes a program into the BRAM, releases that bit and
polls a status word the program writes. On the bench the shadow pipeline reports
what the core retires; two monitors pass it to the scoreboards, which hold
Spike's log of the same program. In the regression the generator makes a
program, Spike and the core run it, two scripts turn the logs into CSV files, one
compares them, and the coverage collector samples Spike's.

What is hard:

- two memories with independent wait states, two multicycle units and
  asynchronous interrupt lines meet a pipeline whose decisions are taken in one
  stage and used in another some cycles later;
- a redirect abandons a fetch whose answer is still to come, a trap, a CSR
  write, an MRET and the interrupt lines meet on one edge, and reset may come in
  any cycle;
- the adapters infer from the addresses that the data is there;
- the channels of a bus move independently, and a reset of the core alone comes
  between a request and its response;
- two processors share memory with no lock but a status word, and earlier
  sessions leave both words and a running core behind;
- the checkers of the bench are concurrent processes over queues; they pair
  observations with a log by searching, hold some back, and must neither raise
  a false alarm nor stop looking;
- the scripts carry state from one row to the next and over files.

What makes each part correct. The pipeline: every program has the effect of
executing its instructions one at a time, with precise traps, and it never
wedges. Decoder, ALU, LSU: the instruction tables. RV32M units: the result
defined by the extension for every operand, also when stalled. CSR file: atomic
read-modify-write, trap entry and return. Adapters: the data that comes with
`ready` is that of the address the core drives. AXI parts: every request gets
one response, and that response. Loader: the verdict it prints is that of this
run of the program. Bench and regression: a pass means agreement, a report means
disagreement. Generator: programs that assemble and end. Collector: what is
sampled is what the program did.

The full list of hazards, with lines, is in `PROJECT.json`.

## 2. Plan

The order in which the modules were written, the most important behaviour
first, and what is left.

1. Done: the data path, the pipeline, the abstract machine, the refinement, the
   safety and liveness properties, and proofs of the safety properties.
2. Done: `RiscvZynq`, the pipeline composed with the adapters and the RAMs.
3. Done: `AxiLiteMaster` and `AxiLiteControl`, each with the abstract port it
   implements and the proof that it does.
4. Done: `Loader` and `SelfTestAsm`.
5. Done: `RetireShadow`, `UvmScoreboard`, `TraceCompare`.
6. Done: `InstrSequence`, and the coverage collector (`CovTest` and the modules
   under it).
7. Done: proofs of the wrapper, the data path, the units, the retirement trace,
   the loader, the scoreboards, the comparison of logs, the collector's register
   state and the generated program.
8. Done: the refinement of the pipeline for every program, instruction class by
   instruction class.
9. Left: the invariants named in section 5 as only model-checked; the generator's
   sub-programs and illegal or hint instructions.

## 3. Modules

| Module | Models |
|---|---|
| `RiscvPkg` | words of four lanes of `ByteBits` bits (8 in the RTL), bit fields, cause codes |
| `RiscvAlu`, `RiscvDecode`, `RiscvLsu`, `RiscvHazard` | the combinational modules of the same names |
| `RiscvCsr` | the CSR file: reads, writes, trap entry, MRET; `CsrNext` is its clock edge |
| `RiscvMulDiv`, `RiscvMulDivUnit` | the RV32M units; the units alone with an EX stage that drives them |
| `RiscvCore` | the pipeline with both memories and the register file |
| `RiscvCoreSafety` | its safety and liveness properties |
| `RiscvIsaOps`, `RiscvIsa`, `RiscvCoreIsa` | the abstract machine, one instruction per step; the refinement mapping |
| `RiscvOps` | decoder, ALU, comparator, LSU against `RiscvIsaOps` |
| `RiscvZynq` | `RiscvCore` between the adapters, the RAMs' output registers and a peripheral |
| `AxiLiteMaster`, `PeriphPort` | the bus master with a slave; what the core's data port promises |
| `AxiLiteControl`, `ControlRegs` | the control block with a bus master; atomic registers |
| `Loader` | both ARM applications with the programs they run |
| `SelfTestAsm` | the encoders and `li` of the self-test, decoded by the core's decoder |
| `RetireShadow` | the shadow pipeline and flow monitor beside `RiscvCore` |
| `UvmScoreboard` | monitors, predictor, both scoreboards, end of test |
| `TraceCompare` | the two log converters and the comparison, for one seed |
| `InstrSequence` | the generated main program: list, streams, labels, targets; and its run |
| `RiscvDvPkg` | enumerations and instruction attributes |
| `CovInstr` | one instruction as the collector sees it: operands, state, value classes, hazards |
| `CoverGroups`, `CoverEncodings` | the cover groups; the bins of the compressed encodings on all half-words |
| `CovTest` | the collector reading the traces of a run |
| `MCRiscvCore`, `MCRiscvZynq`, `MCRetireShadow`, `MCAxiLite`, `MCEnvironment` | instances for TLC |
| `MCFunctions` | `RiscvOps`, `RiscvMulDivUnit`, `SelfTestAsm` and `CoverEncodings` as one specification, with its own `part` |
| `Environment` | the five programs around the core as one specification: the variable `part` says which one a behaviour belongs to, and the others stay parked |
| `RiscvOpsProofs` | lemmas about the operators: words, bits, lanes, the units |
| `RiscvCoreProofs`, `FunctionsProofs`, `AxiLiteMasterProofs`, `AxiLiteControlProofs`, `EnvironmentProofs` | theorems about the modules they are named after |
| `RiscvComposedProofs` | theorems about `RiscvZynq` and `RetireShadow`, which are both built on `RiscvCore` |
| `GeneratorProofs` | theorems about `InstrSequence`, the generator's part of `Environment` |

Definitions named `X_Something` stand before a definition `X` and state a
plausible mistake in it, with a comment "Mutant of X". They are used to see
that each property can fail.

### The core

A step of `RiscvCore` is a rising clock edge. Its inputs (`imem_ready`,
`dmem_ready`, the interrupt lines, reset) are chosen afresh; operators named like
the wires of `riscv_core.sv` compute the combinational values, and the next
value of every register is assigned as in the clocked block. The block's cases
are actions:

- `ClockMemStall`: `mem_stall` holds; fetch takes responses, the units run, WB
  drains, everything else holds.
- `ClockRedirect`: the instruction in EX redirects fetch.
- `ClockAdvance`: any other edge, `m_stall` and the load-use stall included.
- `Reset`: the reset branch. The memories keep their contents.

Each stage register is a record (`if_id`, `id_ex`, `ex_mem`, `mem_wb`) with the
fields of the source; the decoder's outputs travel in its `op`. `if_buf` is the
response buffer and `mul`, `div` are the units' registers. Abstractions:

- Words have four lanes of `ByteBits` bits. The lane structure, the sign bit
  and the wrap-around are kept; TLC uses 1, 2 or 4 bits a lane, the proofs any.
  Widths that do not scale with the word are written out (CSR bits 3, 7 and 11).
- An instruction is a record of its fields, so the positions of the bits in an
  encoding and the assembly of immediates are left to `SelfTestAsm`.
- The instruction memory is a queue of unanswered requests (`imem_requests`)
  answered in order; an answer says which address it answers. That is how
  `imem_ready` and `imem_resp_pc` are used, and it lets a wrong fetch unit have
  two requests in flight or take an answer for another one.
- The data memory wraps at its size. It writes in every cycle in which the
  enables are on, as both memories in the repository do.
- A register outside `Reg` reads as zero (the checks use `x0` to `x2`).
- `imem_resp_accept` is left out: nothing in the repository reads it.

`RiscvIsa` is written from the instruction, CSR and trap tables of
`specs/core_specs.md`, not from the RTL: memory is an array of bytes, a CSR is a
word with a set of writable bits, an access is aligned or traps. It and
`RiscvIsaOps` share only the word arithmetic of `RiscvPkg` with the pipeline.

### The wrapper and the buses

`RiscvZynq` adds to `RiscvCore` the registers of the adapters and of the RAMs'
outputs. The memories of `RiscvCore` are what the core should see; the output
registers are what it gets; the properties say that they agree when the wrapper
raises a ready. The peripheral answers in any cycle in which it is selected.

`AxiLiteMaster` and `AxiLiteControl` step with the clock; the other end of the
bus is external and moves every channel on its own. Their abstract
specifications are small: a device that counts its accesses (an access lost or
done twice shows), and registers whose accesses take effect at one moment
between request and response. They sit on different buses and share nothing, so
`MCAxiLite` puts them side by side and a behaviour of the run `AxiLite` is about
one of the two; the other rests in its state after reset.

### The programs

A step of `Loader` is one access of the ARM or of the core to shared state.
`Clobbered` and `OtherProgram` say what earlier sessions may have left: any of
the words the programs use, a core that runs. An instruction word written to the
RAM may read back wrong. The instructions of `build_program` are represented by
the stores they perform, and `li`, the encoders and the scattered immediates are
in `SelfTestAsm`, on all immediates that differ in a field.

A step of `UvmScoreboard` is one pass of one simulation process through its
loop. The core it watches retires the log of Spike, or that with one deviation:
wrong data, a wrong jump, a lost commit, a commit reported while it waits.

`TraceCompare` reads Spike's log line by line, with the states of
`read_spike_trace`; a CSV row is its register updates. The RTL's log is the
program with one deviation: wrong data, an instruction lost or too many, a log
cut short, a log that goes on.

`InstrSequence` makes a list as the generator does (random kinds, streams
inserted at any place the code permits, labels, targets within
`max_branch_step`), then runs the list with every branch going either way. A
stream of jumps has them in any order.

`CovTest` executes any program over a given set of instructions and writes a
trace as Spike's converter would; beside it the collector reads it. So what is
sampled can be compared with what happened. Values have four bits; a floating
point value is the name of its class.

## 4. What is checked

| Run | Question | Bound |
|---|---|---|
| `CoreData` | operands, memory order, redirects, units and lanes under any wait states | all programs of 4 from 7 loads, stores and additions (`x0` included), of 3 from 7 branches and jumps, of 3 from 7 with RV32M, of 3 from 8 byte and half accesses; 8-bit words |
| `CoreTraps` | precise traps and interrupts; CSR read in ID against writes in EX | 576 programs of two body instructions (12 each) and a handler (4), the line free in any cycle; all programs of 3 from 13 CSR, trap and memory instructions; 16-bit words |
| `CorePipeline` | fetch handshake, order, units; no wedge | 9 looping programs, reset and interrupts in any cycle |
| `Functions` | functions against references | all operations, functs and pairs of 4-bit words; the units with stalls and resets, fresh and used; all encoders; `li` on all 14-bit constants with 6 low bits; all half-words |
| `AxiLite` | one transaction per access of the core; one response per access of the ARM | master: 5 requests over 2 words, all delays, core reset while the bus is quiet; control slave: 3 written values, 3 offsets, one access of each kind outstanding |
| `Zynq` | fresh data under derived ready signals | all programs of 3 from 10 instructions, 3 RAM write modes, resets |
| `RetireShadow` | what the shadow reports is what happened | all programs of 3 from 8 |
| `Environment` | loader, scoreboards, regression, generator, collector | below |
| `CoreCsrInterrupt` | an interrupt on a CSR instruction | expected violation, section 6 |
| `AxiMasterReset` | a core reset during a bus access | expected violation, section 6 |
| `GeneratorLoop` | do generated loops end | expected violation, section 6 |
| `GeneratorBranch` | are atomic streams entered at their start only | expected violation, section 6 |

What the properties say:

- The refinement `ImplementsIsa` maps the pipeline to `RiscvIsa`: the program
  counter is that of the oldest instruction that has not left EX, the registers
  and memory count results in MEM and WB as written. Every edge is then one
  instruction of the abstract machine or nothing.
- `ImplementsPort` and `ImplementsRegs` are the refinements of the two AXI
  modules. The second includes that the address of one write never goes with the
  data of another.
- `ReadyIsFresh` (`FetchFresh`, `LoadFresh`): in a ready cycle the output register
  holds the word `RiscvCore` reads, so a step of the wrapper is a step of
  `RiscvCore` and what is shown of one holds of the other. `NeverAbandons`: no
  redirect comes while a fetch waits, which an adapter that answers once requires.
- `ReportsExact`, `FlowIsPath`: what the shadow reports is the instruction at that
  address, no register write goes missing, and the flow is a path of the program.
- The umbrella modules state one property for a group of related ones of the
  module it comes from, which are defined and explained there:

| Property | Conjuncts |
|---|---|
| `DatapathImplements` | `RiscvOps`: `AluImplements`, `BranchImplements`, `LoadImplements`, `StoreImplements` |
| `UnitResult` | `RiscvMulDivUnit`: `UnitResult`, `DivisionInvariant` |
| `AssemblyDecodes` | `SelfTestAsm`: `EncodingsDecode`, `LiBuildsConstant` |
| `BinsExact` | `CoverEncodings`: `HintBinsExact`, `IllegalBinsExact` |
| `VerdictOfThisRun` | `Loader`: `VerdictOfThisRun`, `RunsWholeImage`, `DoneIsLast` |
| `DeviationReported` | `UvmScoreboard`: `EarlyDataReported`, `FlowFaultReported` |
| `StateTracksProgram` | `CovTest`: `StateTracksProgram`, `RowsAccounted` |
| `SampleExact` | `CovTest`: `OwnOperands`, `FpSources`, `LsuHazardExact`, `BranchOutcome`, `ValueClasses` |
| `VerdictSound` | `TraceCompare`: `SpikeRowsExact`, `VerdictSound`, `InStep` |
| `ProgramWhole` | `InstrSequence`: `TargetsResolve`, `StreamsWhole`, `JumpsAllTaken` |

  Liveness: `Completes` (units), `Returns` (loader), `TestEnds` (scoreboards),
  `ProgramEnds` (generated programs); `NoFalseAlarm` is of the scoreboards.

`Environment` is five independent specifications. Its bounds: the loader has
three code words, three tests, five polls (enough for the core to be done
before the last one, and few enough for it not to be) and IMEM faults; the
scoreboards get a log of 13 commits with a loop run three times, a subroutine
and an ECALL, every deviation at every place, a window of 3 and FIFO marks of 2
and 4; the regression all programs of 3 from 6 instructions with 14 deviations;
the generator lists of up to 3, two streams, steps of up to 2, three jumps to a
stream; the collector five sets of instructions, up to two traces and three
rows.

Why these bounds are enough. A hazard of the pipeline involves an instruction
and those in the three stages before it, so programs of three and four
instructions, all of them over an alphabet that has each kind of producer and
consumer, meet every combination of stages. Programs end in a jump to itself,
so the pipeline keeps running to drain. Two registers besides `x0` give every
equality pattern of `rd`, `rs1` and `rs2` needed by a forwarding select. Wait
states are unbounded: `imem_ready` and `dmem_ready` are free in every cycle in
`CoreData` and `CorePipeline`; `CoreTraps` holds `imem_ready` to keep it small.
The arithmetic is exhausted in `Functions` on words with a sign bit, a carry and
four lanes. The AXI models have no counter, so their bounds are the payloads: two
different words and a third that equals one of them tell every mix-up. The
scoreboards' window and marks scale with the log; three rounds of a loop are
more than the window. In the regression a mismatch involves the row before, the
row, and the row after; so do the collector's hazards, which look back one
instruction. Two streams are enough for one to land in the other.

Deadlock is checked in every run: a clock edge or, for programs that end, an
explicit stutter is always possible.

Fairness, and why the code justifies it:

- `CorePipeline`, `Zynq`: the clock runs and each memory is ready infinitely
  often (one weak fairness condition each; they need never be ready together).
  The adapters answer in one cycle and the AXI master answers (`Answered`).
  Nothing is assumed of the interrupt lines.
- `AxiLite`: the clock runs, and the device behind the master accepts and answers
  what it has, as AXI4-Lite obliges it to. Of the control slave's bus master
  nothing is assumed: `Served` is about the response being there to take.
- `Environment`: the ARM program runs on, the processes of the simulator do, a
  generated program does. The core under the loader need not: the loader must
  return all the same. A branch may go either way for ever.
- `Functions`: memory does not stall a unit for ever.

What `Progress` does not say: that the interrupted program advances. A line that
stays up traps again after every MRET, in the RTL as in the architecture.

## 5. What is proved

A theorem holds for every value of the constants that the named assumptions
allow. `tlapm` checks each from nothing but these.

### The core

For every program, word size, memory size, set of registers, and every behaviour
of the memories, interrupt lines and reset. The assumptions:
`ByteBitsAssumption`, `NumExtInterruptsAssumption` and `CoreAssumption` give the
parameters their types; `ProgramAssumption` says that the instruction memory is
full of instructions and that the fields of each are as wide as the decoder's
outputs (`riscv_decode.sv:16`), which any 32 bits satisfy.

| Theorem | Property |
|---|---|
| `TypeCorrect` | `TypeOK` |
| `FetchSafe` | `FetchHandshake`: `FetchConsistent` and `DiscardIsAlone` |
| `FetchInOrder` | `FrontInOrder` |
| `StagesSpaced` | `FetchSpacing` |
| `UnitsServe` | `UnitsServeEx` |
| `LoadUseNeverStalls` | the load-use stall is never raised |
| `OperandsCorrect` | `OperandsInOrder` |
| `CsrReadsOld` | `CsrReadReturnsOld` |
| `DataInvariant` | every register holds a word, every stage its own instruction |
| `CoreImplementsIsa` | `ImplementsIsa`, when no CSR write is lost |
| `QuietCoreImplementsIsa` | `ImplementsIsa`, with the interrupt lines low |
| `ReportsAreExact` (`RiscvComposedProofs`) | `ReportsExact` |

The inductive invariant `IInv` (`RiscvCoreProofs`, theorem `InductiveInvariant`)
joins the fetch handshake, the order of the front end, the spacing of the
stages and the ownership of the units. None of them is inductive alone. The key
is the spacing: a request is made only in a cycle that accepts nothing, so the
instruction accepted next reaches ID when EX is empty, and EX when MEM is empty.
From it follow

- an instruction in EX never sees a memory stall, so a unit's `done` is cleared
  in the cycle its instruction leaves (`UnitsClock`);
- a redirect finds no abandoned answer outstanding, since its instruction would
  have to be in a front end that is empty (`RedirectIInv`);
- decode is stalled by the units only (`OnlyUnitsStall`).

There is one lemma per action (`MemStallIInv`, `RedirectIInv`, `AdvanceIInv`,
`ResetIInv`), and lemmas for the parts several of them use: the fetch registers
(`FetchAdvanceIInv`), ID/EX (`IdExClock`), the units (`UnitsClock`,
`MulNextFlags`, `DivNextFlags`).

`OperandsCorrect` looks at the one edge that puts an instruction into EX
(`EntersEx`): the select computed in ID names WB exactly if the instruction then
in MEM writes the register, and otherwise the captured value is what the register
file holds after the edge (`CapturedValue`, the write-first bypass).
`CsrReadsOld` rests on the same edge: EX is empty, so no CSR is written, and a CSR
instruction never waits for a unit (`CsrOpIsAdd`).

`DInv` says what is in the registers: pc, operands, results, CSRs and memories
hold words; the instruction in IF/ID and the response buffer is the one at the
address that travels with it, the controls in ID/EX are the decoder's outputs for
it; and there is one pair of words, the operands captured when a unit started, of
which each busy unit holds the partial result and each done unit the result
(`MulOk`, `DivOk`). It has a lemma per register and one per action
(`StallDInv`, `RedirectDInv`, `AdvanceDInv`, `ResetDInv`). Its theorem assumes
`ByteBits >= 4`: `mstatus` has a bit 12 and `mcause` codes of that size, so a word
must be wider than that; the RTL has 8 bits a lane. `ReportsAreExact` adds that
the shadow registers hold the instruction of the stage they stand beside
(`ShadowInv`), four bytes before the link address that stage carries.

`CoreImplementsIsa` is the refinement of `RiscvIsa`, for every program, timing of
the memories and of the interrupt lines. Its hypotheses:

- `ProgramsImplemented`: the programs consist of the encodings of RV32IM, on
  which the tables of core and machine agree (fences, unknown opcodes and unknown
  CSRs among them; not, for instance, a branch with `funct3` 2). Their operands
  are registers of `Reg`.
- `CsrWriteRetires`, as a property of the behaviour: the write of a CSR that no
  trap writes retires. The core violates it (section 6, `CoreCsrInterrupt`); for
  these programs it is the only way in which the pipeline departs from the
  machine. When the lines stay low the hypothesis is proved instead (`QuietLines`), and
  `QuietCoreImplementsIsa` has no condition on the behaviour.
- `TRUE \notin ResetInputs`: the machine has no reset after power-up.
- `ByteBits >= 4`, as for `DataInvariant`.

The invariant is `RInv` (theorem `RefinementInvariant`): `DInv`, operands and CSR
values in program order, and two parts that only the refinement needs. `PendingReads` says what a CSR
instruction may have read of the pending bits, which the machine does not keep.
`UnitOperands` says that the operands a unit captured are those of the
machine's registers for as long as the unit works; forwarding may have moved on
by then. `Fires` splits the edges. When no instruction leaves EX the
machine stutters: a result moves from MEM to WB to the register file (`QuietRegs`),
a waiting store writes its lanes again (`QuietMem`, `MergeTwice`), the oldest
instruction keeps its place (`QuietPc`). When one leaves, MEM and ID
are empty (`Fired`), so the machine's state after the edge is its doing alone,
and there is a lemma for each action of the machine: `UpperStep`, `JumpStep`,
`BranchStep`, `ArithmeticStep`, `LoadStep`, `StoreStep`, `CsrStep`, `MretStep`,
`NoOperationStep`, and `TrapsAre` for the three kinds of trap. The memory of bytes
that the machine has and the words with lanes of the core meet in `MemoryLoad`
and `MemoryStore`, its CSRs and the fields of `mstatus` in `CsrWriteIs`.

### The data path and the units

`FunctionsProofs` proves the two properties that the run `Functions` exhausts on
small words, for every number of bits a lane (`ByteBitsAssumption`).

| Theorem | Property |
|---|---|
| `DatapathCorrect` | `DatapathImplements`: decoder with ALU, branch comparator, loads, stores |
| `UnitDelivers` | `UnitResult`: products, quotients, remainders, under any stalls |

`RiscvOpsProofs` has the arithmetic. A bitwise operation is an operation on each
bit because a sum of different powers of two determines its bits (`BitSum`,
`BitsOf`, `BitsLinear`); a word is its four digits (`WordDigits`,
`DigitsUnique`), so a load extracts and a store merges what the array of bytes
says (`LoadIs`, `StoreIs`). The divider keeps
`dividend read so far = quotient * divisor + remainder` with the remainder below
the divisor (`Dividing`, `DivisionStep`); its signs and the two special cases are
`DivideIs`, `DivByZero` and `DivOverflow`. `UnitInv` says that `MulOk` and
`DivOk` hold of the instruction in EX and that units without one are idle,
whatever their registers still hold. Induction over numbers is done by taking
the least counterexample (`LeastElement`).

### The wrapper

| Theorem | Property |
|---|---|
| `ReadyFresh` | `ReadyIsFresh`: fetches and loads |
| `FetchesAnswered` | `NeverAbandons`, and no answer is ever discarded |
| `WrapperIsCore` | a step of the wrapper is a step of `RiscvCore` |
| `WrapperImplementsIsa` | `ImplementsIsa`, under the hypotheses of `CoreImplementsIsa` |

`ZInv` joins `IInv` with the two ports: the RAM's output register holds the
instruction of the one request there may be (`FetchPort`), and a held load sees
the word at its address (`DataPort`), in all three write modes. `WrapperIsCore`
carries `IInv` over.

### The AXI4-Lite blocks

For every set of requests, words, payloads and offsets, and every behaviour of
the other end of the bus:

| Theorem | Property | Under |
|---|---|---|
| `OneInFlightHolds` | `OneInFlight` | `ResetOnlyQuiet` |
| `ValidHeldHolds` | `ValidHeld` | `ResetOnlyQuiet` |
| `MasterImplementsPort` | `ImplementsPort` | `ResetOnlyQuiet` |
| `AccessesAnswered` | `EveryAccessAnswered` | `MaxOutstanding = 1` |
| `SlaveImplementsRegs` | `ImplementsRegs` | `MaxOutstanding = 1` |

The hypotheses are those under which the blocks are right; what happens without
them is in section 6. `BusInv` ties the state of the master to what the slave
holds of the current transaction: which channels have moved, whether a response
is due, and that it belongs to the request of the core. `SlaveInv` counts: for
each kind, what the bus master has outstanding is on a channel, held by the
slave, or a response waiting; with one outstanding no two of these are
non-zero. Under each, a step of the block is a step of the abstract port or
none, one lemma per action.

`BusInv` needs of the requests that they are inside the device and that a write
brings its data and strobes (`RequestShape`); `SlaveInv` that the payloads are
bytes and that offset 0 exists (`PayloadAssumption`, `OffsetAssumption`).
`MasterTypeCorrect` and `ControlTypeCorrect` are the types.

### The programs around the core

| Theorem | Property |
|---|---|
| `LoaderVerdict` | `VerdictOfThisRun` |
| `NoFalseAlarms` | `NoFalseAlarm` |
| `DeviationsReported` | `DeviationReported` |
| `CollectorTracks` | `StateTracksProgram` |
| `SamplesExact` | `SampleExact` |
| `VerdictsSound` | `VerdictSound` |
| `ProgramsWhole` (`GeneratorProofs`) | `ProgramWhole` |

They hold for any number of code words, tests and polls (`LoaderAssumption`),
any log of Spike with one ECALL (`LogAssumption`), window and marks of the
queues (`MarksAssumption`), any set of traces in which an instruction
without operands writes no register (`OperandAssumption`) and each has the operands
of its format (`RowAssumption`; `C_ADDI4SPN` is left out, for the collector never
reads its immediate, `riscv_cov_instr.py:511`), programs of any
length to compare with a deviation anywhere in them (`TraceAssumption`), and any
settings of the generator: number of instructions, streams and jumps, kinds of stream, reach
of a branch (`GeneratorAssumption`).

- `LoaderInv`: before release the core is in reset and the words are cleared and
  verified up to the index of the loop (`Prepared`); after it the core runs the whole image, and what it
  has written is a prefix of what the program writes, the status word last
  (`Progress`); what was read back after a good status is final (`WasRead`).
- `FlowInv`: the predictor is at the place in the log of the last commit
  (`OnTrack`), or a deviation was retired and its error is raised or on its way
  (`Caught`), or the commits since a lost one all lie in a loop of two
  instructions (`Behind`). `CommitInv`: the queue of expected commits is the segment of
  the log from the first commit not compared, and what waits in the window is the
  segment the monitor delivered.
- `CovInv`: every register the collector claims to know has the program's value,
  and the rows read are sampled, silent or the last. `SampledInv` adds what the record
  sampled last says of its row (`Exact`): where the collector looks for an operand is
  where the row has it (`IntegerLooked`, `FloatSampled`, one case per format), which is
  so because the kinds of the operands fit only one order. The hazard needs a fact of
  two rows: an integer access is only readable in a trace that writes the immediate
  before the base, a floating-point store only in one that writes it after, so the row
  before an access is an access the property counts, or none.
- `CompareInv`, two invariants. `ReadInv`, while the logs are read: each line of
  Spike's log belongs to one instruction, and the rows written so far are those of
  the instructions before the line (`RowsUpTo`), less the one in hand. `WalkInv`,
  while rows are compared: each trace is a walk through register states (`Walk`),
  the index of a trace says how far, and its state is `gpr_val`. With no mismatch
  the two walks went through the same states, but for the change being sought; a
  mismatch means that the walks part (`WalksPart`), so the histories differ.
  `Walk` and `RowsUpTo` are recursive functions; that each satisfies its defining
  equation for every length is an induction over one number (`Recursion`).
- The generated program, two invariants again. `ListInv` is about the list while it is
  edited in place. It is made of pieces (`Pieces`): a stream is in one piece
  (`OnePiece`), a random instruction is a piece of its own, and the last of these is no
  branch (`Randoms`). The number of the k-th random instruction is how many come
  before it (`Number`, `Labels`); an instruction that is a target keeps its label;
  a branch goes to a higher number; and each number below the last is the number of
  some random instruction (`EachNumber`), so every branch finds its target. A stream put
  before a non-atomic instruction falls between two pieces (`InsertWhole`).
  `RunInv` is about the run: what was visited is of the stream being executed
  (`InStream`), and a stream of jumps, entered at its first, has taken the
  jumps its order begins with (`Tours`, `OnTour`).

The proof of `DeviationsReported` found a case the model had not named, the loop
of two instructions in section 6.

### Only model-checked

- Liveness (`Progress`, `Completes`, `Returns`, `TestEnds`, `ProgramEnds`,
  answers on the buses): fairness and ENABLED are outside the prover's reach.
- `FlowIsPath`: it holds of programs whose indirect jumps stay within the
  successors the property lists, which is a fact of the bounded programs.
- `AssemblyDecodes` and `BinsExact`: tables of encodings, exhausted by TLC.
- `TypeOK` of `Environment`, of which the proofs need the parts that the invariants
  above contain.

## 6. What the checks show

### Findings

- **An interrupted CSR instruction keeps its write** (`CoreCsrInterrupt`). When
  an interrupt is taken on a CSR instruction in EX, `ex_csr_write_en`
  (`riscv_core.sv:442`) stays set: the CSR is written, `rd` is not, and after
  MRET the instruction runs again and returns the new value. `src/README.md:110`
  says that these instructions "read/modify a CSR atomically and return its old
  value in `rd`". The programs of `CoreTraps` have no CSR instruction where an
  interrupt is enabled.
- **Resetting the core during a bus access withdraws a valid**
  (`AxiMasterReset`). The AXI master is reset with the core, the bus is not.
- **Generated loops do not end** (`GeneratorLoop`). `riscv_loop_instr.py:259`
  repeats the setting of the loop counter between its update and its branch.
- **A branch may go into an atomic stream** (`GeneratorBranch`).
  `riscv_instr_sequence.py:123-124` says "The atomic instruction streams don't
  have labels except for the first instruction. This is to avoid branching into
  an atomic instruction stream which breaks its atomicy." The jumps of a jump
  stream are labelled with numbers (`riscv_directed_instr_lib.py:140`), the same
  as the random list's, and the assembler takes the nearest one. What remains
  true is `ProgramWhole`: such a branch still goes forward, `JumpsAllTaken` holds
  of a stream entered at its first instruction, and the program ends.
- **`GCC/main.c` cannot pass** (`VerdictOfThisRun` in `Environment`, theorem
  `LoaderVerdict`). Its inputs are 13 and 70 (lines 7-8), its checks 20, 6 and 91
  (lines 61-66) are made for 13 and 7. Every run reports RESULT and EXPECTED 993
  (`0x3e1`), FAIL_COUNT 3, and the loader's verdict is FAIL. `GCC/README.md:65-68`
  says "Expected result": RESULT and EXPECTED `0x00000fff`, FAIL_COUNT
  `0x00000000`. The property states what the program does, in these numbers.

### Facts the proofs and checks establish

- **The pipeline is half-rate.** No two adjacent stages of ID, EX and MEM are
  ever occupied together, whatever the memories do (`StagesSpaced`). It follows
  that the load-use stall and its hold register are never raised
  (`LoadUseNeverStalls`), that forwarding from EX/MEM is never selected, and that
  an instruction takes at least two cycles.
- **Correctness of CSR reads rests on that.** A CSR is read in ID without a look
  at EX. It returns the right value only because EX is empty then.
- **So does the wrapper.** Its adapter never answers a fetch that was abandoned.
  With this core none is (`NeverAbandons`).

- **The interrupted CSR write is the only departure from `RiscvIsa`.**
  `CoreImplementsIsa` needs nothing of the core but that the four CSRs no trap
  writes (`mtvec`, `mie`, `mscratch`, `meimask`) change with a retiring
  instruction; the others are overwritten by the trap. So for programs of RV32IM
  nothing else can go wrong, in any timing.

### Observations met while modelling, without a run

Each is a limit of a check above: the model restricts itself to inputs where it
does not matter, or the property leaves the case out. Where a comment or message
of the repository says more than the code does, it is quoted.

- The control slave accepts an access while a response is outstanding and loses
  a response (`axi_lite_control.sv:119`, `150`); hence `MaxOutstanding = 1`, as
  the ARM program waits for each access. What is checked and proved of the slave
  says nothing about more.
- With wait states the shadow pipeline reports a waiting instruction again in
  each of them; `cpu_top.sv` ties both memories ready, and `RetireShadow` does.
- The flow monitor does not notice a commit lost in a loop of two instructions
  that runs up to the ECALL: one turn less looks the same. `FlowFaultReported`
  leaves this case out (`LoopOfTwo`), and one right before the ECALL.
- The commit scoreboard holds the last 20 commits back and never compares them:
  `EarlyDataReported` is about the commits before that tail.
- The regression gives "PASS - CSVs are identical" (`run_simulation.py:229`) to a
  trace cut short, since the comparison ends with the shorter trace
  (`instr_trace_compare.py:119`): `VerdictSound` says prefix.
- Coverage: rows for `li`, `ret` and `la` are passed over, so a register they
  write is behind until it is written again (`StateTracksProgram` names them);
  the hazard of integer registers is also raised for a register the last
  instruction does not write (`riscv_cov_instr.py:409`); a base-first operand
  order ends the collection; the bin of the DIV overflow tests for divisor 1
  (`riscv_cov_instr.py:295`); two-operand floating point instructions never read
  their operands (`riscv_floating_point_instr.py:153`); the immediate of `C_ADDI4SPN`
  is never read (`riscv_cov_instr.py:511`); `expect_illegal_instr` is never taken back.

## 7. Not modelled

- `riscv_zynq_bridge.v`, `design_1_wrapper.v` and the block design: wiring
  without state.
- Conversion of ELF files to headers and memory images, starting of tools,
  collection of results over seeds: input and output. The out-of-order
  comparison of traces is commented out in the code.
- The UVM driver and sequencer (they load memories) and the two directed tests,
  which wait for fixed register values.
- Of riscv-dv: the constraint solver's choice of operands; sub-programs, illegal
  and hint instructions, which the custom tests do not ask for; trap handlers and
  page tables, whose generation is text; the SystemVerilog generator and the
  targets of other cores. In the collector: special values and comparison
  results, which no coverpoint reads, and the report's text.
