-------------------------- MODULE RefinementProofs --------------------------
(***************************************************************************)
(* The pipelined core implements the sequential machine, on every program  *)
(* up to the first ordering the design leaves to the program.              *)
(***************************************************************************)
EXTENDS CoreProofs

(***************************************************************************)
(* What the two machines are compared on. Isa has no interrupts and no     *)
(* extension instruction, and its peripherals keep showing the same byte.  *)
(* With bytes of one bit the input port would be the address of a return   *)
(* byte.                                                                   *)
(***************************************************************************)
NoExtensionIn(p) == \A address \in DOMAIN p : p[address].op # "EXT"

SequentialEnvironment ==
  /\ W > 1
  /\ InterruptLevels = {FALSE}
  /\ \A x, y \in GpioInputs : x = y
  /\ \A p \in Programs : NoExtensionIn(p)

(***************************************************************************)
(* The inductive invariant, one part for each thing the pipeline counts    *)
(* on.                                                                     *)
(***************************************************************************)

\* The world outside keeps still.
Quiet == ~interrupt_signal_staging /\ gpio_a_read \in GpioInputs

NoExtension ==
  /\ NoExtensionIn(rom)
  /\ "EXT" \notin {instruction_s1.op, instruction_s2.op, instruction_s3.op, alu_control}

\* Stage 1 holds the instruction at the program counter (cu.v, pipeline.v).
Fetched == cpu_stopped \/ instruction_s1 = InstructionAt(pc)

\* The arithmetic unit holds the operands of stage 2, not those of an instruction that
\* waits in stage 1 (alu.v).
Latched == instruction_s2.op \in AluOps => alu_control = instruction_s2.op

\* The request on the bus is the one of the instruction in stage 2, on the bus its
\* address belongs to, and the unit has not reported it (mmu.v).
Requested ==
  operation_ongoing =>
    /\ ~completed
    /\ instruction_s2.op =
         IF memory_write_signal \/ io_registers_write THEN "STM" ELSE "LDM"
    /\ IF io_registers_read \/ io_registers_write
       THEN IoSpace(memory_address) /\ io_registers_address = IoIndex(memory_address)
       ELSE ~IoSpace(memory_address) /\ ~InterruptSpace(memory_address)
    /\ ~PortStore
    /\ cpu_stopped => Answered

\* A bus that reports ready to a load shows the byte of that very address.
AnswerTrue ==
  /\ memory_read_signal /\ memory_ready => memory_out = memory[memory_address]
  /\ io_registers_read /\ io_registers_ready
       => io_registers_read_bus = IoRegister(io_registers_address)

\* A stopped core has no result left to deliver.
StoppedClean == cpu_stopped => instruction_s2.op \in {"NOP", "STM"}

\* A comparison is in stage 2, or the flags have it, or it moves to stage 2 at the next
\* edge: the unit writes the flags again at every edge it holds a comparison.
FlagsDue ==
  alu_control = "CMP" =>
    \/ instruction_s2.op = "CMP"
    \/ zf = CompareZero(alpha, beta) /\ cf = CompareCarry(alpha, beta)
    \/ operation_ongoing /\ Answered /\ instruction_s1.op = "CMP" /\ actually_execute

PipelineInvariant ==
  /\ TypeOK /\ StrobeDiscipline /\ StageTwoServed
  /\ Quiet /\ NoExtension /\ Fetched /\ Latched
  /\ Requested /\ AnswerTrue /\ StoppedClean /\ FlagsDue

(***************************************************************************)
(* What every edge does, read off once.                                    *)
(***************************************************************************)

\* Without interrupts only a CTR changes the control register, and the program
\* counter moves with the instructions (cu.v).
LEMMA ControlUnitQuiet ==
  ASSUME Quiet, Clock
  PROVE  /\ ~interrupt_signal
         /\ ctr' = IF set_ctr
                   THEN CtrUpdate(ctr, register_read_bus_a, instruction_s1.b) ELSE ctr
         /\ pc' = IF ready_for_next_instruction THEN program_counter ELSE pc
<1>1. ~interrupt_signal
  BY DEF Quiet, interrupt_signal
<1>2. ready_for_next_instruction => ~cpu_stopped
  BY DEF ready_for_next_instruction, execute_stage_1, stage_1_hold
<1> QED
  BY <1>1, <1>2 DEF Clock, ControlUnitClock

\* A memory instruction that executes finds the unit free and no other in stage 2:
\* it is taken, and moves on at once.
LEMMA RequestTaken ==
  ASSUME TypeOK, StrobeDiscipline, StageTwoServed, ScheduledClock, mmu_signal
  PROVE  /\ actually_execute /\ instruction_s1.op \in MemOps
         /\ ~cpu_stopped /\ ready_for_next_instruction
         /\ ~operation_ongoing /\ ~completed
         /\ \A n \in 1..4 : ~mmuStrobes[n]
         /\ stage_2_ready /\ ~stage_1_finished
         /\ instruction_s2' = instruction_s1
<1>1. actually_execute /\ instruction_s1.op \in MemOps
  BY DEF mmu_signal
<1>2. ~operation_ongoing /\ ~completed
  BY DEF ScheduledClock, Hazard, MemoryHazard
<1>3. \A n \in 1..4 : ~mmuStrobes[n]
  BY <1>2 DEF StrobeDiscipline
<1>4. execute_stage_1 /\ ~cpu_stopped
  BY <1>1 DEF actually_execute, execute_stage_1, stage_1_hold
<1>5. ~stage_1_finished
  BY <1>1 DEF stage_1_finished, MemOps, JumpOps
<1>6. stage_2_ready
  BY <1>2 DEF StageTwoServed, stage_2_ready
<1>7. instruction_s2' = instruction_s1
  BY <1>4, <1>5, <1>6 DEF ScheduledClock, Clock, PipelineClock
<1> QED
  BY <1>1, <1>2, <1>3, <1>4, <1>5, <1>6, <1>7 DEF ready_for_next_instruction

\* While the unit works and is not answered, stage 2 keeps its instruction.
LEMMA StageTwoWaits ==
  ASSUME Requested, Clock, MmuWait(ProcessorRequest, PeripheralReply)
  PROVE  /\ operation_ongoing /\ ~Answered
         /\ instruction_s2.op \in MemOps
         /\ ~cpu_stopped /\ ~stage_2_ready
         /\ instruction_s2' = instruction_s2 /\ instruction_s3' = Nop
<1>1. operation_ongoing /\ ~Answered
  BY DEF MmuWait, Answered
<1>2. instruction_s2.op \in MemOps /\ ~cpu_stopped
  BY <1>1 DEF Requested, MemOps
<1>3. ~stage_2_ready
  BY <1>1, <1>2 DEF stage_2_ready, mmu_ready, PreCompleted, Answered
<1> QED
  BY <1>1, <1>2, <1>3 DEF Clock, PipelineClock

\* Stage 2 is only ever held up by the unit at work (pipeline.v, mmu.v).
LEMMA NotReadyWaits ==
  ASSUME TypeOK, StageTwoServed, Clock, ~stage_2_ready
  PROVE  /\ instruction_s2.op \in MemOps
         /\ operation_ongoing /\ ~Answered
         /\ MmuWait(ProcessorRequest, PeripheralReply)
<1>1. instruction_s2.op \in MemOps /\ ~mmu_ready
  BY DEF stage_2_ready
<1>2. operation_ongoing
  BY <1>1 DEF StageTwoServed, mmu_ready, PreCompleted
<1>3. ~Answered
  BY <1>1, <1>2 DEF mmu_ready, PreCompleted, Answered
<1> QED
  BY <1>1, <1>2, <1>3
  DEF Clock, MmuClock, MmuFinish, MmuIdle, MmuInterruptSpace, MmuStart, Accepts, Answered

(***************************************************************************)
(* The invariant holds at power up and at every edge, part by part.        *)
(***************************************************************************)

\* The core powers up in the invariant.
LEMMA PipelineInit ==
  ASSUME SequentialEnvironment PROVE Init => PipelineInvariant
<1> SUFFICES ASSUME Init PROVE PipelineInvariant
  OBVIOUS
<1>1. TypeOK /\ StrobeDiscipline
  BY InitType, MmuInitType DEF Init
<1>2. StageTwoServed /\ Latched /\ StoppedClean
  BY DEF Init, StageTwoServed, Latched, StoppedClean, Nop, MemOps, AluOps
<1>3. Quiet
  BY DEF Init, Quiet, SequentialEnvironment
<1>4. NoExtension
  BY DEF Init, NoExtension, Nop, SequentialEnvironment
<1>5. Fetched
  <2>1. PcMod - 1 \notin DOMAIN rom
    BY <1>1 DEF TypeOK, CoreTypeOK, IsProgram
  <2> QED
    BY <2>1 DEF Init, Fetched, InstructionAt
<1>6. Requested /\ AnswerTrue /\ FlagsDue
  BY DEF Init, MmuInit, Requested, AnswerTrue, FlagsDue
<1> QED
  BY <1>1, <1>2, <1>3, <1>4, <1>5, <1>6 DEF PipelineInvariant

\* The environment stays as it is.
LEMMA QuietStep ==
  ASSUME SequentialEnvironment, Quiet, Clock
  PROVE  Quiet' /\ gpio_a_read' = gpio_a_read
BY DEF SequentialEnvironment, Quiet, Clock, Environment

\* No extension instruction gets into the pipeline.
LEMMA NoExtensionStep ==
  ASSUME NoExtension, Clock PROVE NoExtension'
<1>1. rom' = rom
  BY DEF Clock, Environment
<1>2. \A address : InstructionAt(address).op # "EXT"
  BY DEF NoExtension, NoExtensionIn, InstructionAt, Nop
<1>3. Nop.op # "EXT"
  BY DEF Nop
<1>4. "EXT" \notin {instruction_s1'.op, instruction_s2'.op, instruction_s3'.op}
  BY <1>2, <1>3 DEF NoExtension, Clock, PipelineClock
<1>5. alu_control' # "EXT"
  BY DEF NoExtension, Clock, AluClock
<1> QED
  BY <1>1, <1>4, <1>5 DEF NoExtension, NoExtensionIn

\* The program counter and stage 1 move together.
LEMMA FetchedStep ==
  ASSUME TypeOK, Quiet, Fetched, Clock PROVE Fetched'
<1>1. CASE cpu_stopped
  <2>1. ctr' = ctr
    BY <1>1, ControlUnitQuiet
    DEF set_ctr, actually_execute, execute_stage_1, stage_1_hold
  <2> QED
    BY <1>1, <2>1 DEF Fetched, cpu_stopped
<1>2. CASE ~cpu_stopped
  <2>1. instruction_s1' = InstructionAt(pc')
    BY <1>2, ControlUnitQuiet DEF Fetched, Clock, PipelineClock
  <2>2. rom' = rom
    BY DEF Clock, Environment
  <2> QED
    BY <2>1, <2>2 DEF Fetched, InstructionAt
<1> QED
  BY <1>1, <1>2

\* Operands are latched when their instruction enters stage 2.
LEMMA LatchedStep ==
  ASSUME Clock PROVE Latched'
<1> SUFFICES ASSUME instruction_s2'.op \in AluOps PROVE alu_control' = instruction_s2'.op
  BY DEF Latched
<1>1. Nop.op \notin AluOps
  BY DEF Nop, AluOps
<1>2. AluOps \cap MemOps = {}
  BY DEF AluOps, MemOps
<1>3. stage_2_ready \/ instruction_s2' # instruction_s2
  BY <1>2 DEF stage_2_ready
<1>4. /\ ~cpu_stopped /\ ~stage_1_finished /\ execute_stage_1
      /\ instruction_s2' = instruction_s1
  BY <1>1, <1>3 DEF Clock, PipelineClock
<1>5. alu_signal
  BY <1>4 DEF stage_1_finished, alu_signal
<1> QED
  BY <1>4, <1>5 DEF Clock, AluClock

\* A bus that reports ready has seen the request that is still on it.
LEMMA AnswerTrueStep ==
  ASSUME TypeOK, StrobeDiscipline, Requested, SequentialEnvironment, Quiet, Clock
  PROVE  AnswerTrue'
<1> DEFINE cpu == ProcessorRequest
           bus == PeripheralReply
<1>1. ASSUME memory_read_signal', memory_ready'
      PROVE  memory_out' = memory'[memory_address']
  <2>1. memory_read_signal /\ memory_address' = memory_address
    BY <1>1 DEF Clock, MemoryClock, memory_ready, current_control_signal
  <2>2. ~memory_write_signal
    BY <2>1 DEF StrobeDiscipline, mmuStrobes
  <2> QED
    BY <2>1, <2>2 DEF Clock, MemoryClock
<1>2. ASSUME io_registers_read', io_registers_ready'
      PROVE  io_registers_read_bus' = IoRegister(io_registers_address)'
  <2>1. IoAnswers
    BY <1>2 DEF Clock, IoClock
  <2>2. io_registers_read \/ io_registers_write
    BY <2>1 DEF IoAnswers
  <2>3. operation_ongoing
    BY <2>2 DEF StrobeDiscipline, mmuStrobes
  <2>4. MmuWait(cpu, bus)
    BY <1>2, <2>3 DEF Clock, MmuClock, MmuFinish, MmuIdle, MmuInterruptSpace, MmuStart,
       Accepts
  <2>5. io_registers_read /\ io_registers_address' = io_registers_address
    BY <1>2, <2>4 DEF MmuWait, mmuStrobes, mmuBus
  <2>6. ~io_registers_write
    BY <2>5 DEF StrobeDiscipline, mmuStrobes
  <2>7. io_registers_address \in {0, 1, 2}
    BY <2>1, <2>6 DEF IoAnswers
  <2>8. UNCHANGED <<gpio_a_read, gpio_a_write, gpio_a_ctr>>
    BY <2>6, QuietStep DEF Clock, IoClock
  <2> QED
    BY <2>5, <2>7, <2>8 DEF Clock, IoClock, IoRegister
<1> QED
  BY <1>1, <1>2 DEF AnswerTrue

\* So much is known without the program's consent (OwnershipInvariant).
LEMMA RequestedOwns ==
  ASSUME TypeOK, Requested PROVE Ownership
BY IoIndexRange DEF Requested, Ownership, TypeOK, MmuTypeOK, MemOps

\* The request that appears on the bus is that of the instruction that enters stage 2,
\* and it stays there with it.
LEMMA RequestedStep ==
  ASSUME TypeOK, StrobeDiscipline, StageTwoServed, Requested, ScheduledClock
  PROVE  Requested'
<1> DEFINE cpu == ProcessorRequest
           bus == PeripheralReply
<1> SUFFICES ASSUME operation_ongoing'
             PROVE  (/\ ~completed
                     /\ instruction_s2.op =
                          IF memory_write_signal \/ io_registers_write
                          THEN "STM" ELSE "LDM"
                     /\ IF io_registers_read \/ io_registers_write
                        THEN /\ IoSpace(memory_address)
                             /\ io_registers_address = IoIndex(memory_address)
                        ELSE ~IoSpace(memory_address) /\ ~InterruptSpace(memory_address)
                     /\ ~PortStore
                     /\ cpu_stopped => Answered)'
  BY DEF Requested
<1>1. CASE MmuWait(cpu, bus)
  <2>1. Clock
    BY DEF ScheduledClock
  <2>2. operation_ongoing /\ instruction_s2' = instruction_s2
    BY <1>1, <2>1, StageTwoWaits
  <2>3. Answered'
    <3>1. Ownership /\ ~PortStore
      BY <2>2, RequestedOwns DEF Requested
    <3> QED
      BY <1>1, <2>1, <3>1, AnsweredAfterWait
  <2>4. /\ UNCHANGED <<mmuStrobes, mmuBus>>
        /\ ~completed'
    BY <1>1 DEF MmuWait
  <2> QED
    BY <2>2, <2>3, <2>4 DEF Requested, PortStore, mmuStrobes, mmuBus
<1>2. CASE MmuStart(cpu, bus)
  <2>1. mmu_signal
    BY <1>2 DEF MmuStart, Accepts, ProcessorRequest
  <2>2. /\ actually_execute /\ instruction_s1.op \in MemOps
        /\ ~cpu_stopped
        /\ ~completed
        /\ \A n \in 1..4 : ~mmuStrobes[n]
        /\ instruction_s2' = instruction_s1
    BY <2>1, RequestTaken
  <2>3. ~memory_read_signal /\ ~memory_write_signal /\ ~io_registers_read
          /\ ~io_registers_write
    BY <2>2 DEF mmuStrobes
  <2>4. ~cpu_stopped'
    <3>1. ~set_ctr
      BY <2>2 DEF set_ctr, MemOps
    <3> QED
      BY <2>2, <3>1, StopsByCtr DEF ScheduledClock
  <2>5. cpu.address \in Word
    BY ProcessorRequestType DEF CpuRequest
  <2>6. cpu.write <=> instruction_s1.op = "STM"
    BY DEF ProcessorRequest
  <2>7. ~(cpu.write /\ cpu.address = GpioPortAddress)
    BY <2>1, <2>6 DEF ScheduledClock, Hazard, PortHazard, ProcessorRequest
  <2>8. ~PortStore'
    <3>1. SUFFICES ASSUME PortStore' PROVE FALSE
      OBVIOUS
    <3>2. IoSpace(cpu.address) /\ cpu.write /\ IoIndex(cpu.address) = 0
      BY <1>2, <2>3, <3>1 DEF MmuStart, PortStore
    <3>3. Val(cpu.address) = 2
      BY <2>5, <3>2, IoIndexRange, ValType
    <3> QED
      BY <2>5, <2>7, <3>2, <3>3, TwoIsWordOfTwo DEF GpioPortAddress
  <2>9. instruction_s2'.op = IF memory_write_signal' \/ io_registers_write'
                             THEN "STM" ELSE "LDM"
    BY <1>2, <2>2, <2>3, <2>6 DEF MmuStart, MemOps
  <2>10. IF io_registers_read' \/ io_registers_write'
         THEN IoSpace(memory_address') /\ io_registers_address' = IoIndex(memory_address')
         ELSE ~IoSpace(memory_address') /\ ~InterruptSpace(memory_address')
    BY <1>2, <2>3 DEF MmuStart, ProcessorRequest
  <2> QED
    BY <1>2, <2>2, <2>4, <2>8, <2>9, <2>10 DEF MmuStart
<1>3. CASE MmuFinish(cpu, bus)
  BY <1>3 DEF MmuFinish
<1>4. CASE MmuIdle(cpu, bus)
  BY <1>4 DEF MmuIdle
<1>5. CASE MmuInterruptSpace(cpu, bus)
  BY <1>5 DEF MmuInterruptSpace, Accepts
<1> QED
  BY <1>1, <1>2, <1>3, <1>4, <1>5 DEF ScheduledClock, Clock, MmuClock

\* A CTR that stops the core leaves an empty stage 2 behind, or a store.
LEMMA StoppedCleanStep ==
  ASSUME TypeOK, Quiet, StoppedClean, ScheduledClock PROVE StoppedClean'
<1> SUFFICES ASSUME cpu_stopped' PROVE instruction_s2'.op \in {"NOP", "STM"}
  BY DEF StoppedClean
<1>1. Clock
  BY DEF ScheduledClock
<1>2. CASE cpu_stopped
  BY <1>1, <1>2 DEF Clock, PipelineClock, Nop
<1>3. CASE ~cpu_stopped
  <2>1. set_ctr
    BY <1>1, <1>3, StopsByCtr
  <2>2. CtrUpdate(ctr, register_read_bus_a, instruction_s1.b) \cap StopBits # Zero
    BY <1>1, <2>1, ControlUnitQuiet DEF cpu_stopped
  <2>3. ~(instruction_s2.op = "LDM" /\ ~stage_2_ready)
    BY <2>1, <2>2 DEF ScheduledClock, Hazard, StopHazard
  <2>4. stage_1_finished
    BY <2>1 DEF set_ctr, stage_1_finished
  <2>5. CASE stage_2_ready
    BY <1>1, <1>3, <2>4, <2>5 DEF Clock, PipelineClock, Nop
  <2>6. CASE ~stage_2_ready
    <3>1. instruction_s2.op = "STM"
      BY <2>3, <2>6 DEF stage_2_ready, MemOps
    <3> QED
      BY <1>1, <1>3, <2>6, <3>1 DEF Clock, PipelineClock
  <2> QED
    BY <2>5, <2>6
<1> QED
  BY <1>2, <1>3

\* A comparison latched while it waits in stage 1 moves on at the next edge, at which
\* the unit writes its flags.
LEMMA FlagsDueStep ==
  ASSUME TypeOK, StrobeDiscipline, StageTwoServed, Requested, FlagsDue, Quiet,
         ScheduledClock
  PROVE  FlagsDue'
<1> DEFINE cpu == ProcessorRequest
           bus == PeripheralReply
<1> SUFFICES ASSUME alu_control' = "CMP"
             PROVE  \/ instruction_s2'.op = "CMP"
                    \/ /\ zf' = CompareZero(alpha', beta')
                       /\ cf' = CompareCarry(alpha', beta')
                    \/ /\ operation_ongoing' /\ Answered'
                       /\ instruction_s1'.op = "CMP" /\ actually_execute'
  BY DEF FlagsDue
<1>1. Clock
  BY DEF ScheduledClock
<1>2. CASE ~alu_signal
  BY <1>1, <1>2 DEF Clock, AluClock
<1>3. CASE alu_signal
  <2>1. instruction_s1.op = "CMP" /\ actually_execute
    BY <1>1, <1>3 DEF Clock, AluClock, alu_signal
  <2>2. ~cpu_stopped /\ execute_stage_1 /\ ~stage_1_finished
    BY <2>1 DEF actually_execute, execute_stage_1, stage_1_hold, stage_1_finished, JumpOps
  <2>3. CASE stage_2_ready
    BY <1>1, <2>1, <2>2, <2>3 DEF Clock, PipelineClock
  <2>4. CASE ~stage_2_ready
    <3>1. instruction_s2.op \in MemOps /\ ~Answered /\ MmuWait(cpu, bus)
      BY <1>1, <2>4, NotReadyWaits
    <3>2. operation_ongoing' /\ Answered'
      <4>1. operation_ongoing /\ operation_ongoing' = operation_ongoing
        BY <3>1 DEF MmuWait
      <4>2. Ownership /\ ~PortStore
        BY <4>1, RequestedOwns DEF Requested
      <4> QED
        BY <1>1, <3>1, <4>1, <4>2, AnsweredAfterWait
    <3>3. /\ instruction_s1' = instruction_s1
          /\ instruction_s2' = instruction_s2
          /\ instruction_s3' = Nop
      BY <1>1, <2>2, <2>4 DEF Clock, PipelineClock, ready_for_next_instruction
    <3>4. zf' = zf /\ cf' = cf
      <4>1. instruction_s2.op # "CMP"
        BY <3>1 DEF MemOps
      <4>2. alu_control = "CMP"
              => zf = CompareZero(alpha, beta) /\ cf = CompareCarry(alpha, beta)
        BY <3>1, <4>1 DEF FlagsDue
      <4> QED
        BY <1>1, <4>2 DEF Clock, AluClock
    <3>5. ctr' = ctr
      BY <1>1, <2>1, ControlUnitQuiet DEF set_ctr
    <3>6. ~register_overlap_warning'
      <4>1. AnnouncedRegs(Nop) = {}
        BY DEF AnnouncedRegs, WritesMask, Nop, AluOps, Zero
      <4>2. ~register_overlap_warning
        BY <2>2 DEF execute_stage_1, stage_1_hold
      <4>3. registers_used' = registers_used
        BY <3>3 DEF registers_used
      <4> QED
        BY <3>3, <4>1, <4>2, <4>3
        DEF register_overlap_warning, stage_2_registers_set, stage_3_registers_set, Zero
    <3>7. ~flag_overlap_warning' /\ ~cpu_stopped'
      BY <2>2, <3>1, <3>3, <3>5 DEF flag_overlap_warning, cpu_stopped, MemOps
    <3>8. actually_execute'
      BY <2>1, <3>3, <3>4, <3>6, <3>7
      DEF actually_execute, execute_stage_1, stage_1_hold
    <3> QED
      BY <2>1, <3>2, <3>3, <3>8
  <2> QED
    BY <2>3, <2>4
<1> QED
  BY <1>2, <1>3

\* An edge of the scheduled core keeps the invariant.
LEMMA PipelineStep ==
  ASSUME SequentialEnvironment, PipelineInvariant, ScheduledClock
  PROVE  PipelineInvariant'
<1> USE DEF PipelineInvariant
<1>1. Clock
  BY DEF ScheduledClock
<1>2. TypeOK' /\ StrobeDiscipline' /\ StageTwoServed'
  BY <1>1, StepType, StrobeStep, StageTwoServedStep
<1>3. Quiet' /\ NoExtension' /\ Fetched' /\ Latched'
  BY <1>1, QuietStep, NoExtensionStep, FetchedStep, LatchedStep
<1>4. Requested' /\ AnswerTrue' /\ StoppedClean' /\ FlagsDue'
  BY <1>1, RequestedStep, AnswerTrueStep, StoppedCleanStep, FlagsDueStep
<1> QED
  BY <1>2, <1>3, <1>4

(***************************************************************************)
(* Loads. A load that has left stage 1 delivers the byte its address had   *)
(* then, although the bus only reads it a cycle later.                     *)
(***************************************************************************)

\* The two spaces the memory unit tells apart are apart.
LEMMA SpacesApart ==
  ASSUME NEW w \in Word, IoSpace(w) PROVE ~InterruptSpace(w)
BY ValType DEF IoSpace, InterruptSpace, IO_MEMORY_SPACE_SIZE

\* What a load in progress will deliver, bus by bus.
LoadOnBus ==
  /\ ~memory_write_signal /\ ~io_registers_write
  /\ memory_read_signal <=> ~io_registers_read
  /\ memory_read_signal => LoadedValue = memory[memory_address]
  /\ io_registers_read =>
       /\ io_registers_address \in {0, 1, 2}
       /\ LoadedValue = IoRegister(io_registers_address)

LEMMA LoadedValueOnBus ==
  TypeOK /\ StrobeDiscipline /\ Requested /\ operation_ongoing
    /\ instruction_s2.op = "LDM" => LoadOnBus
<1> SUFFICES ASSUME TypeOK, StrobeDiscipline, Requested, operation_ongoing,
                    instruction_s2.op = "LDM"
             PROVE  LoadOnBus
  OBVIOUS
<1>1. ~memory_write_signal /\ ~io_registers_write
  BY DEF Requested
<1>2. memory_read_signal <=> ~io_registers_read
  BY <1>1 DEF StrobeDiscipline, mmuStrobes, TypeOK, MmuTypeOK
<1>3. memory_address \in Word
  BY DEF TypeOK, MmuTypeOK
<1>4. ASSUME memory_read_signal PROVE LoadedValue = memory[memory_address]
  <2>1. ~io_registers_read
    BY <1>2, <1>4
  <2>2. ~IoSpace(memory_address) /\ ~InterruptSpace(memory_address)
    BY <1>1, <2>1 DEF Requested
  <2> QED
    BY <1>1, <2>1, <2>2 DEF LoadedValue, VisibleByte
<1>5. ASSUME io_registers_read
      PROVE  /\ io_registers_address \in {0, 1, 2}
             /\ LoadedValue = IoRegister(io_registers_address)
  <2>1. IoSpace(memory_address) /\ io_registers_address = IoIndex(memory_address)
    BY <1>5 DEF Requested
  <2>2. io_registers_address \in {0, 1, 2} /\ ~InterruptSpace(memory_address)
    BY <1>3, <2>1, IoIndexRange, SpacesApart
  <2> QED
    BY <1>1, <1>5, <2>1, <2>2 DEF LoadedValue, VisibleByte, IoRegister
<1> QED
  BY <1>1, <1>2, <1>4, <1>5 DEF LoadOnBus

\* While the bus has not answered, the byte stays as it is.
LEMMA LoadWaits ==
  ASSUME SequentialEnvironment, PipelineInvariant, ScheduledClock,
         instruction_s2.op = "LDM", MmuWait(ProcessorRequest, PeripheralReply)
  PROVE  LoadedValue' = LoadedValue
<1> USE DEF PipelineInvariant
<1>1. Clock
  BY DEF ScheduledClock
<1>2. TypeOK' /\ StrobeDiscipline' /\ Requested'
  BY PipelineStep
<1>3. operation_ongoing /\ operation_ongoing' /\ UNCHANGED <<mmuStrobes, mmuBus>>
  BY DEF MmuWait
<1>4. instruction_s2' = instruction_s2
  BY <1>1, StageTwoWaits
<1>5. LoadOnBus
  BY <1>3, LoadedValueOnBus
<1>6. LoadOnBus'
  <2>1. (TypeOK /\ StrobeDiscipline /\ Requested /\ operation_ongoing
           /\ instruction_s2.op = "LDM")' => LoadOnBus'
    BY LoadedValueOnBus, PTL
  <2> QED
    BY <1>2, <1>3, <1>4, <2>1
<1>7. memory' = memory /\ UNCHANGED <<gpio_a_read, gpio_a_write, gpio_a_ctr>>
  BY <1>1, <1>5, QuietStep DEF Clock, MemoryClock, IoClock, LoadOnBus
<1>8. IoRegister(io_registers_address)' = IoRegister(io_registers_address)
  BY <1>3, <1>7 DEF IoRegister, mmuBus
<1>9. /\ memory_read_signal' = memory_read_signal
      /\ io_registers_read' = io_registers_read
      /\ memory_address' = memory_address
  BY <1>3 DEF mmuStrobes, mmuBus
<1> HIDE DEF PipelineInvariant
<1>10. CASE memory_read_signal
  BY <1>5, <1>6, <1>7, <1>9, <1>10 DEF LoadOnBus
<1>11. CASE io_registers_read
  BY <1>5, <1>6, <1>8, <1>9, <1>11 DEF LoadOnBus
<1> QED
  BY <1>5, <1>10, <1>11 DEF LoadOnBus

\* When it has, the unit hands the byte on.
LEMMA LoadFinishes ==
  ASSUME SequentialEnvironment, PipelineInvariant, ScheduledClock,
         instruction_s2.op = "LDM", stage_2_ready
  PROVE  out_data' = LoadedValue
<1> USE DEF PipelineInvariant
<1> DEFINE cpu == ProcessorRequest
           bus == PeripheralReply
<1>1. MmuClock(cpu, bus)
  BY DEF ScheduledClock, Clock
<1>2. CASE operation_ongoing
  <2>1. Answered /\ ~completed
    BY <1>2 DEF stage_2_ready, mmu_ready, PreCompleted, Answered, MemOps, Requested
  <2>2. out_data' = IF io_registers_read \/ io_registers_write
                    THEN io_registers_read_bus ELSE memory_out
    BY <1>1, <1>2, <2>1 DEF MmuClock, MmuWait, MmuFinish, MmuIdle, MmuInterruptSpace,
       MmuStart, Accepts, Answered, PeripheralReply
  <2>3. LoadOnBus
    BY <1>2, LoadedValueOnBus
  <2> QED
    BY <2>1, <2>2, <2>3
    DEF Answered, OperationCompleted, PeripheralReply, AnswerTrue, LoadOnBus
<1>3. CASE ~operation_ongoing
  <2>1. completed
    BY <1>3 DEF StageTwoServed, MemOps
  <2>2. ~mmu_signal
    BY <2>1 DEF ScheduledClock, Hazard, MemoryHazard
  <2>3. out_data' = out_data
    BY <1>1, <1>3, <2>2 DEF MmuClock, MmuWait, MmuFinish, MmuIdle, MmuInterruptSpace,
       MmuStart, Accepts, ProcessorRequest
  <2> QED
    BY <1>3, <2>3 DEF LoadedValue
<1> QED
  BY <1>2, <1>3

(***************************************************************************)
(* Registers. Completing the instructions in stages 2 and 3 gives the same *)
(* registers before an edge and after it, up to what enters stage 2.       *)
(***************************************************************************)

\* Stage 3 is written back at every edge (register_bank.v).
LEMMA RegistersWritten ==
  ASSUME Clock
  PROVE  registers' = WriteBack(registers, instruction_s3, register_write_bus)
<1>1. trigger_cid => ~register_write_signal
  BY DEF trigger_cid, register_write_signal, WritesMask, AluOps
<1> QED
  BY <1>1 DEF Clock, RegisterBankClock, WriteBack, trigger_cid, register_write_signal

\* An instruction without a register to write changes none.
LEMMA WriteBackNothing ==
  ASSUME NEW regs, NEW i, NEW value, i.op \notin AluOps \cup {"LDM", "SET", "CID"}
  PROVE  WriteBack(regs, i, value) = regs
BY DEF WriteBack, WritesMask

\* What stage 2 would deliver is what stage 3 delivers after the edge: results,
\* loaded bytes and constants arrive with their instruction (cu.v, alu.v, mmu.v).
LEMMA Delivered ==
  ASSUME SequentialEnvironment, PipelineInvariant, ScheduledClock,
         stage_2_ready, ~cpu_stopped
  PROVE  WriteBack(registers', instruction_s3', register_write_bus') = VisibleRegisters
<1> USE DEF PipelineInvariant
<1>1. Clock
  BY DEF ScheduledClock
<1>2. VisibleRegisters = WriteBack(registers', instruction_s2, PendingResult)
  BY <1>1, RegistersWritten DEF VisibleRegisters
<1>3. CASE stage_2_finished
  <2>1. instruction_s3' = Nop
    BY <1>1, <1>3 DEF Clock, PipelineClock
  <2>2. /\ Nop.op \notin AluOps \cup {"LDM", "SET", "CID"}
        /\ instruction_s2.op \notin AluOps \cup {"LDM", "SET", "CID"}
    BY <1>3 DEF stage_2_finished, Nop, AluOps
  <2> QED
    BY <1>2, <2>1, <2>2, WriteBackNothing
<1>4. CASE ~stage_2_finished
  <2>1. instruction_s3' = instruction_s2
    BY <1>1, <1>4 DEF Clock, PipelineClock
  <2>2. CASE instruction_s2.op \in AluOps
    <3>1. alu_control = instruction_s2.op /\ alu_control # "EXT"
      BY <2>2 DEF Latched, NoExtension
    <3>2. accumulator' = AluResult(instruction_s2.op, alpha, beta, immediate)
      BY <1>1, <3>1 DEF Clock, AluClock
    <3>3. PendingResult = AluResult(instruction_s2.op, alpha, beta, immediate)
      BY <2>2, <3>1 DEF PendingResult, AluOps
    <3>4. register_write_bus' = accumulator'
      BY <2>1, <2>2 DEF register_write_bus
    <3> QED
      BY <1>2, <2>1, <3>2, <3>3, <3>4
  <2>3. CASE instruction_s2.op = "LDM"
    <3>1. out_data' = LoadedValue
      BY <2>3, LoadFinishes
    <3>2. register_write_bus' = PendingResult
      BY <2>1, <2>3, <3>1 DEF register_write_bus, PendingResult, AluOps
    <3> QED
      BY <1>2, <2>1, <3>2
  <2>4. CASE instruction_s2.op \notin AluOps \cup {"LDM"}
    <3>1. register_write_bus' = PendingResult
      BY <2>1, <2>4 DEF register_write_bus, PendingResult, AluOps
    <3> QED
      BY <1>2, <2>1, <3>1
  <2> QED
    BY <2>2, <2>3, <2>4
<1> QED
  BY <1>3, <1>4

\* An edge that lets nothing into stage 2 changes no register.
LEMMA RegistersKept ==
  ASSUME SequentialEnvironment, PipelineInvariant, ScheduledClock,
         stage_2_ready /\ ~cpu_stopped => instruction_s2' = Nop
  PROVE  VisibleRegisters' = VisibleRegisters
<1> USE DEF PipelineInvariant
<1>1. Clock
  BY DEF ScheduledClock
<1>2. Nop.op \notin AluOps \cup {"LDM", "SET", "CID"}
  BY DEF Nop, AluOps
<1>3. VisibleRegisters' =
        WriteBack(WriteBack(registers', instruction_s3', register_write_bus'),
                  instruction_s2', PendingResult')
  BY DEF VisibleRegisters, WriteBack, WritesMask
<1>4. VisibleRegisters = WriteBack(registers', instruction_s2, PendingResult)
  BY <1>1, RegistersWritten DEF VisibleRegisters
<1>5. CASE cpu_stopped
  <2>1. instruction_s2' = Nop /\ instruction_s3' = Nop
    BY <1>1, <1>5 DEF Clock, PipelineClock
  <2>2. instruction_s2.op \notin AluOps \cup {"LDM", "SET", "CID"}
    BY <1>5 DEF StoppedClean, AluOps
  <2> QED
    BY <1>2, <1>3, <1>4, <2>1, <2>2, WriteBackNothing
<1>6. CASE ~cpu_stopped /\ stage_2_ready
  BY <1>2, <1>3, <1>6, Delivered, WriteBackNothing
<1>7. CASE ~cpu_stopped /\ ~stage_2_ready
  <2>1. instruction_s2.op \in MemOps /\ MmuWait(ProcessorRequest, PeripheralReply)
    BY <1>1, <1>7, NotReadyWaits
  <2>2. instruction_s2' = instruction_s2 /\ instruction_s3' = Nop
    BY <1>1, <2>1, StageTwoWaits
  <2>3. VisibleRegisters' = WriteBack(registers', instruction_s2, PendingResult')
    BY <1>2, <1>3, <2>2, WriteBackNothing
  <2>4. CASE instruction_s2.op = "LDM"
    <3>1. LoadedValue' = LoadedValue
      BY <2>1, <2>4, LoadWaits
    <3>2. PendingResult' = PendingResult
      BY <2>2, <2>4, <3>1 DEF PendingResult, AluOps
    <3> QED
      BY <1>4, <2>3, <3>2
  <2>5. CASE instruction_s2.op = "STM"
    <3>1. instruction_s2.op \notin AluOps \cup {"LDM", "SET", "CID"}
      BY <2>5 DEF AluOps
    <3> QED
      BY <1>4, <2>3, <3>1, WriteBackNothing
  <2> QED
    BY <2>1, <2>4, <2>5 DEF MemOps
<1> QED
  BY <1>5, <1>6, <1>7

\* An instruction that enters stage 2 adds its own writes, and nothing else.
LEMMA RegistersAdvance ==
  ASSUME SequentialEnvironment, PipelineInvariant, ScheduledClock,
         stage_2_ready, ~cpu_stopped
  PROVE  VisibleRegisters' =
           WriteBack(VisibleRegisters, instruction_s2', PendingResult')
<1>1. VisibleRegisters' =
        WriteBack(WriteBack(registers', instruction_s3', register_write_bus'),
                  instruction_s2', PendingResult')
  BY DEF VisibleRegisters, WriteBack, WritesMask
<1> QED
  BY <1>1, Delivered

(***************************************************************************)
(* Flags.                                                                  *)
(***************************************************************************)

\* The flags change with the comparison that enters stage 2, not when the arithmetic
\* unit writes them, however often it does.
LEMMA FlagsKept ==
  ASSUME TypeOK, Latched, Requested, FlagsDue, ScheduledClock, instruction_s2'.op # "CMP"
  PROVE  VisibleZf' = VisibleZf /\ VisibleCf' = VisibleCf
<1>1. Clock
  BY DEF ScheduledClock
<1>2. VisibleZf' = zf' /\ VisibleCf' = cf'
  BY DEF VisibleZf, VisibleCf
<1>3. CASE instruction_s2.op = "CMP"
  <2>1. alu_control = "CMP"
    BY <1>3 DEF Latched, AluOps
  <2> QED
    BY <1>1, <1>2, <1>3, <2>1 DEF Clock, AluClock, VisibleZf, VisibleCf
<1>4. CASE instruction_s2.op # "CMP"
  <2>1. VisibleZf = zf /\ VisibleCf = cf
    BY <1>4 DEF VisibleZf, VisibleCf
  <2>2. CASE alu_control # "CMP"
    BY <1>1, <1>2, <2>1, <2>2 DEF Clock, AluClock
  <2>3. CASE zf = CompareZero(alpha, beta) /\ cf = CompareCarry(alpha, beta)
    BY <1>1, <1>2, <2>1, <2>3 DEF Clock, AluClock
  <2>4. ~(operation_ongoing /\ Answered /\ instruction_s1.op = "CMP" /\ actually_execute)
    <3>1. SUFFICES ASSUME operation_ongoing, Answered, instruction_s1.op = "CMP",
                          actually_execute
                   PROVE  FALSE
      OBVIOUS
    <3>2. stage_2_ready
      BY <3>1 DEF stage_2_ready, mmu_ready, PreCompleted, Answered
    <3>3. ~cpu_stopped /\ execute_stage_1 /\ ~stage_1_finished
      BY <3>1 DEF actually_execute, execute_stage_1, stage_1_hold, stage_1_finished,
         JumpOps
    <3>4. instruction_s2' = instruction_s1
      BY <1>1, <3>2, <3>3 DEF Clock, PipelineClock
    <3> QED
      BY <3>1, <3>4
  <2> QED
    BY <1>4, <2>2, <2>3, <2>4 DEF FlagsDue
<1> QED
  BY <1>3, <1>4

(***************************************************************************)
(* Stores. A byte is visibly written when its store leaves stage 1, and    *)
(* only then; the bus performs the store once or twice later.              *)
(***************************************************************************)

\* The store that executes in this cycle.
Stores == mmu_signal /\ instruction_s1.op = "STM"

Written(address) == Stores /\ register_read_bus_a = address

\* The return address bytes are written at once (mmu.v).
LEMMA ReturnBytesVisible ==
  ASSUME PipelineInvariant, ScheduledClock, NEW address \in Word, InterruptSpace(address)
  PROVE  VisibleByte(address)' =
           IF Written(address) THEN register_read_bus_b ELSE VisibleByte(address)
<1> USE DEF PipelineInvariant
<1> DEFINE cpu == ProcessorRequest
<1>1. /\ cpu.address \in Word /\ ~cpu.set_return
      /\ ReturnAddressClock(cpu)
  BY ProcessorRequestType, ControlUnitQuiet
  DEF CpuRequest, ScheduledClock, Clock, MmuClock, ProcessorRequest
<1>2. /\ VisibleByte(address)' = spec_mem_interrupt'[Val(address)]
      /\ VisibleByte(address) = spec_mem_interrupt[Val(address)]
      /\ Val(address) \in {0, 1}
  BY InterruptSpaceIndex DEF VisibleByte
<1>3. Accepts(cpu) /\ cpu.write <=> Stores
  <2>1. mmu_signal => ~operation_ongoing
    BY RequestTaken
  <2> QED
    BY <2>1 DEF Accepts, ProcessorRequest, Stores
<1>4. spec_mem_interrupt \in [{0, 1} -> Word]
  BY DEF TypeOK, MmuTypeOK
<1>5. CASE Stores /\ InterruptSpace(cpu.address)
  <2>1. /\ spec_mem_interrupt' =
             [spec_mem_interrupt EXCEPT ![Val(cpu.address)] = cpu.in_data]
        /\ cpu.address = register_read_bus_a /\ cpu.in_data = register_read_bus_b
    BY <1>1, <1>3, <1>5 DEF ReturnAddressClock, ProcessorRequest, Stores
  <2>2. Val(cpu.address) = Val(address) <=> cpu.address = address
    BY <1>1, ValInjective
  <2> QED
    BY <1>2, <1>4, <1>5, <2>1, <2>2 DEF Written
<1>6. CASE ~(Stores /\ InterruptSpace(cpu.address))
  <2>1. spec_mem_interrupt' = spec_mem_interrupt
    BY <1>1, <1>3, <1>6 DEF ReturnAddressClock
  <2>2. ~Written(address)
    BY <1>6 DEF Written, Stores, ProcessorRequest
  <2> QED
    BY <1>2, <2>1, <2>2
<1> QED
  BY <1>5, <1>6

\* What the bus strobes and the store in them become at an edge.
LEMMA StoreOnBus ==
  ASSUME PipelineInvariant, ScheduledClock
  PROVE  \/ /\ operation_ongoing /\ operation_ongoing' /\ ~Stores
            /\ UNCHANGED <<mmuStrobes, mmuBus>>
         \/ /\ ~operation_ongoing' /\ ~Stores
            /\ UNCHANGED mmuBus
         \/ /\ ~operation_ongoing /\ ~operation_ongoing'
            /\ Stores => InterruptSpace(register_read_bus_a)
         \/ /\ ~operation_ongoing /\ operation_ongoing' /\ mmu_signal
            /\ ~InterruptSpace(ProcessorRequest.address)
            /\ memory_address' = ProcessorRequest.address
            /\ io_registers_address' = IoIndex(ProcessorRequest.address)
            /\ io_registers_write' <=> Stores /\ IoSpace(register_read_bus_a)
            /\ memory_write_signal' <=> Stores /\ ~IoSpace(register_read_bus_a)
            /\ io_registers_write' => io_registers_write_bus' = register_read_bus_b
            /\ memory_write_signal' => memory_in' = register_read_bus_b
<1> USE DEF PipelineInvariant
<1> DEFINE cpu == ProcessorRequest
           bus == PeripheralReply
<1>1. mmu_signal => ~operation_ongoing
  BY RequestTaken
<1>2. CASE MmuWait(cpu, bus)
  BY <1>1, <1>2 DEF MmuWait, Stores
<1>3. CASE MmuFinish(cpu, bus)
  BY <1>1, <1>3 DEF MmuFinish, Stores
<1>4. CASE MmuIdle(cpu, bus)
  BY <1>4 DEF MmuIdle, ProcessorRequest, Stores
<1>5. CASE MmuInterruptSpace(cpu, bus)
  BY <1>5 DEF MmuInterruptSpace, Accepts, ProcessorRequest, Stores
<1>6. CASE MmuStart(cpu, bus)
  <2>1. mmu_signal /\ ~operation_ongoing
    BY <1>6 DEF MmuStart, Accepts, ProcessorRequest
  <2>2. ~memory_write_signal /\ ~io_registers_write
    BY <2>1 DEF StrobeDiscipline, mmuStrobes
  <2>3. cpu.write <=> Stores
    BY <2>1 DEF ProcessorRequest, Stores
  <2>4. Stores => cpu.address = register_read_bus_a /\ cpu.in_data = register_read_bus_b
    BY DEF ProcessorRequest, Stores
  <2>5. /\ io_registers_write' <=> Stores /\ IoSpace(register_read_bus_a)
        /\ memory_write_signal' <=> Stores /\ ~IoSpace(register_read_bus_a)
    BY <1>6, <2>2, <2>3, <2>4 DEF MmuStart
  <2> QED
    BY <1>6, <2>1, <2>3, <2>4, <2>5 DEF MmuStart
<1> QED
  BY <1>2, <1>3, <1>4, <1>5, <1>6 DEF ScheduledClock, Clock, MmuClock

\* Data memory: what the bus carries reaches the cell (basic_synchronized_ram.v).
LEMMA MemoryBytesVisible ==
  ASSUME PipelineInvariant, PipelineInvariant', ScheduledClock, NEW address \in Word,
         ~InterruptSpace(address), ~IoSpace(address)
  PROVE  VisibleByte(address)' =
           IF Written(address) THEN register_read_bus_b ELSE VisibleByte(address)
<1> USE DEF PipelineInvariant
<1>1. VisibleByte(address) = IF memory_write_signal /\ memory_address = address
                             THEN memory_in ELSE memory[address]
  BY DEF VisibleByte
<1>2. VisibleByte(address)' = IF memory_write_signal' /\ memory_address' = address
                              THEN memory_in' ELSE memory'[address]
  BY DEF VisibleByte
<1>3. memory'[address] = VisibleByte(address)
  BY <1>1 DEF ScheduledClock, Clock, MemoryClock, TypeOK, PeripheralsTypeOK
<1>4. ~operation_ongoing' => ~memory_write_signal'
  BY DEF StrobeDiscipline, mmuStrobes
<1>5. Stores => ProcessorRequest.address = register_read_bus_a
  BY DEF Stores, ProcessorRequest
<1> HIDE DEF PipelineInvariant
<1>6. CASE UNCHANGED <<mmuStrobes, mmuBus>> /\ ~Stores
  BY <1>1, <1>2, <1>3, <1>6 DEF mmuStrobes, mmuBus, Written
<1>7. CASE ~operation_ongoing' /\ ~Stores
  BY <1>2, <1>3, <1>4, <1>7 DEF Written
<1>8. CASE ~operation_ongoing' /\ (Stores => InterruptSpace(register_read_bus_a))
  BY <1>2, <1>3, <1>4, <1>8 DEF Written
<1>9. CASE /\ memory_address' = ProcessorRequest.address
           /\ memory_write_signal' <=> Stores /\ ~IoSpace(register_read_bus_a)
           /\ memory_write_signal' => memory_in' = register_read_bus_b
  BY <1>2, <1>3, <1>5, <1>9 DEF Written
<1> QED
  BY <1>6, <1>7, <1>8, <1>9, StoreOnBus

\* The output port and the direction register: likewise (peripheal_control.v).
LEMMA IoBytesVisible ==
  ASSUME PipelineInvariant, PipelineInvariant', ScheduledClock, NEW address \in Word,
         IoSpace(address), address # GpioPortAddress
  PROVE  VisibleByte(address)' =
           IF Written(address) THEN register_read_bus_b ELSE VisibleByte(address)
<1> USE DEF PipelineInvariant
<1> DEFINE n == IoIndex(address)
           level == IF n = 1 THEN gpio_a_write ELSE gpio_a_ctr
<1>1. ~InterruptSpace(address)
  BY SpacesApart
<1>2. n \in {1, 2}
  <2>1. n \in 0..2 /\ n = Val(address) - 2
    BY IoIndexRange
  <2>2. n # 0
    BY <2>1, ValType, TwoIsWordOfTwo DEF GpioPortAddress
  <2> QED
    BY <2>1, <2>2
<1>3. VisibleByte(address) = IF io_registers_write /\ io_registers_address = n
                             THEN io_registers_write_bus ELSE level
  BY <1>1 DEF VisibleByte
<1>4. VisibleByte(address)' = IF io_registers_write' /\ io_registers_address' = n
                              THEN io_registers_write_bus' ELSE level'
  BY <1>1 DEF VisibleByte
<1>5. level' = VisibleByte(address)
  BY <1>2, <1>3 DEF ScheduledClock, Clock, IoClock
<1>6. ~operation_ongoing' => ~io_registers_write'
  BY DEF StrobeDiscipline, mmuStrobes
<1>7. Stores => ProcessorRequest.address = register_read_bus_a
  BY DEF Stores, ProcessorRequest
<1>8. ASSUME IoSpace(register_read_bus_a), IoIndex(register_read_bus_a) = n
      PROVE  register_read_bus_a = address
  <2>1. register_read_bus_a \in Word
    BY ReadMaskType DEF register_read_bus_a
  <2>2. Val(register_read_bus_a) = Val(address)
    BY <1>8, <2>1, IoIndexRange, ValType
  <2> QED
    BY <2>1, <2>2, ValInjective
<1> HIDE DEF PipelineInvariant, n, level
<1>9. CASE UNCHANGED <<mmuStrobes, mmuBus>> /\ ~Stores
  BY <1>3, <1>4, <1>5, <1>9 DEF mmuStrobes, mmuBus, Written
<1>10. CASE ~operation_ongoing' /\ ~Stores
  BY <1>4, <1>5, <1>6, <1>10 DEF Written
<1>11. CASE ~operation_ongoing' /\ (Stores => InterruptSpace(register_read_bus_a))
  BY <1>1, <1>4, <1>5, <1>6, <1>11 DEF Written
<1>12. CASE /\ io_registers_address' = IoIndex(ProcessorRequest.address)
            /\ io_registers_write' <=> Stores /\ IoSpace(register_read_bus_a)
            /\ io_registers_write' => io_registers_write_bus' = register_read_bus_b
  BY <1>4, <1>5, <1>7, <1>8, <1>12 DEF Written, n
<1> QED
  BY <1>9, <1>10, <1>11, <1>12, StoreOnBus

\* An edge changes the visible memory by the store that executes in it, if one does.
LEMMA MemoryAdvances ==
  ASSUME PipelineInvariant, PipelineInvariant', ScheduledClock, NEW address \in Word,
         address # GpioPortAddress
  PROVE  VisibleByte(address)' =
           IF Written(address) THEN register_read_bus_b ELSE VisibleByte(address)
BY ReturnBytesVisible, MemoryBytesVisible, IoBytesVisible

LEMMA MemoryKept ==
  ASSUME PipelineInvariant, PipelineInvariant', ScheduledClock, ~Stores
  PROVE  VisibleMemory' = VisibleMemory
<1>1. \A cell \in {Zero} \X Word :
        cell[2] # GpioPortAddress => VisibleByte(cell[2])' = VisibleByte(cell[2])
  BY MemoryAdvances DEF Written
<1> QED
  BY <1>1 DEF VisibleMemory

LEMMA MemoryStored ==
  ASSUME PipelineInvariant, PipelineInvariant', ScheduledClock, Stores
  PROVE  VisibleMemory' =
           [VisibleMemory EXCEPT ![<<Zero, register_read_bus_a>>] = register_read_bus_b]
<1>1. register_read_bus_a \in Word
  BY ReadMaskType DEF register_read_bus_a
<1>2. register_read_bus_a # GpioPortAddress
  BY DEF Stores, ScheduledClock, Hazard, PortHazard
<1>3. \A cell \in {Zero} \X Word :
        cell[2] # GpioPortAddress =>
          VisibleByte(cell[2])' = IF cell = <<Zero, register_read_bus_a>>
                                  THEN register_read_bus_b ELSE VisibleByte(cell[2])
  BY MemoryAdvances DEF Written
<1> DEFINE stored == <<Zero, register_read_bus_a>>
           cells == {Zero} \X Word
<1>4. /\ VisibleMemory' = [cell \in cells |-> IF cell[2] = GpioPortAddress THEN Zero
                                              ELSE VisibleByte(cell[2])']
      /\ VisibleMemory = [cell \in cells |-> IF cell[2] = GpioPortAddress THEN Zero
                                             ELSE VisibleByte(cell[2])]
  BY DEF VisibleMemory
<1>5. stored \in cells /\ stored[2] # GpioPortAddress
  BY <1>1, <1>2
<1>6. \A cell \in cells :
        VisibleMemory'[cell] = IF cell = stored THEN register_read_bus_b
                               ELSE VisibleMemory[cell]
  BY <1>3, <1>4, <1>5
<1> HIDE DEF stored, cells
<1>7. VisibleMemory' = [VisibleMemory EXCEPT ![stored] = register_read_bus_b]
  BY <1>4, <1>5, <1>6
<1> QED
  BY <1>7 DEF stored

(***************************************************************************)
(* The steps of the sequential machine.                                    *)
(***************************************************************************)

\* The sequential machine computes with the same data.
LEMMA SameConstants ==
  /\ Sequential!Bits = Bits /\ Sequential!Word = Word /\ Sequential!Zero = Zero
  /\ Sequential!AluOps = AluOps /\ Sequential!StopBits = StopBits
  /\ Sequential!CidRegs = CidRegs /\ Sequential!Nop = Nop
BY DEF Sequential!Bits, Bits, Sequential!Word, Word, Sequential!Zero, Zero,
   Sequential!AluOps, AluOps, Sequential!StopBits, StopBits,
   Sequential!CidRegs, CidRegs, Sequential!Nop, Nop

LEMMA SameReads ==
  ASSUME NEW regs, NEW mask
  PROVE  Sequential!ReadMask(regs, mask) = ReadMask(regs, mask)
BY SameConstants DEF Sequential!ReadMask, ReadMask

LEMMA SameWrites ==
  ASSUME NEW regs, NEW mask, NEW v
  PROVE  Sequential!WriteMask(regs, mask, v) = WriteMask(regs, mask, v)
BY SameConstants DEF Sequential!WriteMask, WriteMask

LEMMA SameConditions ==
  ASSUME NEW cond, NEW z, NEW c
  PROVE  Sequential!Passes(cond, z, c) <=> Passes(cond, z, c)
BY DEF Sequential!Passes, Passes

LEMMA SameNumbers ==
  /\ \A w : Sequential!Val(w) = Val(w)
  /\ \A n : Sequential!WordOf(n) = WordOf(n)
BY SameConstants DEF Sequential!Val, Val, Sequential!WordOf, WordOf

LEMMA SameJumps ==
  ASSUME NEW hi, NEW lo
  PROVE  Sequential!JumpAddress(hi, lo) = JumpAddress(hi, lo)
BY SameNumbers DEF Sequential!JumpAddress, JumpAddress

LEMMA SameResults ==
  ASSUME NEW op, NEW x, NEW y, NEW imm
  PROVE  /\ Sequential!AluResult(op, x, y, imm) = AluResult(op, x, y, imm)
         /\ Sequential!CompareZero(x, y) = CompareZero(x, y)
         /\ Sequential!CompareCarry(x, y) = CompareCarry(x, y)
<1>1. Sequential!AluResult(op, x, y, imm) = AluResult(op, x, y, imm)
  BY SameConstants, SameNumbers DEF Sequential!AluResult, AluResult
<1> QED
  BY <1>1, SameNumbers DEF Sequential!CompareZero, CompareZero,
     Sequential!CompareCarry, CompareCarry

LEMMA SameUpdates ==
  ASSUME NEW c, NEW v, NEW m
  PROVE  Sequential!CtrUpdate(c, v, m) = CtrUpdate(c, v, m)
BY DEF Sequential!CtrUpdate, CtrUpdate

\* Registers that agree on a mask read the same through it.
LEMMA ReadMaskAgrees ==
  ASSUME NEW regs, NEW other, NEW mask, \A r \in mask : regs[r] = other[r]
  PROVE  ReadMask(regs, mask) = ReadMask(other, mask)
BY DEF ReadMask

\* A condition that tests neither flag, or both values of it, does not depend on it.
LEMMA PassesAgree ==
  ASSUME PipelineInvariant, stage_1_using_flags => zf = VisibleZf /\ cf = VisibleCf
  PROVE  Passes(instruction_s1.cond, VisibleZf, VisibleCf)
           <=> Passes(instruction_s1.cond, zf, cf)
<1>1. CASE stage_1_using_flags
  BY <1>1
<1>2. CASE ~stage_1_using_flags
  BY <1>2 DEF stage_1_using_flags, Passes
<1> QED
  BY <1>1, <1>2

\* The instruction in stage 1 is the one the sequential machine executes next, and it
\* sees the operands and flags of that machine.
LEMMA SequentialView ==
  ASSUME PipelineInvariant, ~Hazard, execute_stage_1
  PROVE  /\ ctr \cap StopBits = Zero
         /\ Sequential!Current = instruction_s1
         /\ actually_execute <=> Passes(instruction_s1.cond, VisibleZf, VisibleCf)
         /\ instruction_s1.op \in (AluOps \ {"MOV"}) \cup {"JPR", "STM", "CTR"}
              => Sequential!A = register_read_bus_a
         /\ instruction_s1.op \in (AluOps \ {"SHR"}) \cup {"JPR"} \cup MemOps
              => Sequential!B = register_read_bus_b
<1> USE DEF PipelineInvariant
<1>1. ctr \cap StopBits = Zero
  BY DEF execute_stage_1, stage_1_hold, cpu_stopped
<1>2. Sequential!Current = instruction_s1
  BY SameConstants DEF execute_stage_1, stage_1_hold, Fetched, InstructionAt,
     Sequential!Current, Sequential!ProgramAt
<1>3. SequentialOperands
  BY InterlockHolds DEF InterlockComplete, Hazard
<1>4. actually_execute <=> Passes(instruction_s1.cond, VisibleZf, VisibleCf)
  BY <1>3, PassesAgree DEF SequentialOperands, actually_execute
<1>5. instruction_s1.a \subseteq Bits /\ instruction_s1.b \subseteq Bits
  BY DEF TypeOK, CoreTypeOK, Instruction, Word
<1>6. ASSUME instruction_s1.op \in (AluOps \ {"MOV"}) \cup {"JPR", "STM", "CTR"}
      PROVE  Sequential!A = register_read_bus_a
  <2>1. instruction_s1.a \subseteq registers_used
    BY <1>6 DEF registers_used
  <2>2. \A r \in instruction_s1.a : VisibleRegisters[r] = registers[r]
    BY <1>3, <1>5, <2>1 DEF SequentialOperands
  <2>3. ReadMask(VisibleRegisters, instruction_s1.a) = register_read_bus_a
    BY <2>2, ReadMaskAgrees DEF register_read_bus_a
  <2> QED
    BY <1>2, <2>3, SameReads DEF Sequential!A
<1>7. ASSUME instruction_s1.op \in (AluOps \ {"SHR"}) \cup {"JPR"} \cup MemOps
      PROVE  Sequential!B = register_read_bus_b
  <2>1. instruction_s1.b \subseteq registers_used
    BY <1>7 DEF registers_used
  <2>2. \A r \in instruction_s1.b : VisibleRegisters[r] = registers[r]
    BY <1>3, <1>5, <2>1 DEF SequentialOperands
  <2>3. ReadMask(VisibleRegisters, instruction_s1.b) = register_read_bus_b
    BY <2>2, ReadMaskAgrees DEF register_read_bus_b
  <2> QED
    BY <1>2, <2>3, SameReads DEF Sequential!B
<1> QED
  BY <1>1, <1>2, <1>4, <1>6, <1>7

\* A cycle in which nothing leaves stage 1 is none of the sequential machine's.
LEMMA HoldingStutters ==
  ASSUME SequentialEnvironment, PipelineInvariant, PipelineInvariant', ScheduledClock,
         ~ready_for_next_instruction
  PROVE  UNCHANGED <<rom, ctr, VisibleRegisters, VisibleZf, VisibleCf, pc, VisibleMemory>>
<1>1. Clock /\ Quiet
  BY DEF ScheduledClock, PipelineInvariant
<1>2. ~Stores
  BY RequestTaken DEF Stores, PipelineInvariant
<1>3. ~set_ctr
  BY DEF ready_for_next_instruction, set_ctr, actually_execute, stage_1_finished
<1>4. rom' = rom /\ ctr' = ctr /\ pc' = pc
  BY <1>1, <1>3, ControlUnitQuiet DEF Clock, Environment
<1>5. stage_2_ready => ~execute_stage_1
  BY DEF ready_for_next_instruction
<1>6. stage_2_ready \/ cpu_stopped => instruction_s2' = Nop
  BY <1>1, <1>5 DEF Clock, PipelineClock
<1>7. instruction_s2'.op # "CMP"
  <2>1. CASE stage_2_ready \/ cpu_stopped
    BY <1>6, <2>1 DEF Nop
  <2>2. CASE ~stage_2_ready /\ ~cpu_stopped
    <3>1. instruction_s2' = instruction_s2
      BY <1>1, <2>2 DEF Clock, PipelineClock
    <3> QED
      BY <2>2, <3>1 DEF stage_2_ready, MemOps
  <2> QED
    BY <2>1, <2>2
<1> QED
  BY <1>2, <1>4, <1>6, <1>7, RegistersKept, FlagsKept, MemoryKept DEF PipelineInvariant

\* One segment: a cell is an address, and the input port is the only peripheral.
LEMMA SequentialCells ==
  ASSUME NEW address
  PROVE  /\ Sequential!CellOf(VisibleMemory, address) = <<Zero, address>>
         /\ Sequential!AtPeripheral(address) <=> address = GpioPortAddress
BY SameConstants DEF Sequential!CellOf, Sequential!AtPeripheral, Sequential!SegmentOf,
   Sequential!memorySegmented

\* The input port is at the first address of the I/O space (mmu.v).
LEMMA PortIsIo ==
  ASSUME SequentialEnvironment
  PROVE  /\ GpioPortAddress \in Word /\ Val(GpioPortAddress) = 2
         /\ IoSpace(GpioPortAddress) /\ IoIndex(GpioPortAddress) = 0
<1>1. Val(GpioPortAddress) = 2 /\ GpioPortAddress \in Word
  BY TwoFits, WordOfType DEF GpioPortAddress, SequentialEnvironment
<1> QED
  BY <1>1 DEF IoSpace, IoIndex, IO_MEMORY_SPACE_SIZE

\* A load that enters stage 2 will deliver the byte its address has now.
LEMMA LoadEnters ==
  ASSUME SequentialEnvironment, PipelineInvariant, PipelineInvariant', ScheduledClock,
         mmu_signal, instruction_s1.op = "LDM"
  PROVE  LoadedValue' = IF register_read_bus_b = GpioPortAddress THEN gpio_a_read
                        ELSE VisibleMemory[<<Zero, register_read_bus_b>>]
<1> DEFINE cpu == ProcessorRequest
           bus == PeripheralReply
<1>1. PICK address \in Word : address = register_read_bus_b
  BY ReadMaskType DEF register_read_bus_b
<1>2. cpu.address = address /\ ~cpu.write
  BY <1>1 DEF ProcessorRequest
<1>3. address # GpioPortAddress =>
        VisibleMemory[<<Zero, register_read_bus_b>>] = VisibleByte(address)
  BY <1>1 DEF VisibleMemory
<1>4. ~Stores /\ ~operation_ongoing /\ ~io_registers_read
  BY RequestTaken DEF Stores, PipelineInvariant, StrobeDiscipline, mmuStrobes
<1>5. address # GpioPortAddress => VisibleByte(address)' = VisibleByte(address)
  BY <1>4, MemoryAdvances DEF Written
<1>6. CASE MmuInterruptSpace(cpu, bus)
  <2>1. InterruptSpace(address) /\ ~operation_ongoing'
        /\ out_data' = spec_mem_interrupt[Val(address)]
    BY <1>2, <1>4, <1>6 DEF MmuInterruptSpace
  <2>2. address # GpioPortAddress
    BY <2>1, PortIsIo, SpacesApart
  <2>3. LoadedValue' = VisibleByte(address)
    BY <2>1 DEF LoadedValue, VisibleByte
  <2> QED
    BY <1>1, <1>3, <2>2, <2>3
<1>7. CASE MmuStart(cpu, bus)
  <2>1. /\ operation_ongoing' /\ memory_address' = address
        /\ io_registers_address' = IoIndex(address)
        /\ io_registers_read' <=> IoSpace(address)
    BY <1>2, <1>4, <1>7 DEF MmuStart
  <2>2. io_registers_read' /\ io_registers_address' = 0 <=> address = GpioPortAddress
    <3>1. ASSUME IoSpace(address), IoIndex(address) = 0 PROVE address = GpioPortAddress
      <4>1. Val(address) = 2
        BY <3>1, IoIndexRange, ValType
      <4> QED
        BY <4>1, TwoIsWordOfTwo DEF GpioPortAddress
    <3> QED
      BY <2>1, <3>1, PortIsIo
  <2>3. VisibleByte(memory_address)' = VisibleByte(address)'
    BY <2>1 DEF VisibleByte
  <2>4. LoadedValue' = IF address = GpioPortAddress THEN gpio_a_read'
                       ELSE VisibleByte(address)'
    BY <2>1, <2>2, <2>3 DEF LoadedValue
  <2>5. gpio_a_read' = gpio_a_read
    BY QuietStep DEF ScheduledClock, PipelineInvariant
  <2> QED
    BY <1>1, <1>3, <1>5, <2>4, <2>5
<1> QED
  BY <1>4, <1>6, <1>7
  DEF ScheduledClock, Clock, MmuClock, MmuWait, MmuFinish, MmuIdle, ProcessorRequest

\* Whatever leaves stage 1, the control register goes the way of the sequential machine.
LEMMA LeavingUpdatesCtr ==
  ASSUME PipelineInvariant, ScheduledClock, ready_for_next_instruction
  PROVE  /\ ctr \cap Sequential!StopBits = Sequential!Zero
         /\ ctr' = IF Sequential!Enabled("CTR")
                   THEN Sequential!CtrUpdate(ctr, Sequential!A, Sequential!Current.b)
                   ELSE ctr
         /\ UNCHANGED rom
<1>1. Clock /\ ~Hazard /\ Quiet
  BY DEF ScheduledClock, PipelineInvariant
<1>2. execute_stage_1
  BY DEF ready_for_next_instruction
<1>3. Sequential!Enabled("CTR") <=> set_ctr
  BY <1>1, <1>2, SequentialView, SameConditions DEF Sequential!Enabled, set_ctr
<1>4. set_ctr => Sequential!A = register_read_bus_a
  BY <1>1, <1>2, SequentialView DEF set_ctr
<1>5. Sequential!Current = instruction_s1 /\ ctr \cap StopBits = Zero
  BY <1>1, <1>2, SequentialView
<1> QED
  BY <1>1, <1>3, <1>4, <1>5, ControlUnitQuiet, SameConstants, SameUpdates
  DEF Clock, Environment

\* Jumps, NOP, CTR and what does not execute end in stage 1.
LEMMA EndsInStageOne ==
  ASSUME SequentialEnvironment, PipelineInvariant, PipelineInvariant', ScheduledClock,
         ready_for_next_instruction, stage_1_finished
  PROVE  Sequential!Jpi \/ Sequential!Jpr \/ Sequential!Skip
<1> DEFINE i == instruction_s1
<1>1. Clock /\ ~Hazard /\ Quiet
  BY DEF ScheduledClock, PipelineInvariant
<1>2. execute_stage_1 /\ ~cpu_stopped
  BY DEF ready_for_next_instruction, execute_stage_1, stage_1_hold
<1>3. /\ Sequential!Current = i
      /\ actually_execute <=> Sequential!Passes(i.cond, VisibleZf, VisibleCf)
      /\ i.op = "JPR" => /\ Sequential!A = register_read_bus_a
                         /\ Sequential!B = register_read_bus_b
  BY <1>1, <1>2, SequentialView, SameConditions
<1>4. ~Stores
  BY DEF stage_1_finished, Stores, mmu_signal, JumpOps
<1>5. stage_2_ready => instruction_s2' = Nop
  BY <1>1, <1>2 DEF Clock, PipelineClock
<1>6. instruction_s2'.op # "CMP"
  <2>1. CASE stage_2_ready
    BY <1>5, <2>1 DEF Nop
  <2>2. CASE ~stage_2_ready
    BY <1>1, <1>2, <2>2 DEF Clock, PipelineClock, stage_2_ready, MemOps
  <2> QED
    BY <2>1, <2>2
<1>7. UNCHANGED <<VisibleRegisters, VisibleZf, VisibleCf, VisibleMemory>>
  BY <1>4, <1>5, <1>6, RegistersKept, FlagsKept, MemoryKept DEF PipelineInvariant
<1>8. pc' = program_counter
  BY <1>1, ControlUnitQuiet
<1>9. CASE ~actually_execute
  BY <1>3, <1>7, <1>8, <1>9 DEF program_counter, Sequential!Skip, Sequential!Next1
<1>10. CASE actually_execute /\ i.op = "JPI"
  BY <1>3, <1>7, <1>8, <1>10, SameJumps
  DEF program_counter, jump_address, JumpOps, Sequential!Jpi, Sequential!Enabled
<1>11. CASE actually_execute /\ i.op = "JPR"
  BY <1>3, <1>7, <1>8, <1>11, SameJumps
  DEF program_counter, jump_address, JumpOps, Sequential!Jpr, Sequential!Enabled
<1>12. CASE actually_execute /\ i.op \in {"CTR", "NOP"}
  BY <1>3, <1>7, <1>8, <1>12
  DEF program_counter, JumpOps, Sequential!Skip, Sequential!Next1
<1> QED
  BY <1>9, <1>10, <1>11, <1>12 DEF stage_1_finished, JumpOps

\* Everything else moves to stage 2, and completing it there is the sequential step.
LEMMA EntersStageTwo ==
  ASSUME SequentialEnvironment, PipelineInvariant, PipelineInvariant', ScheduledClock,
         ready_for_next_instruction, ~stage_1_finished
  PROVE  \/ Sequential!Alu \/ Sequential!Set \/ Sequential!Cid
         \/ Sequential!Ldm \/ Sequential!Stm
<1> DEFINE i == instruction_s1
<1>1. Clock /\ ~Hazard /\ Quiet
  BY DEF ScheduledClock, PipelineInvariant
<1>2. /\ execute_stage_1 /\ ~cpu_stopped /\ stage_2_ready /\ actually_execute
      /\ i.op \notin JumpOps \cup {"CTR", "NOP"}
  BY DEF ready_for_next_instruction, execute_stage_1, stage_1_hold, stage_1_finished
<1>3. instruction_s2' = i
  BY <1>1, <1>2 DEF Clock, PipelineClock
<1>4. VisibleRegisters' = WriteBack(VisibleRegisters, i, PendingResult')
  BY <1>2, <1>3, RegistersAdvance
<1>5. /\ Sequential!Current = i
      /\ Sequential!Passes(i.cond, VisibleZf, VisibleCf)
      /\ i.op \in (AluOps \ {"MOV"}) \cup {"STM"} => Sequential!A = register_read_bus_a
      /\ i.op \in (AluOps \ {"SHR"}) \cup MemOps => Sequential!B = register_read_bus_b
  BY <1>1, <1>2, SequentialView, SameConditions
<1>6. pc' = Sequential!Next1
  BY <1>1, <1>2, ControlUnitQuiet DEF program_counter, Sequential!Next1
<1>7. i.op # "CMP" => VisibleZf' = VisibleZf /\ VisibleCf' = VisibleCf
  BY <1>3, FlagsKept DEF PipelineInvariant
<1>8. ~Stores => VisibleMemory' = VisibleMemory
  BY MemoryKept
<1>9. i.op # "EXT" /\ i.op \in Ops
  BY DEF PipelineInvariant, NoExtension, TypeOK, CoreTypeOK, Instruction
<1>10. CASE i.op \in AluOps
  <2>1. alu_signal /\ ~Stores
    BY <1>2, <1>10 DEF alu_signal, Stores, AluOps
  <2>2. /\ alpha' = register_read_bus_a /\ beta' = register_read_bus_b
        /\ immediate' = i.b
    BY <1>1, <2>1 DEF Clock, AluClock
  <2>3. PendingResult' = AluResult(i.op, register_read_bus_a, register_read_bus_b, i.b)
    BY <1>3, <1>9, <1>10, <2>2 DEF PendingResult, AluOps
  <2>4. AluResult(i.op, register_read_bus_a, register_read_bus_b, i.b)
          = AluResult(i.op, Sequential!A, Sequential!B, i.b)
    BY <1>5, <1>10 DEF AluResult
  <2>5. VisibleRegisters' =
          WriteMask(VisibleRegisters, i.a, AluResult(i.op, Sequential!A, Sequential!B, i.b))
    BY <1>4, <1>10, <2>3, <2>4 DEF WriteBack, WritesMask
  <2>6. /\ VisibleZf' = IF i.op = "CMP"
                         THEN Sequential!CompareZero(Sequential!A, Sequential!B)
                         ELSE VisibleZf
        /\ VisibleCf' = IF i.op = "CMP"
                         THEN Sequential!CompareCarry(Sequential!A, Sequential!B)
                         ELSE VisibleCf
    <3>1. CASE i.op = "CMP"
      <4>1. Sequential!A = register_read_bus_a /\ Sequential!B = register_read_bus_b
        BY <1>5, <3>1 DEF AluOps
      <4>2. /\ VisibleZf' = CompareZero(register_read_bus_a, register_read_bus_b)
            /\ VisibleCf' = CompareCarry(register_read_bus_a, register_read_bus_b)
        BY <1>3, <2>2, <3>1 DEF VisibleZf, VisibleCf, CompareZero, CompareCarry
      <4> QED
        BY <3>1, <4>1, <4>2, SameResults, Zenon
    <3>2. CASE i.op # "CMP"
      BY <1>7, <3>2, Zenon
    <3> QED
      BY <3>1, <3>2
  <2>7. VisibleRegisters' =
          Sequential!WriteMask(VisibleRegisters, Sequential!Current.a,
            Sequential!AluResult(Sequential!Current.op, Sequential!A, Sequential!B,
                                 Sequential!Current.b))
    BY <1>5, <2>5, SameResults, SameWrites
  <2>8. Sequential!Current.op \in Sequential!AluOps \ {"EXT"}
    BY <1>5, <1>9, <1>10, SameConstants
  <2>9. /\ VisibleZf' = IF Sequential!Current.op = "CMP"
                         THEN Sequential!CompareZero(Sequential!A, Sequential!B)
                         ELSE VisibleZf
        /\ VisibleCf' = IF Sequential!Current.op = "CMP"
                         THEN Sequential!CompareCarry(Sequential!A, Sequential!B)
                         ELSE VisibleCf
    BY <1>5, <2>6, Zenon
  <2>10. Sequential!Passes(Sequential!Current.cond, VisibleZf, VisibleCf)
           /\ VisibleMemory' = VisibleMemory
    BY <1>5, <1>8, <2>1
  <2>11. Sequential!Alu
    BY <1>6, <2>7, <2>8, <2>9, <2>10, Zenon DEF Sequential!Alu
  <2> QED
    BY <2>11
<1>11. CASE i.op = "SET"
  <2>1. PendingResult' = i.b
    BY <1>3, <1>11 DEF PendingResult, AluOps
  <2>2. VisibleRegisters' = WriteMask(VisibleRegisters, i.a, i.b)
    BY <1>4, <1>11, <2>1 DEF WriteBack, WritesMask
  <2>3. ~Stores
    BY <1>11 DEF Stores
  <2>4. Sequential!Set
    BY <1>5, <1>6, <1>7, <1>8, <1>11, <2>2, <2>3, SameWrites
    DEF Sequential!Set, Sequential!Enabled
  <2> QED
    BY <2>4
<1>12. CASE i.op = "CID"
  <2>1. VisibleRegisters' = WriteMask(VisibleRegisters, CidRegs, Zero)
    BY <1>4, <1>12 DEF WriteBack, WritesMask, AluOps
  <2>2. ~Stores
    BY <1>12 DEF Stores
  <2>3. Sequential!Cid
    BY <1>5, <1>6, <1>7, <1>8, <1>12, <2>1, <2>2, SameWrites, SameConstants
    DEF Sequential!Cid, Sequential!Enabled
  <2> QED
    BY <2>3
<1>13. CASE i.op = "LDM"
  <2>1. mmu_signal /\ ~Stores
    BY <1>2, <1>13 DEF mmu_signal, MemOps, Stores
  <2>2. Sequential!B = register_read_bus_b
    BY <1>5, <1>13 DEF MemOps
  <2>3. PendingResult' = IF Sequential!AtPeripheral(Sequential!B) THEN gpio_a_read
                         ELSE VisibleMemory[Sequential!CellOf(VisibleMemory, Sequential!B)]
    <3>1. PendingResult' = LoadedValue'
      BY <1>3, <1>13 DEF PendingResult, AluOps
    <3> QED
      BY <1>13, <2>1, <2>2, <3>1, LoadEnters, SequentialCells
  <2>4. VisibleRegisters' = WriteMask(VisibleRegisters, i.a, PendingResult')
    BY <1>4, <1>13 DEF WriteBack, WritesMask
  <2>5. Sequential!Ldm
    BY <1>5, <1>6, <1>7, <1>8, <1>13, <2>1, <2>3, <2>4, SameWrites
    DEF Sequential!Ldm, Sequential!Enabled
  <2> QED
    BY <2>5
<1>14. CASE i.op = "STM"
  <2>1. Stores
    BY <1>2, <1>14 DEF Stores, mmu_signal, MemOps
  <2>2. Sequential!A = register_read_bus_a /\ Sequential!B = register_read_bus_b
    BY <1>5, <1>14 DEF MemOps
  <2>3. ~Sequential!AtPeripheral(Sequential!A)
    BY <1>1, <2>1, <2>2, SequentialCells DEF Stores, Hazard, PortHazard
  <2>4. VisibleMemory' =
          [VisibleMemory EXCEPT ![Sequential!CellOf(VisibleMemory, Sequential!A)] = Sequential!B]
    BY <2>1, <2>2, MemoryStored, SequentialCells
  <2>5. VisibleRegisters' = VisibleRegisters
    BY <1>4, <1>14, WriteBackNothing DEF AluOps
  <2>6. Sequential!Stm
    BY <1>5, <1>6, <1>7, <1>14, <2>3, <2>4, <2>5
    DEF Sequential!Stm, Sequential!Enabled
  <2> QED
    BY <2>6
<1> QED
  BY <1>2, <1>9, <1>10, <1>11, <1>12, <1>13, <1>14 DEF Ops, MemOps

(***************************************************************************)
(* The refinement.                                                         *)
(***************************************************************************)

\* The core powers up as the sequential machine starts.
LEMMA PowerUpImplements ==
  ASSUME SequentialEnvironment, Init PROVE Sequential!IsaInit
<1>1. TypeOK
  BY InitType
<1>2. VisibleRegisters = registers
  BY DEF Init, VisibleRegisters, WriteBack, WritesMask, Nop, AluOps
<1>3. VisibleZf = FALSE /\ VisibleCf = FALSE
  BY DEF Init, VisibleZf, VisibleCf, Nop
<1>4. \A address \in Word : VisibleByte(address) \in Word
  BY <1>1, InterruptSpaceIndex DEF VisibleByte, TypeOK, MmuTypeOK, PeripheralsTypeOK
<1>5. VisibleMemory \in [{Zero} \X Word -> Word]
  BY <1>4, ZeroType DEF VisibleMemory
<1> QED
  BY <1>2, <1>3, <1>5, SameConstants DEF Init, Sequential!IsaInit, Sequential!Cells

\* Every edge is a step of the sequential machine, or none.
LEMMA EdgeImplements ==
  ASSUME SequentialEnvironment, PipelineInvariant, PipelineInvariant', [ScheduledClock]_vars
  PROVE  [Sequential!Step]_<<rom, ctr, Sequential!machineVars>>
<1>1. CASE ScheduledClock /\ ready_for_next_instruction
  <2>1. Sequential!Execute
    BY <1>1, EndsInStageOne, EntersStageTwo DEF Sequential!Execute
  <2> QED
    BY <1>1, <2>1, LeavingUpdatesCtr DEF Sequential!Step
<1>2. CASE ScheduledClock /\ ~ready_for_next_instruction
  BY <1>2, HoldingStutters DEF Sequential!machineVars
<1>3. CASE UNCHANGED vars
  <2>1. UNCHANGED <<VisibleRegisters, VisibleZf, VisibleCf>>
    BY <1>3 DEF vars, mmuVars, mmuStrobes, mmuBus, memoryVars, ioVars, cuVars,
       pipelineVars, aluVars, VisibleRegisters, VisibleZf, VisibleCf, PendingResult,
       LoadedValue, VisibleByte, register_write_bus
  <2>2. UNCHANGED VisibleMemory
    BY <1>3 DEF vars, mmuVars, mmuStrobes, mmuBus, memoryVars, ioVars,
       VisibleMemory, VisibleByte
  <2> QED
    BY <1>3, <2>1, <2>2 DEF vars, cuVars, Sequential!machineVars
<1> QED
  BY <1>1, <1>2, <1>3

\* The invariant the refinement rests on.
THEOREM PipelineIsInvariant ==
  ASSUME SequentialEnvironment PROVE ScheduledSpec => []PipelineInvariant
<1>1. ASSUME PipelineInvariant, UNCHANGED vars PROVE PipelineInvariant'
  <2> USE <1>1 DEF vars, mmuVars, mmuStrobes, mmuBus, memoryVars, ioVars, cuVars,
      pipelineVars, aluVars, PipelineInvariant
  <2>1. TypeOK' /\ StrobeDiscipline' /\ StageTwoServed'
    BY StepType, StrobeStep, StageTwoServedStep
  <2>2. Quiet' /\ NoExtension' /\ Fetched' /\ Latched' /\ StoppedClean'
    BY DEF Quiet, NoExtension, NoExtensionIn, Fetched, InstructionAt, Latched,
       StoppedClean, cpu_stopped
  <2>3. Answered' = Answered /\ memory_ready' = memory_ready
    BY DEF Answered, OperationCompleted, PeripheralReply, memory_ready,
       current_control_signal
  <2>4. Requested' /\ AnswerTrue'
    BY <2>3 DEF Requested, PortStore, cpu_stopped, AnswerTrue, IoRegister
  <2>5. FlagsDue'
    <3>1. actually_execute' = actually_execute
      BY DEF actually_execute, execute_stage_1, stage_1_hold, register_overlap_warning,
         flag_overlap_warning, cpu_stopped, stage_2_registers_set, stage_3_registers_set,
         AnnouncedRegs, registers_used, stage_1_using_flags, WritesMask
    <3> QED
      BY <2>3, <3>1 DEF FlagsDue
  <2> QED
    BY <2>1, <2>2, <2>4, <2>5
<1> QED
  BY <1>1, PipelineInit, PipelineStep, PTL DEF ScheduledSpec

\* On every program up to the first of the orderings the design leaves to it, the core
\* goes through the states of the sequential machine, one instruction at a time, whatever
\* overlaps in the pipeline (all of core.v against instruction.hpp).
THEOREM CoreImplementsIsa ==
  ASSUME SequentialEnvironment PROVE ScheduledSpec => ImplementsIsa
<1>1. Init => Sequential!IsaInit
  BY PowerUpImplements
<1>2. PipelineInvariant /\ PipelineInvariant' /\ [ScheduledClock]_vars
        => [Sequential!Step]_<<rom, ctr, Sequential!machineVars>>
  BY EdgeImplements
<1> QED
  BY <1>1, <1>2, PipelineIsInvariant, PTL DEF ScheduledSpec, ImplementsIsa, Sequential!IsaSpec
=============================================================================
