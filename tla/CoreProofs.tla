----------------------------- MODULE CoreProofs -----------------------------
(***************************************************************************)
(* Theorems about the core, for every width up to a byte, every program    *)
(* memory, every set of programs, input levels and interrupt patterns.     *)
(***************************************************************************)
EXTENDS CoreRefinement, MicroArchProofs

(***************************************************************************)
(* The memory management unit starts and stays well typed, for any         *)
(* processor and any buses that keep to the types.                         *)
(***************************************************************************)

\* The unit powers up with values of its types, driving no bus (mmu.v).
LEMMA MmuInitType == MmuInit => MmuTypeOK /\ StrobeDiscipline
<1> SUFFICES ASSUME MmuInit PROVE MmuTypeOK /\ StrobeDiscipline
  OBVIOUS
<1>1. MmuTypeOK
  <2>1. Zero \in Word
    BY ZeroType
  <2>2. PICK x \in PowerUp : /\ out_data = x
                            /\ io_registers_write_bus = x
                            /\ spec_mem_interrupt = [i \in {0, 1} |-> x]
    BY DEF MmuInit
  <2>3. x \in Word
    BY PowerUpAssumption
  <2>4. out_data \in Word /\ io_registers_write_bus \in Word
    BY <2>2, <2>3
  <2>5. spec_mem_interrupt \in [{0, 1} -> Word]
    BY <2>2, <2>3
  <2>6. /\ memory_address \in Word /\ memory_in \in Word
        /\ io_registers_address \in 0..15
    BY <2>1 DEF MmuInit
  <2>7. /\ completed \in BOOLEAN /\ operation_ongoing \in BOOLEAN
        /\ memory_read_signal \in BOOLEAN /\ memory_write_signal \in BOOLEAN
        /\ io_registers_read \in BOOLEAN /\ io_registers_write \in BOOLEAN
    BY DEF MmuInit
  <2> QED
    BY <2>4, <2>5, <2>6, <2>7 DEF MmuTypeOK
<1>2. StrobeDiscipline
  BY DEF MmuInit, StrobeDiscipline, mmuStrobes
<1> QED
  BY <1>1, <1>2

\* The interrupt space has two bytes.
LEMMA InterruptSpaceIndex ==
  ASSUME NEW w \in Word, InterruptSpace(w) PROVE Val(w) \in {0, 1}
  BY ValType DEF InterruptSpace

\* A clock edge keeps every register of the unit to its type (mmu.v).
LEMMA MmuStepType ==
  ASSUME NEW cpu \in CpuRequest, NEW bus \in BusReply, MmuTypeOK, MmuClock(cpu, bus)
  PROVE  MmuTypeOK'
<1> USE DEF MmuTypeOK, CpuRequest, BusReply
<1>1. IoIndex(cpu.address) \in 0..15
  BY ValType DEF IoIndex
<1>2. spec_mem_interrupt' \in [{0, 1} -> Word]
  <2>1. HighByte(cpu.return_address) \in Word /\ LowByte(cpu.return_address) \in Word
    BY WordOfType DEF HighByte, LowByte
  <2>2. CASE cpu.set_return
    BY <2>1, <2>2 DEF MmuClock, ReturnAddressClock
  <2>3. CASE ~cpu.set_return
    BY <2>3, InterruptSpaceIndex DEF MmuClock, ReturnAddressClock
  <2> QED
    BY <2>2, <2>3
<1>3. CASE MmuWait(cpu, bus)
  BY <1>2, <1>3 DEF MmuWait, mmuStrobes, mmuBus
<1>4. CASE MmuFinish(cpu, bus)
  BY <1>2, <1>4 DEF MmuFinish, mmuBus
<1>5. CASE MmuIdle(cpu, bus)
  BY <1>2, <1>5 DEF MmuIdle, mmuStrobes, mmuBus
<1>6. CASE MmuInterruptSpace(cpu, bus)
  <2>1. spec_mem_interrupt[Val(cpu.address)] \in Word
    BY <1>6, InterruptSpaceIndex DEF MmuInterruptSpace
  <2> QED
    BY <1>1, <1>2, <1>6, <2>1 DEF MmuInterruptSpace, mmuStrobes
<1>7. CASE MmuStart(cpu, bus)
  BY <1>1, <1>2, <1>7 DEF MmuStart
<1> QED
  BY <1>3, <1>4, <1>5, <1>6, <1>7 DEF MmuClock

\* A clock edge leaves the unit with one strobe if it works and none if not: the
\* unit starts an operation only when all four are off (mmu.v).
LEMMA MmuStepStrobes ==
  ASSUME NEW cpu \in CpuRequest, NEW bus \in BusReply, MmuTypeOK, StrobeDiscipline,
         MmuClock(cpu, bus)
  PROVE  StrobeDiscipline'
<1> USE DEF StrobeDiscipline, mmuStrobes, MmuTypeOK, CpuRequest
<1>3. CASE MmuWait(cpu, bus)
  BY <1>3 DEF MmuWait
<1>4. CASE MmuFinish(cpu, bus)
  BY <1>4 DEF MmuFinish
<1>5. CASE MmuIdle(cpu, bus)
  BY <1>5 DEF MmuIdle
<1>6. CASE MmuInterruptSpace(cpu, bus)
  BY <1>6 DEF MmuInterruptSpace
<1>7. CASE MmuStart(cpu, bus)
  BY <1>7 DEF MmuStart, Accepts
<1> QED
  BY <1>3, <1>4, <1>5, <1>6, <1>7 DEF MmuClock

\* An operation in progress is answered or goes on: after the edge the unit works
\* on it still or reports it (mmu.v).
LEMMA MmuServes ==
  ASSUME NEW cpu \in CpuRequest, NEW bus \in BusReply, MmuTypeOK, MmuClock(cpu, bus),
         operation_ongoing \/ cpu.execute
  PROVE  operation_ongoing' \/ completed'
<1> USE DEF MmuTypeOK, CpuRequest
<1>3. CASE MmuWait(cpu, bus)
  BY <1>3 DEF MmuWait
<1>4. CASE MmuFinish(cpu, bus)
  BY <1>4 DEF MmuFinish
<1>5. CASE MmuIdle(cpu, bus)
  BY <1>5 DEF MmuIdle
<1>6. CASE MmuInterruptSpace(cpu, bus)
  BY <1>6 DEF MmuInterruptSpace
<1>7. CASE MmuStart(cpu, bus)
  BY <1>7 DEF MmuStart
<1> QED
  BY <1>3, <1>4, <1>5, <1>6, <1>7 DEF MmuClock


(***************************************************************************)
(* The core.                                                               *)
(***************************************************************************)

\* The empty encoding is an instruction.
LEMMA NopType == Nop \in Instruction
  BY ZeroType DEF Nop, Instruction, Ops

\* What the processor asks of the memory unit in a cycle has the types of its ports
\* (core.v).
LEMMA ProcessorRequestType ==
  ASSUME TypeOK PROVE ProcessorRequest \in CpuRequest
<1> USE DEF TypeOK, CoreTypeOK
<1>1. register_read_bus_a \in Word /\ register_read_bus_b \in Word
  BY ReadMaskType DEF register_read_bus_a, register_read_bus_b
<1>2. program_counter \in Address
  <2>1. jump_address \in Address
    <3>1. instruction_s1.a \in Word /\ instruction_s1.b \in Word
      BY DEF Instruction
    <3> QED
      BY <1>1, <3>1, JumpAddressType DEF jump_address
  <2>2. (pc + 1) % PcMod \in Address
    BY PcModAssumption DEF Address
  <2> QED
    BY <2>1, <2>2 DEF program_counter
<1>3. mmu_signal \in BOOLEAN /\ interrupt_signal \in BOOLEAN
  BY DEF mmu_signal, actually_execute, execute_stage_1, stage_1_hold, interrupt_signal
<1> QED
  BY <1>1, <1>2, <1>3 DEF ProcessorRequest, CpuRequest

\* What the buses answer in a cycle has the types of the memory unit's ports.
LEMMA PeripheralReplyType ==
  ASSUME TypeOK PROVE PeripheralReply \in BusReply
  BY DEF TypeOK, PeripheralsTypeOK, PeripheralReply, BusReply, memory_ready

\* A next address is an instruction address (id_stage_1.v).
LEMMA ProgramCounterType ==
  ASSUME TypeOK PROVE program_counter \in Address
  BY ProcessorRequestType DEF ProcessorRequest, CpuRequest

\* What is fetched from program memory is an instruction (basic_async_rom.v).
LEMMA InstructionAtType ==
  ASSUME TypeOK, NEW address PROVE InstructionAt(address) \in Instruction
  BY NopType DEF TypeOK, CoreTypeOK, IsProgram, InstructionAt

(***************************************************************************)
(* Type correctness, one lemma for each clocked block.                     *)
(***************************************************************************)

\* The core powers up well typed.
LEMMA InitType == Init => TypeOK
<1> SUFFICES ASSUME Init PROVE TypeOK
  OBVIOUS
<1>1. MmuTypeOK
  BY MmuInitType DEF Init
<1>2. PICK x \in PowerUp : memory = [address \in Word |-> x] /\ memory_out = x
  BY DEF Init, PeripheralsInit
<1>3. PICK y \in PowerUp : alpha = y /\ beta = y /\ immediate = y
  BY DEF Init
<1>4. x \in Word /\ y \in Word
  BY PowerUpAssumption
<1>5. PeripheralsTypeOK
  BY <1>2, <1>4, ZeroType, EnvironmentAssumption
  DEF Init, PeripheralsInit, PeripheralsTypeOK, ControlSignal
<1>6. CoreTypeOK
  <2>1. IsProgram(rom)
    BY ProgramAssumption DEF Init
  <2>2. PcMod - 1 \in Address
    BY PcModAssumption DEF Address
  <2>3. alu_control \in AluOps
    BY DEF Init, AluOps
  <2>4. interrupt_signal_staging \in BOOLEAN /\ zf \in BOOLEAN /\ cf \in BOOLEAN
    BY EnvironmentAssumption DEF Init
  <2>5. registers \in [Bits -> Word]
    BY ZeroType DEF Init
  <2> QED
    BY <1>3, <1>4, <2>1, <2>2, <2>3, <2>4, <2>5, ZeroType, NopType DEF Init, CoreTypeOK
<1> QED
  BY <1>1, <1>5, <1>6 DEF TypeOK

\* Data memory and the I/O registers keep their types
\* (basic_synchronized_ram.v, peripheal_control.v).
LEMMA PeripheralsStepType ==
  ASSUME TypeOK, MemoryClock, IoClock, Environment PROVE PeripheralsTypeOK'
<1> USE DEF TypeOK, PeripheralsTypeOK, MmuTypeOK
<1>1. memory' \in [Word -> Word] /\ memory_out' \in Word
  BY DEF MemoryClock
<1>2. last_control_signal' \in ControlSignal
  BY DEF MemoryClock, current_control_signal, ControlSignal
<1>3. io_registers_ready' \in BOOLEAN
  BY DEF IoClock, IoAnswers
<1>4. io_registers_read_bus' \in Word
  BY DEF IoClock, IoRegister
<1>5. gpio_a_write' \in Word /\ gpio_a_ctr' \in Word
  BY DEF IoClock
<1>6. gpio_a_read' \in Word
  BY EnvironmentAssumption DEF Environment
<1> QED
  BY <1>1, <1>2, <1>3, <1>4, <1>5, <1>6

\* The register bank keeps its type (register_bank.v).
LEMMA RegisterBankStepType ==
  ASSUME TypeOK, RegisterBankClock PROVE registers' \in [Bits -> Word]
<1> USE DEF TypeOK, CoreTypeOK, MmuTypeOK
<1>1. register_write_bus \in Word
  BY DEF register_write_bus, Instruction
<1> DEFINE written == IF register_write_signal
                      THEN WriteMask(registers, instruction_s3.a, register_write_bus)
                      ELSE registers
<1>2. written \in [Bits -> Word]
  BY <1>1, WriteMaskType
<1>3. WriteMask(written, CidRegs, Zero) \in [Bits -> Word]
  BY <1>2, WriteMaskType, ZeroType
<1> QED
  BY <1>2, <1>3 DEF RegisterBankClock

\* The arithmetic unit keeps its types (alu.v).
LEMMA AluStepType ==
  ASSUME TypeOK, AluClock
  PROVE  /\ alu_control' \in AluOps
         /\ alpha' \in Word /\ beta' \in Word /\ immediate' \in Word
         /\ accumulator' \in Word
         /\ zf' \in BOOLEAN /\ cf' \in BOOLEAN
<1> USE DEF TypeOK, CoreTypeOK
<1>1. alu_control' \in AluOps
  BY DEF AluClock, alu_signal
<1>2. alpha' \in Word /\ beta' \in Word /\ immediate' \in Word
  BY ReadMaskType
  DEF AluClock, register_read_bus_a, register_read_bus_b, Instruction
<1>3. accumulator' \in Word
  <2>1. CASE alu_control = "EXT"
    BY <2>1 DEF AluClock
  <2>2. CASE alu_control # "EXT"
    <3>1. AluResult(alu_control, alpha, beta, immediate) \in Word
      BY <2>2, AluResultType
    <3> QED
      BY <2>2, <3>1 DEF AluClock
  <2> QED
    BY <2>1, <2>2
<1>4. zf' \in BOOLEAN /\ cf' \in BOOLEAN
  <2>1. CompareZero(alpha, beta) \in BOOLEAN
    BY DEF CompareZero
  <2>2. CompareCarry(alpha, beta) \in BOOLEAN
    BY DEF CompareCarry
  <2>3. zf' \in BOOLEAN
    BY <2>1, Zenon DEF AluClock
  <2>4. cf' \in BOOLEAN
    BY <2>2, Zenon DEF AluClock
  <2> QED
    BY <2>3, <2>4
<1> QED
  BY <1>1, <1>2, <1>3, <1>4

\* Every stage holds an instruction after an edge (pipeline.v).
LEMMA PipelineStepType ==
  ASSUME TypeOK, PipelineClock
  PROVE  /\ instruction_s1' \in Instruction
         /\ instruction_s2' \in Instruction
         /\ instruction_s3' \in Instruction
<1>1. InstructionAt(program_counter) \in Instruction
  BY InstructionAtType
<1> QED
  BY <1>1, NopType DEF TypeOK, CoreTypeOK, PipelineClock

\* The program counter and the control register keep their types (cu.v).
LEMMA ControlUnitStepType ==
  ASSUME TypeOK, ControlUnitClock PROVE pc' \in Address /\ ctr' \in Word
<1>1. pc' \in Address
  <2>1. 1 % PcMod \in Address
    BY PcModAssumption DEF Address
  <2> QED
    BY <2>1, ProgramCounterType DEF TypeOK, CoreTypeOK, ControlUnitClock
<1>2. ctr' \in Word
  <2> DEFINE written == IF set_ctr
                        THEN CtrUpdate(ctr, register_read_bus_a, instruction_s1.b)
                        ELSE ctr
  <2>1. register_read_bus_a \in Word
    BY ReadMaskType DEF register_read_bus_a
  <2>2. written \in Word
    BY <2>1 DEF TypeOK, CoreTypeOK, CtrUpdate, Word
  <2>3. written \ (StopBits \cup {InterruptBit}) \in Word
    BY <2>2 DEF Word
  <2> QED
    BY <2>2, <2>3 DEF ControlUnitClock
<1> QED
  BY <1>1, <1>2

\* A clock edge keeps the whole core to its types.
LEMMA StepType == TypeOK /\ [Clock]_vars => TypeOK'
<1> SUFFICES ASSUME TypeOK, [Clock]_vars PROVE TypeOK'
  OBVIOUS
<1>1. CASE Clock
  <2>1. MmuTypeOK'
    BY <1>1, ProcessorRequestType, PeripheralReplyType, MmuStepType DEF Clock, TypeOK
  <2>2. PeripheralsTypeOK'
    BY <1>1, PeripheralsStepType DEF Clock
  <2>3. IsProgram(rom)' /\ interrupt_signal_staging' \in BOOLEAN
    BY <1>1, EnvironmentAssumption DEF Clock, Environment, TypeOK, CoreTypeOK, IsProgram
  <2>4. CoreTypeOK'
    BY <1>1, <2>3, RegisterBankStepType, AluStepType, PipelineStepType,
       ControlUnitStepType DEF Clock, CoreTypeOK
  <2> QED
    BY <2>1, <2>2, <2>4 DEF TypeOK
<1>2. CASE UNCHANGED vars
  BY <1>2 DEF vars, mmuVars, mmuStrobes, mmuBus, memoryVars, ioVars, cuVars,
     pipelineVars, aluVars, TypeOK, MmuTypeOK, PeripheralsTypeOK, CoreTypeOK, IsProgram
<1> QED
  BY <1>1, <1>2

\* The core keeps to its types: no wire or register of the design ever holds a value
\* out of its width, and stage 1 is never given what is no instruction.
THEOREM CoreTypeCorrect == Spec => []TypeOK
<1> QED
  BY InitType, StepType, PTL DEF Spec

(***************************************************************************)
(* The handshake of the pipeline with the memory unit.                     *)
(***************************************************************************)

\* A waiting memory instruction keeps something to wait for.
LEMMA StageTwoServedStep ==
  TypeOK /\ StageTwoServed /\ [Clock]_vars => StageTwoServed'
<1> SUFFICES ASSUME TypeOK, StageTwoServed, [Clock]_vars, instruction_s2'.op \in MemOps
             PROVE  operation_ongoing' \/ completed'
  BY DEF StageTwoServed
<1>1. CASE Clock
  <2>1. MmuTypeOK /\ ProcessorRequest \in CpuRequest /\ PeripheralReply \in BusReply
    BY ProcessorRequestType, PeripheralReplyType DEF TypeOK
  <2>2. MmuClock(ProcessorRequest, PeripheralReply) /\ PipelineClock
    BY <1>1 DEF Clock
  <2>3. SUFFICES operation_ongoing \/ ProcessorRequest.execute
    BY <2>1, <2>2, MmuServes
  <2>4. Nop.op \notin MemOps
    BY DEF Nop, MemOps
  <2>5. ~cpu_stopped
    BY <2>2, <2>4 DEF PipelineClock
  <2>6. CASE ~stage_2_ready
    \* The instruction stays where it is: without an operation the unit reports
    \* its answer, and stage 2 would be ready.
    <3>1. instruction_s2.op \in MemOps /\ ~mmu_ready
      BY <2>6 DEF stage_2_ready
    <3>2. operation_ongoing \/ completed
      BY <3>1 DEF StageTwoServed
    <3> QED
      BY <3>1, <3>2 DEF mmu_ready, PreCompleted
  <2>7. CASE stage_2_ready
    \* The instruction comes from stage 1, which executed it.
    <3>1. ~stage_1_finished /\ instruction_s2' = instruction_s1
      BY <2>2, <2>4, <2>5, <2>7 DEF PipelineClock
    <3>2. mmu_signal
      BY <3>1 DEF stage_1_finished, mmu_signal
    <3> QED
      BY <3>2 DEF ProcessorRequest
  <2> QED
    BY <2>6, <2>7
<1>2. CASE UNCHANGED vars
  BY <1>2 DEF vars, pipelineVars, mmuVars, StageTwoServed
<1> QED
  BY <1>1, <1>2

\* In every program, whatever the interrupts and stops, a memory instruction in
\* stage 2 has an operation or an answer of the memory unit to wait for: the
\* pipeline and the unit cannot wait for each other (pipeline.v, mmu.v).
THEOREM StageTwoAlwaysServed == Spec => []StageTwoServed
<1>1. Init => StageTwoServed
  BY DEF Init, StageTwoServed, Nop, MemOps
<1> QED
  BY <1>1, StageTwoServedStep, CoreTypeCorrect, PTL DEF Spec

(***************************************************************************)
(* The buses of the memory unit.                                           *)
(***************************************************************************)

\* An edge of the whole core is an edge of the memory unit with typed ports.
LEMMA StrobeStep == TypeOK /\ StrobeDiscipline /\ [Clock]_vars => StrobeDiscipline'
<1> SUFFICES ASSUME TypeOK, StrobeDiscipline, [Clock]_vars PROVE StrobeDiscipline'
  OBVIOUS
<1>1. CASE Clock
  BY <1>1, ProcessorRequestType, PeripheralReplyType, MmuStepStrobes DEF Clock, TypeOK
<1>2. CASE UNCHANGED vars
  BY <1>2 DEF vars, mmuVars, mmuStrobes, StrobeDiscipline
<1> QED
  BY <1>1, <1>2

\* The unit works exactly while it drives one strobe, and never two (mmu.v).
THEOREM StrobesDisciplined == Spec => []StrobeDiscipline
<1>1. Init => StrobeDiscipline
  BY MmuInitType DEF Init
<1> QED
  BY <1>1, StrobeStep, CoreTypeCorrect, PTL DEF Spec

\* A request on a bus stays as it is until the bus has answered it, whatever stage 1
\* asks for in the meantime (mmu.v).
THEOREM BusIsStable == Spec => BusStable
<1>1. ASSUME TypeOK, [Clock]_vars, operation_ongoing, operation_ongoing'
      PROVE  UNCHANGED <<mmuStrobes, mmuBus>>
  <2>1. CASE Clock
    <3> DEFINE cpu == ProcessorRequest
               bus == PeripheralReply
    <3>1. MmuClock(cpu, bus)
      BY <2>1 DEF Clock
    <3>2. MmuWait(cpu, bus)
      BY <1>1, <3>1
      DEF MmuClock, MmuFinish, MmuIdle, MmuInterruptSpace, MmuStart, Accepts
    <3> QED
      BY <3>2 DEF MmuWait
  <2>2. CASE UNCHANGED vars
    BY <2>2 DEF vars, mmuVars
  <2> QED
    BY <1>1, <2>1, <2>2
<1> QED
  BY <1>1, CoreTypeCorrect, PTL DEF Spec, BusStable

(***************************************************************************)
(* The control register has two writers.                                   *)
(***************************************************************************)

\* An interrupt that meets a CTR at the control register wins, and closes it to the
\* next one until the handler's own CTR (cu.v).
THEOREM HandlerIsUndisturbed == Spec => HandlerUndisturbed
<1>1. ASSUME Clock
      PROVE  /\ interrupt_signal => ~cpu_stopped' /\ ~interrupt_signal'
             /\ InterruptBit \notin ctr /\ interrupt_signal' => set_ctr
  <2>1. ASSUME interrupt_signal
        PROVE  ctr' \cap (StopBits \cup {InterruptBit}) = {}
    BY <1>1, <2>1 DEF Clock, ControlUnitClock
  <2>2. interrupt_signal => ~cpu_stopped' /\ ~interrupt_signal'
    BY <2>1 DEF cpu_stopped, interrupt_signal, Zero
  <2>3. ASSUME ~set_ctr PROVE ctr' \subseteq ctr
    BY <1>1, <2>3 DEF Clock, ControlUnitClock
  <2>4. InterruptBit \notin ctr /\ interrupt_signal' => set_ctr
    BY <2>3 DEF interrupt_signal
  <2> QED
    BY <2>2, <2>4
<1> QED
  BY <1>1, PTL DEF Spec, HandlerUndisturbed

(***************************************************************************)
(* The return bytes have two writers.                                      *)
(***************************************************************************)

\* An interrupt leaves both halves of the program counter that it saw, whatever that
\* cycle's store does, and only an executed store to one of the two bytes changes
\* it otherwise. The address has to fit in two bytes, as 16 bits do (cu.v, mmu.v).
THEOREM ReturnBytesAreIntact ==
  ASSUME PcMod <= 2^W * 2^W
  PROVE  Spec => ReturnBytesIntact
<1> DEFINE cpu == ProcessorRequest
<1>1. ASSUME TypeOK, Clock, interrupt_signal
      PROVE  Val(spec_mem_interrupt'[0]) * 2^W + Val(spec_mem_interrupt'[1])
               = program_counter
  <2>1. /\ spec_mem_interrupt'[0] = HighByte(program_counter)
        /\ spec_mem_interrupt'[1] = LowByte(program_counter)
    BY <1>1 DEF Clock, MmuClock, ReturnAddressClock, ProcessorRequest
  <2>2. program_counter \in Nat /\ program_counter < 2^W * 2^W
    <3>1. program_counter \in 0..PcMod-1
      BY <1>1, ProgramCounterType DEF Address
    <3>2. 2^W * 2^W \in Int
      BY ByteSize
    <3> QED
      BY <3>1, <3>2, PcModAssumption
  <2> QED
    BY <2>1, <2>2, AddressBytes
<1>2. ASSUME TypeOK, Clock, ~interrupt_signal, NEW i \in {0, 1},
             spec_mem_interrupt'[i] # spec_mem_interrupt[i]
      PROVE  /\ actually_execute /\ instruction_s1.op = "STM"
             /\ Val(register_read_bus_a) = i
  <2>1. ReturnAddressClock(cpu) /\ ~cpu.set_return
    BY <1>2 DEF Clock, MmuClock, ProcessorRequest
  <2>2. Accepts(cpu) /\ cpu.write /\ Val(cpu.address) = i
    BY <1>2, <2>1 DEF ReturnAddressClock, TypeOK, MmuTypeOK
  <2> QED
    BY <2>2 DEF Accepts, ProcessorRequest, mmu_signal
<1>3. ASSUME TypeOK, [Clock]_vars
      PROVE  [IF interrupt_signal
              THEN Val(spec_mem_interrupt'[0]) * 2^W + Val(spec_mem_interrupt'[1])
                     = program_counter
              ELSE \A i \in {0, 1} :
                     spec_mem_interrupt'[i] # spec_mem_interrupt[i]
                       => /\ actually_execute /\ instruction_s1.op = "STM"
                          /\ Val(register_read_bus_a) = i]_vars
  BY <1>1, <1>2, <1>3
<1> QED
  BY <1>3, CoreTypeCorrect, PTL DEF Spec, ReturnBytesIntact

(***************************************************************************)
(* Operations of the memory unit and their instructions.                   *)
(***************************************************************************)

\* The bus has answered the operation in progress.
Answered == OperationCompleted(PeripheralReply)

\* The unit is at a store to the input port, which the port never answers.
PortStore == io_registers_write /\ io_registers_address = 0

\* What keeps an operation with its instruction: the I/O bus only carries addresses it
\* has registers for, and by the time a CTR has stopped the core and flushed stage 2
\* the bus has answered.
Ownership ==
  operation_ongoing =>
    /\ io_registers_read \/ io_registers_write => io_registers_address \in 0..2
    /\ \/ PortStore
       \/ instruction_s2.op \in MemOps /\ (cpu_stopped => Answered)

\* Either bus answers within a cycle of seeing a request, unless it is a store to the
\* input port (basic_synchronized_ram.v, peripheal_control.v).
LEMMA AnsweredAfterWait ==
  ASSUME TypeOK, StrobeDiscipline, Ownership, Clock,
         MmuWait(ProcessorRequest, PeripheralReply), ~PortStore
  PROVE  Answered'
<1>1. operation_ongoing /\ UNCHANGED <<mmuStrobes, mmuBus>>
  BY DEF MmuWait
<1>2. CASE memory_read_signal \/ memory_write_signal
  <2>1. memory_ready'
    BY <1>1 DEF Clock, MemoryClock, memory_ready, current_control_signal, mmuStrobes, mmuBus
  <2> QED
    BY <1>1, <1>2, <2>1 DEF Answered, OperationCompleted, PeripheralReply, mmuStrobes
<1>3. CASE io_registers_read \/ io_registers_write
  <2>1. IoAnswers
    BY <1>1, <1>3 DEF Ownership, PortStore, IoAnswers
  <2>2. io_registers_ready'
    BY <2>1 DEF Clock, IoClock
  <2> QED
    BY <1>1, <1>3, <2>2 DEF Answered, OperationCompleted, PeripheralReply, mmuStrobes
<1>4. memory_read_signal \/ memory_write_signal \/ io_registers_read \/ io_registers_write
  BY <1>1 DEF StrobeDiscipline, mmuStrobes
<1> QED
  BY <1>2, <1>3, <1>4

\* The I/O index of an address in the I/O space is the number of a register (mmu.v).
LEMMA IoIndexRange ==
  ASSUME NEW w \in Word, IoSpace(w)
  PROVE  IoIndex(w) = Val(w) - 2 /\ IoIndex(w) \in 0..2
  BY DEF IoSpace, IoIndex, IO_MEMORY_SPACE_SIZE

\* A memory instruction that executes in stage 1 moves to stage 2 when the unit takes
\* its operation (pipeline.v against mmu.v).
LEMMA OwnerFollows ==
  ASSUME TypeOK, StageTwoServed, Clock, MmuStart(ProcessorRequest, PeripheralReply)
  PROVE  /\ ~cpu_stopped
         /\ instruction_s2' = instruction_s1
         /\ instruction_s1.op \in MemOps
         /\ ~operation_ongoing
<1>1. mmu_signal /\ ~operation_ongoing
  BY DEF MmuStart, Accepts, ProcessorRequest
<1>2. actually_execute /\ instruction_s1.op \in MemOps
  BY <1>1 DEF mmu_signal
<1>3. ~cpu_stopped /\ execute_stage_1
  BY <1>2 DEF actually_execute, execute_stage_1, stage_1_hold
<1>4. ~stage_1_finished
  BY <1>2 DEF stage_1_finished, MemOps, JumpOps
<1>5. stage_2_ready
  BY <1>1 DEF stage_2_ready, mmu_ready, PreCompleted, StageTwoServed
<1> QED
  BY <1>1, <1>2, <1>3, <1>4, <1>5 DEF Clock, PipelineClock

\* Only a CTR stops the core.
LEMMA StopsByCtr ==
  ASSUME TypeOK, Clock, ~set_ctr, ~cpu_stopped PROVE ~cpu_stopped'
<1>1. ctr' \subseteq ctr
  BY DEF Clock, ControlUnitClock
<1> QED
  BY <1>1 DEF cpu_stopped, Zero

LEMMA OwnershipStep ==
  TypeOK /\ StrobeDiscipline /\ StageTwoServed /\ Ownership /\ [Clock]_vars
    => Ownership'
<1> SUFFICES ASSUME TypeOK, StrobeDiscipline, StageTwoServed, Ownership, [Clock]_vars,
                    operation_ongoing'
             PROVE  /\ (io_registers_read \/ io_registers_write
                           => io_registers_address \in 0..2)'
                    /\ \/ PortStore'
                       \/ instruction_s2'.op \in MemOps /\ (cpu_stopped' => Answered')
  BY DEF Ownership
<1> DEFINE cpu == ProcessorRequest
           bus == PeripheralReply
<1>1. CASE Clock /\ MmuWait(cpu, bus)
  <2>1. /\ operation_ongoing
        /\ ~Answered
        /\ UNCHANGED <<mmuStrobes, mmuBus>>
    BY <1>1 DEF MmuWait, Answered
  <2>2. (io_registers_read \/ io_registers_write => io_registers_address \in 0..2)'
    BY <2>1 DEF Ownership, mmuStrobes, mmuBus
  <2>3. CASE PortStore
    BY <2>1, <2>2, <2>3 DEF PortStore, mmuStrobes, mmuBus
  <2>4. CASE ~PortStore
    <3>1. Answered'
      BY <1>1, <2>4, AnsweredAfterWait
    <3>2. instruction_s2.op \in MemOps /\ ~cpu_stopped
      BY <2>1, <2>4 DEF Ownership
    <3>3. ~stage_2_ready
      BY <2>1, <3>2 DEF stage_2_ready, mmu_ready, PreCompleted, Answered
    <3>4. instruction_s2' = instruction_s2
      BY <1>1, <3>2, <3>3 DEF Clock, PipelineClock
    <3> QED
      BY <2>2, <3>1, <3>2, <3>4
  <2> QED
    BY <2>3, <2>4
<1>2. CASE Clock /\ MmuStart(cpu, bus)
  <2>1. /\ ~cpu_stopped
        /\ instruction_s2' = instruction_s1
        /\ instruction_s1.op \in MemOps
        /\ ~operation_ongoing
    BY <1>2, OwnerFollows
  <2>2. ~cpu_stopped'
    <3>1. ~set_ctr
      BY <2>1 DEF set_ctr, MemOps
    <3> QED
      BY <1>2, <2>1, <3>1, StopsByCtr
  <2>3. (io_registers_read \/ io_registers_write => io_registers_address \in 0..2)'
    <3>1. ~io_registers_read /\ ~io_registers_write
      BY <2>1 DEF StrobeDiscipline, mmuStrobes
    <3>2. cpu.address \in Word
      BY ProcessorRequestType DEF CpuRequest
    <3>3. (io_registers_read \/ io_registers_write)' => IoSpace(cpu.address)
      BY <1>2, <3>1 DEF MmuStart
    <3> QED
      BY <1>2, <3>2, <3>3, IoIndexRange DEF MmuStart
  <2> QED
    BY <2>1, <2>2, <2>3
<1>3. CASE Clock /\ MmuFinish(cpu, bus)
  BY <1>3 DEF MmuFinish
<1>4. CASE Clock /\ MmuIdle(cpu, bus)
  BY <1>4 DEF MmuIdle
<1>5. CASE Clock /\ MmuInterruptSpace(cpu, bus)
  BY <1>5 DEF MmuInterruptSpace, Accepts
<1>6. CASE UNCHANGED vars
  BY <1>6 DEF vars, mmuVars, mmuStrobes, mmuBus, memoryVars, ioVars, cuVars, pipelineVars,
     Ownership, PortStore, Answered, OperationCompleted, PeripheralReply, memory_ready,
     current_control_signal, cpu_stopped
<1> QED
  BY <1>1, <1>2, <1>3, <1>4, <1>5, <1>6 DEF Clock, MmuClock

\* What holds of every execution, the port stores included.
LEMMA OwnershipInvariant == Spec => []Ownership
<1>1. Init => Ownership
  BY DEF Init, MmuInit, Ownership
<1> QED
  BY <1>1, OwnershipStep, CoreTypeCorrect, StrobesDisciplined, StageTwoAlwaysServed, PTL
  DEF Spec

\* In every program that stores nothing to the input port, no operation of the memory
\* unit outlives its instruction, not even one whose instruction a stop discards or an
\* interrupt follows (cu.v and pipeline.v against mmu.v). A store to the input port is
\* never answered, and a stop does leave it behind.
THEOREM OperationsAreOwned == Spec /\ []~PortHazard => []OperationOwned
<1>1. Init => ~PortStore
  BY DEF Init, MmuInit, PortStore
<1>2. TypeOK /\ StrobeDiscipline /\ ~PortHazard /\ ~PortStore /\ [Clock]_vars
        => ~PortStore'
  <2> SUFFICES ASSUME TypeOK, StrobeDiscipline, ~PortHazard, ~PortStore, [Clock]_vars
               PROVE  ~PortStore'
    OBVIOUS
  <2> DEFINE cpu == ProcessorRequest
             bus == PeripheralReply
  <2>1. CASE Clock /\ MmuStart(cpu, bus)
    <3>1. SUFFICES ASSUME PortStore' PROVE FALSE
      OBVIOUS
    <3>2. cpu.address \in Word /\ IoIndex(cpu.address) = 0
      BY <2>1, <3>1, ProcessorRequestType DEF MmuStart, PortStore, CpuRequest
    <3>3. ~io_registers_write
      BY <2>1 DEF MmuStart, Accepts, StrobeDiscipline, mmuStrobes
    <3>4. IoSpace(cpu.address) /\ cpu.write
      BY <2>1, <3>1, <3>3 DEF MmuStart, PortStore
    <3>5. Val(cpu.address) = 2
      BY <3>2, <3>4, IoIndexRange, ValType
    <3>6. cpu.address = GpioPortAddress
      BY <3>2, <3>5, TwoIsWordOfTwo DEF GpioPortAddress
    <3> QED
      BY <2>1, <3>4, <3>6 DEF PortHazard, MmuStart, Accepts, ProcessorRequest
  <2>2. CASE Clock /\ MmuWait(cpu, bus)
    BY <2>2 DEF MmuWait, PortStore, mmuStrobes, mmuBus
  <2>3. CASE Clock /\ MmuFinish(cpu, bus)
    BY <2>3 DEF MmuFinish, PortStore
  <2>4. CASE Clock /\ MmuIdle(cpu, bus)
    BY <2>4 DEF MmuIdle, PortStore, mmuStrobes, mmuBus
  <2>5. CASE Clock /\ MmuInterruptSpace(cpu, bus)
    BY <2>5 DEF MmuInterruptSpace, Accepts, StrobeDiscipline, PortStore, mmuStrobes
  <2>6. CASE UNCHANGED vars
    BY <2>6 DEF vars, mmuVars, mmuStrobes, mmuBus, PortStore
  <2> QED
    BY <2>1, <2>2, <2>3, <2>4, <2>5, <2>6 DEF Clock, MmuClock
<1>3. Ownership /\ ~PortStore => OperationOwned
  BY DEF Ownership, OperationOwned
<1> QED
  BY <1>1, <1>2, <1>3, OwnershipInvariant, CoreTypeCorrect, StrobesDisciplined, PTL
  DEF Spec

(***************************************************************************)
(* The interlocks of stage 1.                                              *)
(***************************************************************************)

\* Completing an instruction changes no register outside its announced ones, but
\* for what a CID clears.
LEMMA WriteBackLeaves ==
  ASSUME NEW regs \in [Bits -> Word], NEW i \in Instruction, NEW value, NEW r \in Bits,
         r \notin AnnouncedRegs(i), i.op = "CID" => r \notin CidRegs
  PROVE  WriteBack(regs, i, value)[r] = regs[r]
  BY DEF WriteBack, WriteMask, AnnouncedRegs

\* The interlocks of stage 1 leave nothing out: this needs no history, only the types.
LEMMA InterlockHolds == TypeOK => InterlockComplete
<1> SUFFICES ASSUME TypeOK, ~CidHazard, execute_stage_1 PROVE SequentialOperands
  BY DEF InterlockComplete, SequentialOperands
<1>1. ASSUME NEW r \in registers_used \cap Bits
      PROVE  registers[r] = VisibleRegisters[r]
  <2>1. /\ r \notin AnnouncedRegs(instruction_s2)
        /\ r \notin AnnouncedRegs(instruction_s3)
    BY <1>1 DEF execute_stage_1, stage_1_hold, register_overlap_warning,
       stage_2_registers_set, stage_3_registers_set, Zero
  <2>2. "CID" \in {instruction_s2.op, instruction_s3.op} => r \notin CidRegs
    BY <1>1 DEF CidHazard, Zero
  <2> DEFINE written == WriteBack(registers, instruction_s3, register_write_bus)
  <2>3. written[r] = registers[r]
    BY <2>1, <2>2, WriteBackLeaves DEF TypeOK, CoreTypeOK
  <2>4. written \in [Bits -> Word]
    <3>1. register_write_bus \in Word
      BY DEF register_write_bus, TypeOK, CoreTypeOK, MmuTypeOK, Instruction
    <3> QED
      BY <3>1, WriteMaskType, ZeroType DEF WriteBack, TypeOK, CoreTypeOK
  <2>5. VisibleRegisters[r] = written[r]
    BY <2>1, <2>2, <2>4, WriteBackLeaves DEF VisibleRegisters, TypeOK, CoreTypeOK
  <2> QED
    BY <2>3, <2>5
<1>2. ASSUME stage_1_using_flags PROVE zf = VisibleZf /\ cf = VisibleCf
  BY <1>2 DEF execute_stage_1, stage_1_hold, flag_overlap_warning, VisibleZf, VisibleCf
<1> QED
  BY <1>1, <1>2 DEF SequentialOperands

\* Whatever instruction executes in stage 1, it reads the registers and flags of the
\* sequential machine, unless it reads a register a CID ahead of it clears (cu.v).
THEOREM InterlockIsComplete == Spec => []InterlockComplete
<1> QED
  BY InterlockHolds, CoreTypeCorrect, PTL
=============================================================================
