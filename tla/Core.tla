-------------------------------- MODULE Core --------------------------------
(***************************************************************************)
(* The microcontroller: the three-stage pipeline with its control unit,    *)
(* register bank and arithmetic unit, the memory management unit, data     *)
(* memory and I/O registers, between a program memory and an environment   *)
(* that drives the interrupt line and the input pins.                      *)
(*                                                                         *)
(* A step is one rising clock edge. The wires between two edges are        *)
(* operators over the state, named as in the design; every clocked block   *)
(* of the design is an action, and Clock is their conjunction.             *)
(***************************************************************************)
EXTENDS Peripherals

CONSTANTS
  Programs,        \* programs the memory may hold: functions from addresses 0..n
  GpioInputs,      \* bytes the input pins may show
  InterruptLevels  \* levels the interrupt line may have

ASSUME EnvironmentAssumption ==
  /\ GpioInputs \subseteq Word /\ GpioInputs # {}
  /\ InterruptLevels \subseteq BOOLEAN /\ InterruptLevels # {}

\* A program occupies instruction addresses, never the one the core boots from.
IsProgram(p) ==
  /\ DOMAIN p \subseteq Address \ {PcMod - 1}
  /\ \A address \in DOMAIN p : p[address] \in Instruction

ASSUME ProgramAssumption ==
  /\ Programs # {}
  /\ \A p \in Programs : IsProgram(p)

VARIABLES
  rom,                 \* program memory: never written
  interrupt_signal_staging,
  pc,                  \* address of the instruction in stage 1
  ctr,
  instruction_s1, instruction_s2, instruction_s3,
  registers,
  alu_control, alpha, beta, immediate,   \* operands latched by the arithmetic unit
  accumulator, zf, cf

cuVars == <<pc, ctr>>
pipelineVars == <<instruction_s1, instruction_s2, instruction_s3>>
aluVars == <<alu_control, alpha, beta, immediate, accumulator, zf, cf>>
vars == <<mmuVars, memoryVars, ioVars, gpio_a_read, interrupt_signal_staging,
          rom, cuVars, pipelineVars, registers, aluVars>>

CoreTypeOK ==
  /\ IsProgram(rom)
  /\ interrupt_signal_staging \in BOOLEAN
  /\ pc \in Address
  /\ ctr \in Word
  /\ instruction_s1 \in Instruction
  /\ instruction_s2 \in Instruction
  /\ instruction_s3 \in Instruction
  /\ registers \in [Bits -> Word]
  /\ alu_control \in AluOps
  /\ alpha \in Word
  /\ beta \in Word
  /\ immediate \in Word
  /\ accumulator \in Word
  /\ zf \in BOOLEAN
  /\ cf \in BOOLEAN

\* Every register of the design holds a value of its width.
TypeOK == MmuTypeOK /\ PeripheralsTypeOK /\ CoreTypeOK

Init ==
  /\ MmuInit
  /\ PeripheralsInit
  /\ gpio_a_read \in GpioInputs
  /\ interrupt_signal_staging \in InterruptLevels
  /\ rom \in Programs
  /\ pc = PcMod - 1
  /\ ctr = Zero
  /\ instruction_s1 = Nop /\ instruction_s2 = Nop /\ instruction_s3 = Nop
  /\ registers = [r \in Bits |-> Zero]
  /\ alu_control = "NAD"
  /\ \E x \in PowerUp : alpha = x /\ beta = x /\ immediate = x
  /\ accumulator = Zero
  /\ zf = FALSE
  /\ cf = FALSE

(***************************************************************************)
(* Stage 3: write back.                                                    *)
(***************************************************************************)
WritesMask(i) == i.op \in AluOps \cup {"LDM", "SET"}

\* What stages 2 and 3 announce that they will write.
AnnouncedRegs(i) ==
  IF WritesMask(i) THEN i.a
  ELSE IF i.op = "CID" THEN Bits \ CidRegs ELSE Zero

stage_2_registers_set == AnnouncedRegs(instruction_s2)
stage_3_registers_set == AnnouncedRegs(instruction_s3)

trigger_cid == instruction_s3.op = "CID"
register_write_signal == WritesMask(instruction_s3)
register_write_bus ==
  IF instruction_s3.op \in AluOps THEN accumulator
  ELSE IF instruction_s3.op = "LDM" THEN out_data ELSE instruction_s3.b

RegisterBankClock ==
  LET written == IF register_write_signal
                 THEN WriteMask(registers, instruction_s3.a, register_write_bus)
                 ELSE registers
  IN  registers' = IF trigger_cid THEN WriteMask(written, CidRegs, Zero) ELSE written

(***************************************************************************)
(* Stage 1: interlocks, operands and what it asks of the other units.      *)
(***************************************************************************)
registers_used ==
  LET i == instruction_s1
      a_read == i.op \in (AluOps \ {"MOV"}) \cup {"JPR", "STM", "CTR"}
      b_read == i.op \in (AluOps \ {"SHR"}) \cup {"JPR"} \cup MemOps
  IN  (IF a_read THEN i.a ELSE Zero) \cup (IF b_read THEN i.b ELSE Zero)

\* Exactly one of a flag's two condition bits is set.
stage_1_using_flags ==
  LET cond == instruction_s1.cond IN
  \/ ("ZF_TRUE" \in cond) # ("ZF_FALSE" \in cond)
  \/ ("CF_TRUE" \in cond) # ("CF_FALSE" \in cond)

\* Faulty variant: forgets the instruction in stage 3.
register_overlap_of_stage_2 == stage_2_registers_set \cap registers_used # Zero

register_overlap_warning ==
  (stage_2_registers_set \cup stage_3_registers_set) \cap registers_used # Zero
\* Faulty variant: flags are thought to be ready at once.
no_flag_overlap == FALSE

flag_overlap_warning == instruction_s2.op = "CMP" /\ stage_1_using_flags
cpu_stopped == ctr \cap StopBits # Zero

stage_1_hold == register_overlap_warning \/ flag_overlap_warning \/ cpu_stopped
execute_stage_1 == ~stage_1_hold
actually_execute == execute_stage_1 /\ Passes(instruction_s1.cond, zf, cf)

stage_1_finished ==
  \/ instruction_s1.op \in JumpOps \cup {"CTR", "NOP"}
  \/ ~actually_execute

register_read_bus_a == ReadMask(registers, instruction_s1.a)
register_read_bus_b == ReadMask(registers, instruction_s1.b)

jump_address ==
  IF instruction_s1.op = "JPI"
  THEN JumpAddress(instruction_s1.a, instruction_s1.b)
  ELSE JumpAddress(register_read_bus_a, register_read_bus_b)

\* Faulty variant: a program counter wider than the address bus.
program_counter_without_wrap ==
  IF actually_execute /\ instruction_s1.op \in JumpOps THEN jump_address ELSE pc + 1

\* The address of the instruction that follows the one in stage 1.
program_counter ==
  IF actually_execute /\ instruction_s1.op \in JumpOps
  THEN jump_address
  ELSE (pc + 1) % PcMod

set_ctr == actually_execute /\ instruction_s1.op = "CTR"
alu_signal == actually_execute /\ instruction_s1.op \in AluOps
mmu_signal == actually_execute /\ instruction_s1.op \in MemOps
\* Faulty variant: the interrupt line is not watched while stopped.
interrupt_signal_while_running ==
  InterruptBit \in ctr /\ interrupt_signal_staging /\ ~cpu_stopped

interrupt_signal == InterruptBit \in ctr /\ interrupt_signal_staging

ProcessorRequest ==
  LET write == instruction_s1.op = "STM" IN
  [execute |-> mmu_signal, write |-> write,
   address |-> IF write THEN register_read_bus_a ELSE register_read_bus_b,
   in_data |-> IF write THEN register_read_bus_b ELSE register_read_bus_a,
   set_return |-> interrupt_signal, return_address |-> program_counter]

(***************************************************************************)
(* Stage 2 and the movement of instructions through the pipeline.          *)
(***************************************************************************)
mmu_ready == PreCompleted(ProcessorRequest, PeripheralReply)

\* Faulty variant: stage 2 does not wait for loads.
stage_2_ready_for_loads == instruction_s2.op = "STM" => mmu_ready

stage_2_ready == instruction_s2.op \in MemOps => mmu_ready
stage_2_finished ==
  \/ instruction_s2.op = "NOP"
  \/ instruction_s2.op = "STM" /\ stage_2_ready

ready_for_next_instruction == (stage_2_ready \/ stage_1_finished) /\ execute_stage_1

\* Cells outside the loaded program read as the all-zero word.
InstructionAt(address) == IF address \in DOMAIN rom THEN rom[address] ELSE Nop

PipelineClock ==
  IF cpu_stopped
  THEN instruction_s1' = Nop /\ instruction_s2' = Nop /\ instruction_s3' = Nop
  ELSE /\ instruction_s3' = IF stage_2_finished \/ ~stage_2_ready
                            THEN Nop ELSE instruction_s2
       /\ instruction_s2' = IF ~stage_2_ready THEN instruction_s2
                            ELSE IF stage_1_finished \/ ~execute_stage_1
                                 THEN Nop ELSE instruction_s1
       /\ instruction_s1' = IF ready_for_next_instruction
                            THEN InstructionAt(program_counter) ELSE instruction_s1

(***************************************************************************)
(* The program counter and the control register. An interrupt overrides    *)
(* both: it clears the stop bits and the interrupt flag and leaves 1 in    *)
(* the program counter.                                                    *)
(***************************************************************************)
\* Faulty variant: a CTR of the same edge is applied over the interrupt.
ControlUnitClockCtrLast ==
  LET entered == IF interrupt_signal THEN ctr \ (StopBits \cup {InterruptBit}) ELSE ctr
  IN  /\ ctr' = IF set_ctr
                THEN CtrUpdate(entered, register_read_bus_a, instruction_s1.b)
                ELSE entered
      /\ pc' = IF interrupt_signal THEN 1 % PcMod
               ELSE IF ready_for_next_instruction /\ ~cpu_stopped
                    THEN program_counter ELSE pc

ControlUnitClock ==
  LET written == IF set_ctr
                 THEN CtrUpdate(ctr, register_read_bus_a, instruction_s1.b)
                 ELSE ctr
  IN  /\ ctr' = IF interrupt_signal
                THEN written \ (StopBits \cup {InterruptBit}) ELSE written
      /\ pc' = IF interrupt_signal THEN 1 % PcMod
               ELSE IF ready_for_next_instruction /\ ~cpu_stopped
                    THEN program_counter ELSE pc

\* The result of the operands latched last is registered at every edge.
AluClock ==
  /\ IF alu_signal
     THEN /\ alu_control' = instruction_s1.op
          /\ alpha' = register_read_bus_a
          /\ beta' = register_read_bus_b
          /\ immediate' = instruction_s1.b
     ELSE UNCHANGED <<alu_control, alpha, beta, immediate>>
  /\ accumulator' = IF alu_control = "EXT" THEN accumulator
                    ELSE AluResult(alu_control, alpha, beta, immediate)
  /\ zf' = IF alu_control = "CMP" THEN CompareZero(alpha, beta) ELSE zf
  /\ cf' = IF alu_control = "CMP" THEN CompareCarry(alpha, beta) ELSE cf

Environment ==
  /\ gpio_a_read' \in GpioInputs
  /\ interrupt_signal_staging' \in InterruptLevels
  /\ UNCHANGED rom

Clock ==
  /\ MmuClock(ProcessorRequest, PeripheralReply)
  /\ MemoryClock
  /\ IoClock
  /\ RegisterBankClock
  /\ AluClock
  /\ PipelineClock
  /\ ControlUnitClock
  /\ Environment

(***************************************************************************)
(* Properties.                                                             *)
(***************************************************************************)

\* A memory instruction waiting in stage 2 has an operation of the memory unit
\* to wait for, or its answer: the pipeline and the unit never each wait for the
\* other (pipeline.v and id_stage_2.v against mmu.v).
StageTwoServed ==
  instruction_s2.op \in MemOps => operation_ongoing \/ completed

\* An operation of the unit belongs to the memory instruction in stage 2: none
\* outlives its instruction, not even one whose instruction a stop discards
\* (cu.v and pipeline.v against mmu.v).
OperationOwned ==
  operation_ongoing => instruction_s2.op \in MemOps

\* A bus request does not change until it is answered, which is what the memory
\* counts on to be ready, although stage 1 may ask for the next operation in
\* every cycle (mmu.v, basic_synchronized_ram.v).
BusStable ==
  [][operation_ongoing /\ operation_ongoing' => UNCHANGED <<mmuStrobes, mmuBus>>]_vars

\* The interrupt wins over a CTR that reaches the control register at the same
\* edge: its handler starts neither stopped nor open to the next interrupt, and
\* only a CTR the handler executes opens it (cu.v, two writes of one register).
HandlerUndisturbed ==
  [][/\ interrupt_signal => ~cpu_stopped' /\ ~interrupt_signal'
     /\ InterruptBit \notin ctr /\ interrupt_signal' => set_ctr]_vars

\* The return bytes have two writers. An interrupt leaves in them the program
\* counter that it saw, both halves of one address, whatever the instruction in
\* stage 1 stores to them at the same edge; otherwise only an executed store to a
\* byte changes that byte. Which instruction is at that address, and whether the
\* core executes it once, is not asked (cu.v and mmu.v, one register written by both).
ReturnBytesIntact ==
  [][IF interrupt_signal
     THEN Val(spec_mem_interrupt'[0]) * 2^W + Val(spec_mem_interrupt'[1]) = program_counter
     ELSE \A i \in {0, 1} :
            spec_mem_interrupt'[i] # spec_mem_interrupt[i]
              => /\ actually_execute /\ instruction_s1.op = "STM"
                 /\ Val(register_read_bus_a) = i]_vars

\* The interlocks and the memory handshake never lock the pipeline up: unless it
\* is stopped, the core keeps taking instructions (cu.v, pipeline.v).
Progress == []<>(ready_for_next_instruction \/ cpu_stopped)

\* A stop with interrupts on is left as long as the interrupt line keeps being
\* raised (cu.v).
StopIsNotFinal ==
  []<>interrupt_signal_staging =>
    []((cpu_stopped /\ InterruptBit \in ctr) => <>~cpu_stopped)

\* The clock never stops.
Spec == Init /\ [][Clock]_vars /\ WF_vars(Clock)
=============================================================================
