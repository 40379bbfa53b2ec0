--------------------------- MODULE CoreRefinement ---------------------------
(***************************************************************************)
(* The pipelined core implements the sequential machine of Isa.            *)
(*                                                                         *)
(* An instruction takes its sequential effect when it leaves stage 1. The  *)
(* mapping completes the two instructions still in stages 2 and 3: their   *)
(* register writes, flags, stores and loads that the core has accepted and *)
(* not yet performed.                                                      *)
(*                                                                         *)
(* The design leaves some orderings of instructions to the program: those  *)
(* are the hazards named below, and ScheduledSpec is the core on programs  *)
(* up to the first of them.                                                *)
(***************************************************************************)
EXTENDS Core

(***************************************************************************)
(* The refinement mapping.                                                 *)
(***************************************************************************)

\* Data memory, the bytes of the return address and the I/O registers as one
\* array of bytes, with the store on the bus performed.
VisibleByte(address) ==
  IF InterruptSpace(address) THEN spec_mem_interrupt[Val(address)]
  ELSE IF ~IoSpace(address)
       THEN IF memory_write_signal /\ memory_address = address
            THEN memory_in ELSE memory[address]
       ELSE IF io_registers_write /\ io_registers_address = IoIndex(address)
            THEN io_registers_write_bus
            ELSE IF IoIndex(address) = 1 THEN gpio_a_write ELSE gpio_a_ctr

GpioPortAddress == WordOf(2)

\* The input port is no memory: its cell keeps one value.
VisibleMemory ==
  [cell \in {Zero} \X Word |-> IF cell[2] = GpioPortAddress THEN Zero
                              ELSE VisibleByte(cell[2])]

\* The value a load on its way through stage 2 will deliver.
LoadedValue ==
  IF ~operation_ongoing THEN out_data
  ELSE IF io_registers_read /\ io_registers_address = 0 THEN gpio_a_read
  ELSE VisibleByte(memory_address)

\* What the instruction in stage 2 will write, and where.
PendingResult ==
  CASE instruction_s2.op \in AluOps \ {"EXT"} ->
         AluResult(instruction_s2.op, alpha, beta, immediate)
    [] instruction_s2.op = "EXT" -> accumulator
    [] instruction_s2.op = "LDM" -> LoadedValue
    [] OTHER -> instruction_s2.b

WriteBack(regs, i, value) ==
  IF WritesMask(i) THEN WriteMask(regs, i.a, value)
  ELSE IF i.op = "CID" THEN WriteMask(regs, CidRegs, Zero) ELSE regs

VisibleRegisters ==
  WriteBack(WriteBack(registers, instruction_s3, register_write_bus),
            instruction_s2, PendingResult)

VisibleZf == IF instruction_s2.op = "CMP" THEN CompareZero(alpha, beta) ELSE zf
VisibleCf == IF instruction_s2.op = "CMP" THEN CompareCarry(alpha, beta) ELSE cf

Sequential == INSTANCE Isa WITH
  Banks <- {Zero}, BootPc <- PcMod - 1,
  ports <- {GpioPortAddress}, pins <- gpio_a_read,
  regs <- VisibleRegisters, zf <- VisibleZf, cf <- VisibleCf,
  mem <- VisibleMemory

(***************************************************************************)
(* The orderings the design leaves to the program.                         *)
(***************************************************************************)

\* A memory instruction executes while the memory unit still works on, or still
\* reports, an earlier one.
MemoryHazard == mmu_signal /\ (operation_ongoing \/ completed)

\* An operand is one of the registers a CID ahead in the pipeline will clear.
CidHazard ==
  /\ execute_stage_1
  /\ "CID" \in {instruction_s2.op, instruction_s3.op}
  /\ registers_used \cap CidRegs # Zero

\* A CTR stops the core while a load is waiting for its answer.
StopHazard ==
  /\ set_ctr
  /\ CtrUpdate(ctr, register_read_bus_a, instruction_s1.b) \cap StopBits # Zero
  /\ instruction_s2.op = "LDM" /\ ~stage_2_ready

\* A store to the input port, which never answers: the store never completes.
PortHazard ==
  mmu_signal /\ instruction_s1.op = "STM" /\ register_read_bus_a = GpioPortAddress

Hazard == MemoryHazard \/ CidHazard \/ StopHazard \/ PortHazard

ScheduledClock == ~Hazard /\ Clock
ScheduledSpec == Init /\ [][ScheduledClock]_vars

(***************************************************************************)
(* Properties.                                                             *)
(***************************************************************************)

\* The instruction that executes in stage 1 reads the registers and flags the
\* sequential machine has at that point (the interlocks of cu.v).
SequentialOperands ==
  execute_stage_1 =>
    /\ \A r \in registers_used \cap Bits : registers[r] = VisibleRegisters[r]
    /\ stage_1_using_flags => zf = VisibleZf /\ cf = VisibleCf

\* It does so in every program, whatever the memory, the interrupts and the stops
\* do, unless it reads a register that a CID ahead of it clears (cu.v).
InterlockComplete == CidHazard \/ SequentialOperands

\* On a program without those orderings, whatever overlaps in the pipeline, the
\* registers, flags, memory, control register and program counter go through the
\* states of the sequential machine (all of core.v against instruction.hpp).
ImplementsIsa == Sequential!IsaSpec
=============================================================================
