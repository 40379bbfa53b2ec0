-------------------------------- MODULE Mmu --------------------------------
(***************************************************************************)
(* The memory management unit of the core (mmu.v), one step per clock      *)
(* edge. It takes at most one request of the processor at a time, answers  *)
(* the two interrupt return bytes itself, and drives the memory bus or the *)
(* I/O register bus for every other address until that bus reports ready.  *)
(*                                                                         *)
(* Inputs are records: what the processor drives in a clock cycle (cpu)    *)
(* and what the two buses answer in it (bus).                              *)
(***************************************************************************)
EXTENDS MicroArch

CONSTANT PowerUp    \* bytes an uninitialised register may hold at power up
ASSUME PowerUpAssumption == PowerUp \subseteq Word /\ PowerUp # {}

VARIABLES
  out_data,
  completed,
  operation_ongoing,
  memory_address,
  memory_in,
  memory_read_signal,
  memory_write_signal,
  io_registers_address,
  io_registers_write_bus,
  io_registers_read,
  io_registers_write,
  spec_mem_interrupt      \* the two bytes of the interrupt return address

mmuStrobes ==
  <<memory_read_signal, memory_write_signal, io_registers_read, io_registers_write>>
mmuBus ==
  <<memory_address, memory_in, io_registers_address, io_registers_write_bus>>
mmuVars ==
  <<out_data, completed, operation_ongoing, mmuStrobes, mmuBus, spec_mem_interrupt>>

CpuRequest == [execute: BOOLEAN, write: BOOLEAN, address: Word, in_data: Word,
               set_return: BOOLEAN, return_address: Address]
BusReply == [memory_ready: BOOLEAN, memory_out: Word,
             io_ready: BOOLEAN, io_read_bus: Word]

MmuTypeOK ==
  /\ out_data \in Word
  /\ completed \in BOOLEAN
  /\ operation_ongoing \in BOOLEAN
  /\ memory_address \in Word
  /\ memory_in \in Word
  /\ memory_read_signal \in BOOLEAN
  /\ memory_write_signal \in BOOLEAN
  /\ io_registers_address \in 0..15
  /\ io_registers_write_bus \in Word
  /\ io_registers_read \in BOOLEAN
  /\ io_registers_write \in BOOLEAN
  /\ spec_mem_interrupt \in [{0, 1} -> Word]

\* Registers without an initial value hold one arbitrary byte.
MmuInit ==
  /\ \E x \in PowerUp :
       /\ out_data = x
       /\ io_registers_write_bus = x
       /\ spec_mem_interrupt = [i \in {0, 1} |-> x]
  /\ io_registers_address = 0
  /\ memory_address = Zero
  /\ memory_in = Zero
  /\ completed = FALSE
  /\ operation_ongoing = FALSE
  /\ memory_read_signal = FALSE
  /\ memory_write_signal = FALSE
  /\ io_registers_read = FALSE
  /\ io_registers_write = FALSE

OperationCompleted(bus) ==
  \/ (memory_read_signal \/ memory_write_signal) /\ bus.memory_ready
  \/ (io_registers_read \/ io_registers_write) /\ bus.io_ready
  \/ completed

\* Faulty variant: a request is taken while the unit works.
AcceptsAlways(cpu) == cpu.execute

\* A request is taken only by a unit without an operation of its own.
Accepts(cpu) == cpu.execute /\ ~operation_ongoing

\* What the pipeline is told in the cycle itself, before the edge.
PreCompleted(cpu, bus) ==
  IF operation_ongoing
  THEN OperationCompleted(bus)
  ELSE (Accepts(cpu) /\ InterruptSpace(cpu.address)) \/ completed

(***************************************************************************)
(* What a clock edge does to everything but the return address bytes.      *)
(***************************************************************************)
MmuWait(cpu, bus) ==
  /\ operation_ongoing
  /\ ~OperationCompleted(bus)
  /\ completed' = FALSE
  /\ UNCHANGED <<out_data, operation_ongoing, mmuStrobes, mmuBus>>

\* Faulty variant: the end of an operation is not reported.
MmuFinishSilently(cpu, bus) ==
  /\ operation_ongoing
  /\ OperationCompleted(bus)
  /\ out_data' = IF io_registers_read \/ io_registers_write
                 THEN bus.io_read_bus ELSE bus.memory_out
  /\ completed' = FALSE
  /\ operation_ongoing' = FALSE
  /\ memory_read_signal' = FALSE
  /\ memory_write_signal' = FALSE
  /\ io_registers_read' = FALSE
  /\ io_registers_write' = FALSE
  /\ UNCHANGED mmuBus

\* Faulty variant: the strobe of a store to an I/O register is left on.
MmuFinishLeavingStrobe(cpu, bus) ==
  /\ operation_ongoing
  /\ OperationCompleted(bus)
  /\ out_data' = IF io_registers_read \/ io_registers_write
                 THEN bus.io_read_bus ELSE bus.memory_out
  /\ completed' = TRUE
  /\ operation_ongoing' = FALSE
  /\ memory_read_signal' = FALSE
  /\ memory_write_signal' = FALSE
  /\ io_registers_read' = FALSE
  /\ UNCHANGED <<mmuBus, io_registers_write>>

MmuFinish(cpu, bus) ==
  /\ operation_ongoing
  /\ OperationCompleted(bus)
  /\ out_data' = IF io_registers_read \/ io_registers_write
                 THEN bus.io_read_bus ELSE bus.memory_out
  /\ completed' = TRUE
  /\ operation_ongoing' = FALSE
  /\ memory_read_signal' = FALSE
  /\ memory_write_signal' = FALSE
  /\ io_registers_read' = FALSE
  /\ io_registers_write' = FALSE
  /\ UNCHANGED mmuBus

MmuIdle(cpu, bus) ==
  /\ ~cpu.execute
  /\ ~operation_ongoing
  /\ completed' = FALSE
  /\ UNCHANGED <<out_data, operation_ongoing, mmuStrobes, mmuBus>>

\* The return address bytes answer at once.
MmuInterruptSpace(cpu, bus) ==
  /\ Accepts(cpu)
  /\ InterruptSpace(cpu.address)
  /\ memory_address' = cpu.address
  /\ io_registers_address' = IoIndex(cpu.address)
  /\ out_data' = IF cpu.write THEN out_data
                 ELSE spec_mem_interrupt[Val(cpu.address)]
  /\ completed' = TRUE
  /\ UNCHANGED <<operation_ongoing, mmuStrobes, memory_in, io_registers_write_bus>>

\* An operation on a bus starts; completed keeps whatever value it has.
MmuStart(cpu, bus) ==
  LET io == IoSpace(cpu.address) IN
  /\ Accepts(cpu)
  /\ ~InterruptSpace(cpu.address)
  /\ memory_address' = cpu.address
  /\ io_registers_address' = IoIndex(cpu.address)
  /\ operation_ongoing' = TRUE
  /\ io_registers_write' = (io_registers_write \/ (io /\ cpu.write))
  /\ io_registers_read' = (io_registers_read \/ (io /\ ~cpu.write))
  /\ memory_write_signal' = (memory_write_signal \/ (~io /\ cpu.write))
  /\ memory_read_signal' = (memory_read_signal \/ (~io /\ ~cpu.write))
  /\ io_registers_write_bus' = IF io /\ cpu.write THEN cpu.in_data
                               ELSE io_registers_write_bus
  /\ memory_in' = IF ~io /\ cpu.write THEN cpu.in_data ELSE memory_in
  /\ UNCHANGED <<out_data, completed>>

\* Faulty variant: the store of the same cycle overrides its byte.
ReturnAddressClockStoreLast(cpu) ==
  spec_mem_interrupt' =
    [i \in {0, 1} |->
       IF Accepts(cpu) /\ cpu.write /\ InterruptSpace(cpu.address) /\ Val(cpu.address) = i
       THEN cpu.in_data
       ELSE IF ~cpu.set_return THEN spec_mem_interrupt[i]
       ELSE IF i = 0 THEN HighByte(cpu.return_address) ELSE LowByte(cpu.return_address)]

\* An interrupt's return address overrides a store in the same cycle.
ReturnAddressClock(cpu) ==
  spec_mem_interrupt' =
    IF cpu.set_return
    THEN [i \in {0, 1} |-> IF i = 0 THEN HighByte(cpu.return_address)
                           ELSE LowByte(cpu.return_address)]
    ELSE IF Accepts(cpu) /\ cpu.write /\ InterruptSpace(cpu.address)
         THEN [spec_mem_interrupt EXCEPT ![Val(cpu.address)] = cpu.in_data]
         ELSE spec_mem_interrupt

MmuClock(cpu, bus) ==
  /\ \/ MmuWait(cpu, bus)
     \/ MmuFinish(cpu, bus)
     \/ MmuIdle(cpu, bus)
     \/ MmuInterruptSpace(cpu, bus)
     \/ MmuStart(cpu, bus)
  /\ ReturnAddressClock(cpu)

\* The unit works exactly while it drives one strobe of one bus, never two: a
\* strobe left over would repeat a store (mmu.v).
StrobeDiscipline ==
  /\ operation_ongoing <=> \E n \in 1..4 : mmuStrobes[n]
  /\ \A m, n \in 1..4 : mmuStrobes[m] /\ mmuStrobes[n] => m = n
=============================================================================
