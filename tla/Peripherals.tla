---------------------------- MODULE Peripherals ----------------------------
(***************************************************************************)
(* The two slaves of the memory management unit: the synchronous data      *)
(* memory (basic_synchronized_ram.v) and the I/O register file of the      *)
(* GPIO port (peripheal_control.v), one step per clock edge.               *)
(***************************************************************************)
EXTENDS Mmu

VARIABLES
  memory,                  \* data memory
  memory_out,              \* its output register
  last_control_signal,     \* what the bus carried in the previous cycle
  io_registers_ready,
  io_registers_read_bus,
  gpio_a_write,
  gpio_a_ctr,
  gpio_a_read              \* the level of the input pins

memoryVars == <<memory, memory_out, last_control_signal>>
ioVars == <<io_registers_ready, io_registers_read_bus, gpio_a_write, gpio_a_ctr>>

ControlSignal == [address: Word, in: Word, read: BOOLEAN, write: BOOLEAN]

PeripheralsTypeOK ==
  /\ memory \in [Word -> Word]
  /\ memory_out \in Word
  /\ last_control_signal \in ControlSignal
  /\ io_registers_ready \in BOOLEAN
  /\ io_registers_read_bus \in Word
  /\ gpio_a_write \in Word
  /\ gpio_a_ctr \in Word
  /\ gpio_a_read \in Word

PeripheralsInit ==
  /\ \E x \in PowerUp : memory = [address \in Word |-> x] /\ memory_out = x
  /\ last_control_signal =
       [address |-> Zero, in |-> Zero, read |-> FALSE, write |-> FALSE]
  /\ io_registers_ready = TRUE
  /\ io_registers_read_bus = Zero
  /\ gpio_a_write = Zero
  /\ gpio_a_ctr = Zero

current_control_signal ==
  [address |-> memory_address, in |-> memory_in,
   read |-> memory_read_signal, write |-> memory_write_signal]

\* The memory is ready once the bus has carried the same request for a cycle.
memory_ready == current_control_signal = last_control_signal

MemoryClock ==
  /\ memory' = IF memory_write_signal
               THEN [memory EXCEPT ![memory_address] = memory_in] ELSE memory
  /\ memory_out' = IF memory_read_signal THEN memory[memory_address] ELSE memory_out
  /\ last_control_signal' = current_control_signal

\* Faulty variant: stores to the direction register get no answer.
IoAnswersWithoutDirection ==
  \/ io_registers_read /\ io_registers_address \in {0, 1, 2}
  \/ io_registers_write /\ io_registers_address = 1

\* I/O register 0 is the input port and only answers reads.
IoAnswers ==
  \/ io_registers_read /\ io_registers_address \in {0, 1, 2}
  \/ io_registers_write /\ io_registers_address \in {1, 2}

IoRegister(n) ==
  CASE n = 0 -> gpio_a_read [] n = 1 -> gpio_a_write [] n = 2 -> gpio_a_ctr

IoClock ==
  /\ io_registers_ready' = IoAnswers
  /\ io_registers_read_bus' =
       IF io_registers_read /\ io_registers_address \in {0, 1, 2}
       THEN IoRegister(io_registers_address) ELSE io_registers_read_bus
  /\ gpio_a_write' = IF io_registers_write /\ io_registers_address = 1
                     THEN io_registers_write_bus ELSE gpio_a_write
  /\ gpio_a_ctr' = IF io_registers_write /\ io_registers_address = 2
                   THEN io_registers_write_bus ELSE gpio_a_ctr

PeripheralReply ==
  [memory_ready |-> memory_ready, memory_out |-> memory_out,
   io_ready |-> io_registers_ready, io_read_bus |-> io_registers_read_bus]
=============================================================================
