----------------------------- MODULE CoreClaims -----------------------------
(***************************************************************************)
(* What the tests and the documents of the repository say of the core and  *)
(* the core does not do. Each is refuted by a run of its own.              *)
(***************************************************************************)
EXTENDS CoreRefinement

\* A store asked for in the cycle in which a load from memory finishes starts at
\* that clock edge: the unit test of mmu.v for consecutive reads and writes
\* expects the write strobe after it.
ConsecutiveStoreStarts ==
  [][/\ operation_ongoing /\ memory_read_signal /\ memory_ready
     /\ mmu_signal /\ instruction_s1.op = "STM"
     /\ ~InterruptSpace(register_read_bus_a) /\ ~IoSpace(register_read_bus_a)
     => memory_write_signal']_vars

\* An interrupt jumps to the handler at instruction address 1: its first
\* instruction is the next one in stage 1, or the next one to be fetched (cu.v).
HandlerEntered ==
  [][interrupt_signal =>
       \/ instruction_s1' = InstructionAt(1) /\ pc' = 1
       \/ program_counter' = 1]_vars

\* The register interlock covers CID like every other instruction: an executing
\* instruction never reads a value a CID ahead of it has yet to clear.
CidInterlocked == SequentialOperands
=============================================================================
