-------------------------------- MODULE Isa --------------------------------
(***************************************************************************)
(* The instruction set as a sequential machine: what a program means when  *)
(* every instruction finishes before the next one starts. This is the      *)
(* machine of the interpreter's apply functions (instruction.hpp), with    *)
(* the control register that CTR writes by mask (cu.v).                    *)
(*                                                                         *)
(* The interpreter runs it (Emulator), the native code generator and the   *)
(* pipelined core are shown to implement it (Jit, CoreRefinement).         *)
(***************************************************************************)
EXTENDS MicroArch

CONSTANTS
  Banks,               \* segments of data memory: only Zero, or several
  BootPc               \* the first instruction address

ASSUME BanksAssumption == Banks = {Zero} \/ Banks = Word
ASSUME BootAssumption == BootPc \in Address

VARIABLES
  rom,                 \* program memory
  ports,               \* data addresses that a peripheral answers
  pins,                \* what a peripheral answers to the next load
  regs, zf, cf, ctr, pc,
  mem                  \* data memory: a byte for each segment and address

machineVars == <<regs, zf, cf, pc, mem>>

Cells == Banks \X Word

IsaTypeOK ==
  /\ ports \subseteq Word
  /\ pins \in Word
  /\ regs \in [Bits -> Word]
  /\ zf \in BOOLEAN
  /\ cf \in BOOLEAN
  /\ ctr \in Word
  /\ pc \in Address
  /\ mem \in [Cells -> Word]

IsaInit ==
  /\ regs = [r \in Bits |-> Zero]
  /\ zf = FALSE
  /\ cf = FALSE
  /\ ctr = Zero
  /\ pc = BootPc
  /\ mem \in [Cells -> Word]

ProgramAt(address) == IF address \in DOMAIN rom THEN rom[address] ELSE Nop

Current == ProgramAt(pc)
Enabled(op) == Current.op = op /\ Passes(Current.cond, zf, cf)
Next1 == (pc + 1) % PcMod

A == ReadMask(regs, Current.a)
B == ReadMask(regs, Current.b)

(***************************************************************************)
(* Data memory. With several segments, one byte of segment 0 selects the   *)
(* segment, and that byte is at its address in every segment. Peripherals  *)
(* are in segment 0.                                                       *)
(***************************************************************************)
SEGMENT_REGISTER_ADDRESS == WordOf(3)

memorySegmented == Banks # {Zero}

SegmentOf(memory) ==
  IF memorySegmented THEN memory[<<Zero, SEGMENT_REGISTER_ADDRESS>>] ELSE Zero

CellOf(memory, address) ==
  <<IF address = SEGMENT_REGISTER_ADDRESS THEN Zero ELSE SegmentOf(memory), address>>

AtPeripheral(address) == address \in ports /\ SegmentOf(mem) = Zero

(***************************************************************************)
(* The instructions, each as it applies to the machine.                    *)
(***************************************************************************)
Alu ==
  /\ Current.op \in AluOps \ {"EXT"}
  /\ Passes(Current.cond, zf, cf)
  /\ regs' = WriteMask(regs, Current.a, AluResult(Current.op, A, B, Current.b))
  /\ zf' = IF Current.op = "CMP" THEN CompareZero(A, B) ELSE zf
  /\ cf' = IF Current.op = "CMP" THEN CompareCarry(A, B) ELSE cf
  /\ pc' = Next1
  /\ UNCHANGED mem

Set ==
  /\ Enabled("SET")
  /\ regs' = WriteMask(regs, Current.a, Current.b)
  /\ pc' = Next1
  /\ UNCHANGED <<zf, cf, mem>>

Cid ==
  /\ Enabled("CID")
  /\ regs' = WriteMask(regs, CidRegs, Zero)
  /\ pc' = Next1
  /\ UNCHANGED <<zf, cf, mem>>

Ldm ==
  /\ Enabled("LDM")
  /\ regs' = WriteMask(regs, Current.a,
                       IF AtPeripheral(B) THEN pins ELSE mem[CellOf(mem, B)])
  /\ pc' = Next1
  /\ UNCHANGED <<zf, cf, mem>>

\* What a peripheral does with a store is its own affair.
Stm ==
  /\ Enabled("STM")
  /\ mem' = IF AtPeripheral(A) THEN mem ELSE [mem EXCEPT ![CellOf(mem, A)] = B]
  /\ pc' = Next1
  /\ UNCHANGED <<regs, zf, cf>>

Jpi ==
  /\ Enabled("JPI")
  /\ pc' = JumpAddress(Current.a, Current.b)
  /\ UNCHANGED <<regs, zf, cf, mem>>

Jpr ==
  /\ Enabled("JPR")
  /\ pc' = JumpAddress(A, B)
  /\ UNCHANGED <<regs, zf, cf, mem>>

\* NOP, every instruction whose condition does not hold, and CTR, which only
\* writes the control register.
Skip ==
  /\ Current.op \in {"NOP", "CTR"} \/ ~Passes(Current.cond, zf, cf)
  /\ pc' = Next1
  /\ UNCHANGED <<regs, zf, cf, mem>>

Execute == Alu \/ Set \/ Cid \/ Ldm \/ Stm \/ Jpi \/ Jpr \/ Skip

\* CTR changes the bits of its mask and no others. A stopped machine executes
\* nothing.
Step ==
  /\ ctr \cap StopBits = Zero
  /\ Execute
  /\ ctr' = IF Enabled("CTR") THEN CtrUpdate(ctr, A, Current.b) ELSE ctr
  /\ UNCHANGED rom

\* The machine with its control register, and without.
IsaSpec == IsaInit /\ [][Step]_<<rom, ctr, machineVars>>
Executions == IsaInit /\ [][Execute]_machineVars
=============================================================================
