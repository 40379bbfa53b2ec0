-------------------------------- MODULE Jit --------------------------------
(***************************************************************************)
(* The code that CoreState::jit generates from a program, as it runs: the  *)
(* machine's registers and flags live in the host's, its memory in a copy, *)
(* and the control register in the host register CL, which nothing loads.  *)
(* Entering copies the machine in, leaving copies it back; a program       *)
(* leaves at its end or at a CTR that sets a stop bit.                     *)
(*                                                                         *)
(* The variables of Isa are the CoreState the code works for.              *)
(***************************************************************************)
EXTENDS Isa

CONSTANTS
  DataBanks,              \* the segments within data_memory_size
  Leftovers               \* bytes that host functions may leave in CL

ASSUME DataBanksAssumption ==
  /\ DataBanks \subseteq Banks
  /\ Zero \in DataBanks
  /\ memorySegmented => DataBanks # {Zero}
ASSUME LeftoversAssumption == Leftovers \subseteq Word /\ Leftovers # {}

VARIABLES
  native,                 \* idle, running, leaving, refused to enter, or escaped from the code
  position,               \* the instruction whose code runs next
  instruction_to_run,     \* where the next entry resumes
  host_regs, host_zf, host_cf,
  cl,                     \* the control register, as far as the code has one
  data_memory

jitVars ==
  <<native, position, instruction_to_run, host_regs, host_zf, host_cf, cl, data_memory>>

JitTypeOK ==
  /\ native \in {"idle", "running", "leaving", "refused", "escaped"}
  /\ position \in 0..PcMod
  /\ instruction_to_run \in Address
  /\ host_regs \in [Bits -> Word]
  /\ host_zf \in BOOLEAN
  /\ host_cf \in BOOLEAN
  /\ cl \in Word
  /\ data_memory \in [DataBanks \X Word -> Word]

\* No executable exists: its memory holds nothing anyone reads.
NoBytes == [cell \in DataBanks \X Word |-> Zero]
NoRegisters == [r \in Bits |-> Zero]

JitInit ==
  /\ native = "idle"
  /\ position = 0
  /\ instruction_to_run = 0
  /\ host_regs = NoRegisters
  /\ host_zf = FALSE
  /\ host_cf = FALSE
  /\ cl = Zero
  /\ data_memory = NoBytes

RomSize == CHOOSE n \in 0..PcMod : DOMAIN rom = 0..n-1

\* Conditions with a mnemonic: T, F, NBE, NC, C, NE and E.
KnownConditions ==
  {FlagValues, {}, {"ZF_FALSE", "CF_FALSE"}}
    \cup {FlagValues \ {v} : v \in FlagValues}

Compiles ==
  \A n \in DOMAIN rom : rom[n].op = "NOP" \/ rom[n].cond \in KnownConditions

(***************************************************************************)
(* Entering and leaving.                                                   *)
(***************************************************************************)

\* CL keeps what jitLoadState happens to leave in it.
JitEnter ==
  /\ native = "idle"
  /\ Compiles
  /\ pc <= RomSize
  /\ native' = "running"
  /\ position' = pc
  /\ instruction_to_run' = pc
  /\ host_regs' = regs
  /\ host_zf' = zf
  /\ host_cf' = cf
  /\ data_memory' = [cell \in DataBanks \X Word |-> mem[cell]]
  /\ cl' \in Leftovers
  /\ UNCHANGED <<ctr, machineVars>>

\* Either a condition has no mnemonic and the generator throws, which nobody
\* catches, or the entry jump misses the table of instructions.
JitEnterFails ==
  /\ native = "idle"
  /\ ~Compiles \/ pc > RomSize
  /\ native' = "refused"
  /\ UNCHANGED <<position, instruction_to_run, host_regs, host_zf, host_cf, cl,
                 data_memory, ctr, machineVars>>

\* Past the last instruction the code records its end.
JitEnd ==
  /\ native = "running"
  /\ position = RomSize
  /\ instruction_to_run' = RomSize % PcMod
  /\ native' = "leaving"
  /\ UNCHANGED <<position, host_regs, host_zf, host_cf, cl, data_memory, ctr, machineVars>>

\* jitSaveState: everything but the control register. The executable is gone
\* with the command that made it.
JitLeave ==
  /\ native = "leaving"
  /\ native' = "idle"
  /\ mem' = [cell \in Cells |-> IF cell \in DataBanks \X Word
                                THEN data_memory[cell] ELSE mem[cell]]
  /\ regs' = host_regs
  /\ zf' = host_zf
  /\ cf' = host_cf
  /\ pc' = instruction_to_run
  /\ position' = 0
  /\ instruction_to_run' = 0
  /\ host_regs' = NoRegisters
  /\ host_zf' = FALSE
  /\ host_cf' = FALSE
  /\ cl' = Zero
  /\ data_memory' = NoBytes
  /\ UNCHANGED ctr

(***************************************************************************)
(* The code of each instruction.                                           *)
(***************************************************************************)
HostCurrent == ProgramAt(position)
HostA == ReadMask(host_regs, HostCurrent.a)
HostB == ReadMask(host_regs, HostCurrent.b)

Running == native = "running" /\ position \in DOMAIN rom
Executes(ops) ==
  Running /\ HostCurrent.op \in ops /\ Passes(HostCurrent.cond, host_zf, host_cf)

\* NAD negates the conjunction instead of complementing it, and the host takes
\* five bits of a shift count.
JitResult(op, x, y, imm) ==
  CASE op = "NAD" -> WordOf(-Val(x \cap y))
    [] op = "SHR" -> {i \in Bits : i + (Val(imm) % 32) \in x}
    [] OTHER -> AluResult(op, x, y, imm)

JitAlu ==
  /\ Executes(AluOps)
  /\ host_regs' = WriteMask(host_regs, HostCurrent.a,
                            JitResult(HostCurrent.op, HostA, HostB, HostCurrent.b))
  /\ host_zf' = IF HostCurrent.op = "CMP" THEN CompareZero(HostA, HostB) ELSE host_zf
  /\ host_cf' = IF HostCurrent.op = "CMP" THEN CompareCarry(HostA, HostB) ELSE host_cf
  /\ position' = position + 1
  /\ UNCHANGED <<native, instruction_to_run, cl, data_memory>>

JitWrite ==
  /\ Executes({"SET", "CID"})
  /\ host_regs' = IF HostCurrent.op = "SET"
                  THEN WriteMask(host_regs, HostCurrent.a, HostCurrent.b)
                  ELSE WriteMask(host_regs, CidRegs, Zero)
  /\ position' = position + 1
  /\ UNCHANGED <<native, instruction_to_run, host_zf, host_cf, cl, data_memory>>

\* Faulty variant: peripherals answer in every segment.
JitAtPeripheralEverywhere(address) ==
  /\ address \in ports
  /\ ~(memorySegmented /\ address = SEGMENT_REGISTER_ADDRESS)

\* The segment register, where there is one, takes precedence over peripherals.
JitAtPeripheral(address) ==
  /\ address \in ports
  /\ ~(memorySegmented /\ address = SEGMENT_REGISTER_ADDRESS)
  /\ SegmentOf(data_memory) = Zero

InDataMemory(address) == CellOf(data_memory, address) \in DOMAIN data_memory

\* A peripheral is a host function, which may leave anything in CL.
JitLdm ==
  /\ Executes({"LDM"})
  /\ \/ /\ JitAtPeripheral(HostB)
        /\ host_regs' = WriteMask(host_regs, HostCurrent.a, pins)
        /\ cl' \in Leftovers
     \/ /\ ~JitAtPeripheral(HostB)
        /\ InDataMemory(HostB)
        /\ host_regs' = WriteMask(host_regs, HostCurrent.a,
                                  data_memory[CellOf(data_memory, HostB)])
        /\ UNCHANGED cl
  /\ position' = position + 1
  /\ UNCHANGED <<native, instruction_to_run, host_zf, host_cf, data_memory>>

JitStm ==
  /\ Executes({"STM"})
  /\ \/ /\ JitAtPeripheral(HostA)
        /\ cl' \in Leftovers
        /\ UNCHANGED data_memory
     \/ /\ ~JitAtPeripheral(HostA)
        /\ InDataMemory(HostA)
        /\ data_memory' = [data_memory EXCEPT ![CellOf(data_memory, HostA)] = HostB]
        /\ UNCHANGED cl
  /\ position' = position + 1
  /\ UNCHANGED <<native, instruction_to_run, host_regs, host_zf, host_cf>>

HostTarget ==
  IF HostCurrent.op = "JPI" THEN JumpAddress(HostCurrent.a, HostCurrent.b)
  ELSE JumpAddress(HostA, HostB)

JitJump ==
  /\ Executes(JumpOps)
  /\ HostTarget <= RomSize
  /\ position' = HostTarget
  /\ UNCHANGED <<native, instruction_to_run, host_regs, host_zf, host_cf, cl, data_memory>>

\* Undefined: a jump past the table of instructions, an access past data memory.
JitEscapes ==
  /\ \/ Executes(JumpOps) /\ HostTarget > RomSize
     \/ Executes({"LDM"}) /\ ~JitAtPeripheral(HostB) /\ ~InDataMemory(HostB)
     \/ Executes({"STM"}) /\ ~JitAtPeripheral(HostA) /\ ~InDataMemory(HostA)
  /\ native' = "escaped"
  /\ UNCHANGED <<position, instruction_to_run, host_regs, host_zf, host_cf, cl,
                 data_memory>>

\* Faulty variant: execution resumes at the CTR itself.
JitCtrResumesAtItself ==
  /\ Executes({"CTR"})
  /\ cl' = CtrUpdate(cl, HostA, HostCurrent.b)
  /\ instruction_to_run' = position
  /\ position' = position + 1
  /\ native' = IF cl' \cap StopBits # Zero THEN "leaving" ELSE "running"
  /\ UNCHANGED <<host_regs, host_zf, host_cf, data_memory>>

JitCtr ==
  /\ Executes({"CTR"})
  /\ cl' = CtrUpdate(cl, HostA, HostCurrent.b)
  /\ instruction_to_run' = (position + 1) % PcMod
  /\ position' = position + 1
  /\ native' = IF cl' \cap StopBits # Zero THEN "leaving" ELSE "running"
  /\ UNCHANGED <<host_regs, host_zf, host_cf, data_memory>>

JitSkip ==
  /\ Running
  /\ HostCurrent.op = "NOP" \/ ~Passes(HostCurrent.cond, host_zf, host_cf)
  /\ position' = position + 1
  /\ UNCHANGED <<native, instruction_to_run, host_regs, host_zf, host_cf, cl, data_memory>>

JitInstruction ==
  /\ JitAlu \/ JitWrite \/ JitLdm \/ JitStm \/ JitJump \/ JitEscapes \/ JitCtr \/ JitSkip
  /\ UNCHANGED <<ctr, machineVars>>

(***************************************************************************)
(* The machine that the running code stands for.                           *)
(***************************************************************************)
InNative == native \in {"running", "leaving", "escaped"}

VisibleMemory ==
  [cell \in Cells |-> IF InNative /\ cell \in DataBanks \X Word
                      THEN data_memory[cell] ELSE mem[cell]]

Visible == INSTANCE Isa WITH
  regs <- IF InNative THEN host_regs ELSE regs,
  zf <- IF InNative THEN host_zf ELSE zf,
  cf <- IF InNative THEN host_cf ELSE cf,
  pc <- IF InNative THEN position % PcMod ELSE pc,
  mem <- VisibleMemory
=============================================================================
