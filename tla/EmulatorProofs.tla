--------------------------- MODULE EmulatorProofs ---------------------------
(***************************************************************************)
(* Theorems about the emulator, for every width up to a byte, every set of *)
(* programs and everything the user may type.                              *)
(***************************************************************************)
EXTENDS Emulator, MicroArchProofs

(***************************************************************************)
(* Programs.                                                               *)
(***************************************************************************)

\* The size of a program is where its addresses end (CoreState::rom).
LEMMA RomSizeType ==
  ASSUME IsProgram(rom) PROVE RomSize \in 0..PcMod /\ DOMAIN rom = 0..RomSize-1
<1>1. \E n \in 0..PcMod : DOMAIN rom = 0..n-1
  BY PcModAssumption DEF IsProgram
<1> QED
  BY <1>1 DEF RomSize

\* Whatever runs is an instruction, and none is the extension point.
LEMMA ProgramAtType ==
  ASSUME IsProgram(rom), NEW address
  PROVE  /\ ProgramAt(address) \in Instruction
         /\ ProgramAt(address).op # "EXT"
<1>1. CASE address \in DOMAIN rom
  BY <1>1 DEF IsProgram, ProgramAt
<1>2. CASE address \notin DOMAIN rom
  BY <1>2, ZeroType DEF ProgramAt, Nop, Instruction, Ops
<1> QED
  BY <1>1, <1>2

\* The parts of an instruction.
LEMMA InstructionParts ==
  ASSUME NEW i \in Instruction PROVE i.a \in Word /\ i.b \in Word /\ i.op \in Ops
  BY DEF Instruction

\* An address in the current segment is a byte of data memory: there are all
\* segments that a byte selects, or only one.
LEMMA CellOfType ==
  ASSUME NEW memory \in [Cells -> Word], NEW w \in Word
  PROVE  SegmentOf(memory) \in Banks /\ CellOf(memory, w) \in Cells
<1>1. <<Zero, SEGMENT_REGISTER_ADDRESS>> \in Cells
  BY ZeroType, WordOfType, BanksAssumption DEF Cells, SEGMENT_REGISTER_ADDRESS
<1>2. Zero \in Banks
  BY ZeroType, BanksAssumption
<1>3. SegmentOf(memory) \in Banks
  BY <1>1, <1>2, BanksAssumption DEF SegmentOf, memorySegmented
<1> QED
  BY <1>2, <1>3 DEF CellOf, Cells

\* The bit that the end of the program sets is in the control byte.
LEMMA HaltBitType == HaltBit \in Bits
  BY WidthAssumption, ConsoleAssumption DEF HaltBit, Bits

\* A CTR leaves a byte in the control register.
LEMMA UpdateType ==
  ASSUME NEW c \in Word, NEW v \in Word, NEW m PROVE CtrUpdate(c, v, m) \in Word
  BY DEF CtrUpdate, Word

(***************************************************************************)
(* Type correctness.                                                       *)
(***************************************************************************)

\* The emulator starts well typed.
LEMMA InitType == Init => TypeOK
<1> SUFFICES ASSUME Init PROVE TypeOK
  OBVIOUS
<1>1. IsaTypeOK
  <2>1. pins \in Word
    BY ConsoleAssumption DEF Init
  <2> QED
    BY <2>1, ZeroType, BootAssumption DEF Init, IsaInit, IsaTypeOK
<1>2. JitTypeOK
  <2>1. NoRegisters \in [Bits -> Word] /\ NoBytes \in [DataBanks \X Word -> Word]
    BY ZeroType DEF NoRegisters, NoBytes
  <2>2. 0 \in Address /\ 0 \in 0..PcMod
    BY PcModAssumption DEF Address
  <2> QED
    BY <2>1, <2>2, ZeroType DEF Init, JitInit, JitTypeOK
<1>3. EmulatorTypeOK
  BY ConsoleAssumption DEF Init, EmulatorTypeOK
<1> QED
  BY <1>1, <1>2, <1>3 DEF TypeOK

\* An instruction of the sequential machine keeps the machine's types.
LEMMA ExecuteType ==
  ASSUME TypeOK, Execute
  PROVE  /\ regs' \in [Bits -> Word] /\ zf' \in BOOLEAN /\ cf' \in BOOLEAN
         /\ pc' \in Address /\ mem' \in [Cells -> Word]
<1> USE DEF TypeOK, IsaTypeOK, EmulatorTypeOK
<1>1. /\ Current \in Instruction /\ Current.op # "EXT"
      /\ Current.a \in Word /\ Current.b \in Word
  BY ProgramAtType, InstructionParts DEF Current
<1>2. A \in Word /\ B \in Word
  BY ReadMaskType DEF A, B
<1>3. Next1 \in Address
  BY PcModAssumption DEF Next1, Address
<1>4. CASE Alu
  <2>1. AluResult(Current.op, A, B, Current.b) \in Word
    BY <1>2, <1>4, AluResultType DEF Alu
  <2>2. regs' \in [Bits -> Word]
    BY <1>4, <2>1, WriteMaskType DEF Alu
  <2>3. zf' \in BOOLEAN /\ cf' \in BOOLEAN
    BY <1>2, <1>4, CompareType DEF Alu
  <2> QED
    BY <1>3, <1>4, <2>2, <2>3 DEF Alu
<1>5. CASE Set
  BY <1>1, <1>3, <1>5, WriteMaskType DEF Set
<1>6. CASE Cid
  BY <1>3, <1>6, WriteMaskType, ZeroType DEF Cid
<1>7. CASE Ldm
  <2>1. CellOf(mem, B) \in Cells
    BY <1>2, CellOfType
  <2>2. (IF AtPeripheral(B) THEN pins ELSE mem[CellOf(mem, B)]) \in Word
    BY <2>1
  <2> QED
    BY <1>3, <1>7, <2>2, WriteMaskType DEF Ldm
<1>8. CASE Stm
  BY <1>2, <1>3, <1>8 DEF Stm
<1>9. CASE Jpi
  BY <1>1, <1>9, JumpAddressType DEF Jpi
<1>10. CASE Jpr
  BY <1>2, <1>10, JumpAddressType DEF Jpr
<1>11. CASE Skip
  BY <1>3, <1>11 DEF Skip
<1> QED
  BY <1>4, <1>5, <1>6, <1>7, <1>8, <1>9, <1>10, <1>11 DEF Execute

\* The code of an instruction keeps the types of the host's state: whatever it
\* executes is an instruction of the program (CoreState::jit).
LEMMA JitInstructionType ==
  ASSUME TypeOK, JitInstruction PROVE JitTypeOK'
<1> USE DEF TypeOK, IsaTypeOK, EmulatorTypeOK, JitTypeOK
<1>1. /\ HostCurrent \in Instruction /\ HostCurrent.op # "EXT"
      /\ HostCurrent.a \in Word /\ HostCurrent.b \in Word
  BY ProgramAtType, InstructionParts DEF HostCurrent
<1>2. HostA \in Word /\ HostB \in Word
  BY ReadMaskType DEF HostA, HostB
<1>3. Running => position + 1 \in 0..PcMod
  BY RomSizeType, PcModAssumption DEF Running
<1>4. CASE JitAlu
  <2>1. JitResult(HostCurrent.op, HostA, HostB, HostCurrent.b) \in Word
    <3>1. WordOf(-Val(HostA \cap HostB)) \in Word
      BY WordOfType
    <3>2. {i \in Bits : i + (Val(HostCurrent.b) % 32) \in HostA} \in Word
      BY DEF Word
    <3>3. HostCurrent.op \in AluOps \ {"EXT"}
      BY <1>1, <1>4 DEF JitAlu, Executes
    <3>4. AluResult(HostCurrent.op, HostA, HostB, HostCurrent.b) \in Word
      BY <1>2, <3>3, AluResultType
    <3> QED
      BY <3>1, <3>2, <3>4 DEF JitResult
  <2>2. host_regs' \in [Bits -> Word]
    BY <1>4, <2>1, WriteMaskType DEF JitAlu
  <2>3. host_zf' \in BOOLEAN /\ host_cf' \in BOOLEAN
    BY <1>2, <1>4, CompareType DEF JitAlu
  <2> QED
    BY <1>3, <1>4, <2>2, <2>3 DEF JitAlu, Executes
<1>5. CASE JitWrite
  <2>1. host_regs' \in [Bits -> Word]
    BY <1>1, <1>5, WriteMaskType, ZeroType DEF JitWrite
  <2> QED
    BY <1>3, <1>5, <2>1 DEF JitWrite, Executes
<1>6. CASE JitLdm
  <2>1. host_regs' \in [Bits -> Word]
    <3>1. CASE JitAtPeripheral(HostB)
      BY <1>6, <3>1, WriteMaskType DEF JitLdm
    <3>2. CASE ~JitAtPeripheral(HostB)
      <4>1. data_memory[CellOf(data_memory, HostB)] \in Word
        BY <1>6, <3>2 DEF JitLdm, InDataMemory
      <4> QED
        BY <1>6, <3>2, <4>1, WriteMaskType DEF JitLdm
    <3> QED
      BY <3>1, <3>2
  <2>2. cl' \in Word
    BY <1>6, LeftoversAssumption DEF JitLdm
  <2> QED
    BY <1>3, <1>6, <2>1, <2>2 DEF JitLdm, Executes
<1>7. CASE JitStm
  <2>1. data_memory' \in [DataBanks \X Word -> Word]
    BY <1>2, <1>7 DEF JitStm
  <2>2. cl' \in Word
    BY <1>7, LeftoversAssumption DEF JitStm
  <2> QED
    BY <1>3, <1>7, <2>1, <2>2 DEF JitStm, Executes
<1>8. CASE JitJump
  <2>1. HostTarget \in Address
    BY <1>1, <1>2, JumpAddressType DEF HostTarget
  <2>2. HostTarget \in 0..PcMod
    BY <2>1, PcModAssumption DEF Address
  <2> QED
    BY <1>8, <2>2 DEF JitJump
<1>9. CASE JitEscapes
  BY <1>9 DEF JitEscapes
<1>10. CASE JitCtr
  <2>1. cl' \in Word
    BY <1>2, <1>10, UpdateType DEF JitCtr
  <2>2. (position + 1) % PcMod \in Address
    BY PcModAssumption DEF Address
  <2> QED
    BY <1>3, <1>10, <2>1, <2>2 DEF JitCtr, Executes
<1>11. CASE JitSkip
  BY <1>3, <1>11 DEF JitSkip
<1> QED
  BY <1>4, <1>5, <1>6, <1>7, <1>8, <1>9, <1>10, <1>11 DEF JitInstruction

\* Entering and leaving generated code keeps the types on both sides
\* (jitLoadState, jitSaveState).
LEMMA JitBoundaryType ==
  ASSUME TypeOK, JitEnter \/ JitEnterFails \/ JitEnd \/ JitLeave
  PROVE  /\ JitTypeOK'
         /\ regs' \in [Bits -> Word] /\ zf' \in BOOLEAN /\ cf' \in BOOLEAN
         /\ ctr' \in Word /\ pc' \in Address /\ mem' \in [Cells -> Word]
<1> USE DEF TypeOK, IsaTypeOK, EmulatorTypeOK, JitTypeOK, machineVars
<1>1. DataBanks \X Word \subseteq Cells
  BY DataBanksAssumption DEF Cells
<1>2. 0 \in Address /\ 0 \in 0..PcMod
  BY PcModAssumption DEF Address
<1>3. CASE JitEnter
  <2>1. data_memory' \in [DataBanks \X Word -> Word]
    BY <1>1, <1>3 DEF JitEnter
  <2>2. pc \in 0..PcMod
    BY PcModAssumption DEF Address
  <2> QED
    BY <1>3, <2>1, <2>2, LeftoversAssumption DEF JitEnter
<1>4. CASE JitEnterFails
  BY <1>4 DEF JitEnterFails
<1>5. CASE JitEnd
  <2>1. RomSize % PcMod \in Address
    BY RomSizeType, PcModAssumption DEF Address
  <2> QED
    BY <1>5, <2>1 DEF JitEnd
<1>6. CASE JitLeave
  <2>1. mem' \in [Cells -> Word]
    BY <1>1, <1>6 DEF JitLeave
  <2>2. NoRegisters \in [Bits -> Word] /\ NoBytes \in [DataBanks \X Word -> Word]
    BY ZeroType DEF NoRegisters, NoBytes
  <2> QED
    BY <1>2, <1>6, <2>1, <2>2, ZeroType DEF JitLeave
<1> QED
  BY <1>3, <1>4, <1>5, <1>6

\* Every step of the emulator keeps its types.
LEMMA StepType == TypeOK /\ [Next]_vars => TypeOK'
<1> SUFFICES ASSUME TypeOK, [Next]_vars PROVE TypeOK'
  OBVIOUS
<1> USE DEF TypeOK, IsaTypeOK, EmulatorTypeOK, machineVars, jitVars, consoleVars
<1>1. CASE EditBreakpoints
  BY <1>1 DEF EditBreakpoints, JitTypeOK
<1>2. CASE EditPeripherals
  BY <1>2, ConsoleAssumption DEF EditPeripherals, JitTypeOK
<1>3. CASE SetMemory
  <2>1. mem' \in [Cells -> Word]
    BY <1>3, ConsoleAssumption DEF SetMemory
  <2> QED
    BY <1>3, <2>1 DEF SetMemory, JitTypeOK
<1>4. CASE Reset
  <2>1. mem' \in [Cells -> Word]
    BY <1>4, ZeroType DEF Reset
  <2>2. pc' \in Address
    BY <1>4, PcModAssumption DEF Reset, Address
  <2> QED
    BY <1>4, <2>1, <2>2, ZeroType DEF Reset, JitTypeOK
<1>5. CASE Start
  <2>1. ctr' \in Word
    BY <1>5 DEF Start, Word
  <2> QED
    BY <1>5, <2>1 DEF Start, JitTypeOK
<1>6. CASE StartJit
  <2>1. JitTypeOK' /\ IsaTypeOK'
    BY <1>6, JitBoundaryType DEF StartJit
  <2> QED
    BY <1>6, <2>1 DEF StartJit
<1>7. CASE Stop
  <2>1. ctr' \in Word
    BY <1>7, HaltBitType DEF Stop, Word
  <2> QED
    BY <1>7, <2>1 DEF Stop, JitTypeOK
<1>8. CASE Interpret
  <2>1. InterpretedCtr \in Word
    BY ReadMaskType, ZeroType DEF InterpretedCtr, Word, A
  <2>2. pins' \in Word /\ ctr' \in Word
    BY <1>8, <2>1, ConsoleAssumption DEF Interpret
  <2>3. JitTypeOK'
    BY <1>8 DEF Interpret, JitTypeOK
  <2>4. EmulatorTypeOK'
    BY <1>8 DEF Interpret
  <2>5. IsaTypeOK'
    BY <1>8, <2>2, ExecuteType DEF Interpret
  <2> QED
    BY <2>3, <2>4, <2>5
<1>9. CASE RunNative
  <2>1. JitTypeOK'
    BY <1>9, JitInstructionType DEF RunNative
  <2>2. pins' \in Word
    BY <1>9, ConsoleAssumption DEF RunNative
  <2> QED
    BY <1>9, <2>1, <2>2 DEF RunNative, JitInstruction
<1>10. CASE LeaveNative
  <2>1. JitTypeOK' /\ IsaTypeOK'
    BY <1>10, JitBoundaryType DEF LeaveNative
  <2> QED
    BY <1>10, <2>1 DEF LeaveNative
<1>11. CASE UNCHANGED vars
  BY <1>11 DEF vars, JitTypeOK
<1> QED
  BY <1>1, <1>2, <1>3, <1>4, <1>5, <1>6, <1>7, <1>8, <1>9, <1>10, <1>11
     DEF Next, Console, Loop

\* Registers, flags, memory, program counters and the control register keep
\* their width on both sides of the switch between interpreter and code.
THEOREM EmulatorTypeCorrect == Spec => []TypeOK
<1>1. Init => TypeOK
  BY InitType
<1>2. TypeOK /\ [Next]_vars => TypeOK'
  BY StepType
<1> QED
  BY <1>1, <1>2, PTL DEF Spec

(***************************************************************************)
(* Where the emulator is. The strengthening of the type invariant that the *)
(* other theorems need:                                                    *)
(*   - generated code and the interpreter's loop exclude each other;       *)
(*   - a run that has executed nothing yet is awake;                       *)
(*   - code that leaves resumes behind the last instruction it executed;   *)
(*   - code entered at the end of the program stays there.                 *)
(***************************************************************************)
Exclusive == native # "idle" => interpreting = "no"

Awake == interpreting # "no" /\ ~executed => ctr \cap StopBits = Zero

ResumesBehind == native = "leaving" => instruction_to_run = position % PcMod

EndStays ==
  native \in {"running", "leaving"} /\ pc \notin DOMAIN rom
    => position = RomSize /\ pc = RomSize

IInv == TypeOK /\ Exclusive /\ Awake /\ ResumesBehind /\ EndStays

\* The emulator starts at its console.
LEMMA InitInvariant == Init => IInv
  BY InitType DEF Init, JitInit, IInv, Exclusive, Awake, ResumesBehind, EndStays

\* Every step keeps the invariant.
LEMMA StepInvariant == IInv /\ [Next]_vars => IInv'
<1> SUFFICES ASSUME IInv, [Next]_vars PROVE IInv'
  OBVIOUS
<1> USE DEF machineVars, jitVars, consoleVars
<1>1. TypeOK'
  BY StepType DEF IInv
<1>2. rom' = rom
  BY DEF Next, Console, Loop, EditBreakpoints, EditPeripherals, SetMemory, Reset,
         Start, StartJit, Stop, Interpret, RunNative, LeaveNative, vars
<1>3. RomSize' = RomSize
  BY <1>2 DEF RomSize
<1> USE DEF IInv, Exclusive, Awake, ResumesBehind, EndStays
<1>4. CASE EditBreakpoints
  BY <1>1, <1>4 DEF EditBreakpoints, AtConsole
<1>5. CASE EditPeripherals
  BY <1>1, <1>5 DEF EditPeripherals, AtConsole
<1>6. CASE SetMemory
  BY <1>1, <1>6 DEF SetMemory, AtConsole
<1>7. CASE Reset
  BY <1>1, <1>7 DEF Reset, AtConsole
<1>8. CASE Start
  BY <1>1, <1>8 DEF Start, AtConsole, Zero
<1>9. CASE StartJit
  <2>1. CASE JitEnter
    <3>1. pc \notin DOMAIN rom => pc = RomSize
      BY <2>1, RomSizeType
         DEF JitEnter, TypeOK, IsaTypeOK, EmulatorTypeOK, Address
    <3> QED
      BY <1>1, <1>2, <1>3, <1>9, <2>1, <3>1 DEF StartJit, JitEnter, AtConsole
  <2>2. CASE JitEnterFails
    BY <1>1, <1>9, <2>2 DEF StartJit, JitEnterFails, AtConsole
  <2> QED
    BY <1>9, <2>1, <2>2 DEF StartJit
<1>10. CASE Stop
  BY <1>1, <1>10 DEF Stop
<1>11. CASE Interpret
  <2>1. native' = "idle"
    BY <1>11 DEF Interpret
  <2>2. interpreting' = "no" \/ executed'
    <3>1. interpreting \in {"run", "step"}
      BY <1>11 DEF Interpret, TypeOK, EmulatorTypeOK
    <3> QED
      BY <1>11, <3>1 DEF Interpret
  <2> QED
    BY <1>1, <2>1, <2>2
<1>12. CASE RunNative
  <2>1. JitInstruction /\ UNCHANGED <<rom, ctr, pc, interpreting, executed>>
    BY <1>12 DEF RunNative, JitInstruction
  <2>2. native = "running"
    BY <2>1 DEF JitInstruction, JitAlu, JitWrite, JitLdm, JitStm, JitJump, JitEscapes,
                JitCtr, JitSkip, Executes, Running
  <2>3. position \in DOMAIN rom
    BY <2>1 DEF JitInstruction, JitAlu, JitWrite, JitLdm, JitStm, JitJump, JitEscapes,
                JitCtr, JitSkip, Executes, Running
  <2>4. pc \in DOMAIN rom
    BY <2>2, <2>3, RomSizeType DEF TypeOK, EmulatorTypeOK
  <2>5. native' = "leaving" => instruction_to_run' = position' % PcMod
    BY <2>1, <2>2 DEF JitInstruction, JitAlu, JitWrite, JitLdm, JitStm, JitJump, JitEscapes,
                JitCtr, JitSkip
  <2> QED
    BY <1>1, <1>2, <2>1, <2>2, <2>4, <2>5
<1>13. CASE LeaveNative
  <2>1. CASE JitEnd
    BY <1>1, <1>2, <1>3, <1>13, <2>1 DEF LeaveNative, JitEnd
  <2>2. CASE JitLeave
    BY <1>1, <1>13, <2>2 DEF LeaveNative, JitLeave
  <2> QED
    BY <1>13, <2>1, <2>2 DEF LeaveNative
<1>14. CASE UNCHANGED vars
  BY <1>1, <1>2, <1>3, <1>14 DEF vars
<1> QED
  BY <1>4, <1>5, <1>6, <1>7, <1>8, <1>9, <1>10, <1>11, <1>12, <1>13, <1>14
     DEF Next, Console, Loop

\* The emulator never leaves the invariant.
LEMMA Invariant == Spec => []IInv
<1>1. Init => IInv
  BY InitInvariant
<1>2. IInv /\ [Next]_vars => IInv'
  BY StepInvariant
<1> QED
  BY <1>1, <1>2, PTL DEF Spec

(***************************************************************************)
(* What a step may do.                                                     *)
(***************************************************************************)

\* A run or a step is never used up by what stopped the one before it.
THEOREM RunsAdvance == Spec => EveryRunAdvances
<1>1. IInv /\ [Next]_vars => [Stop => executed \/ pc \notin DOMAIN rom]_vars
  BY DEF IInv, Awake, Stop, Leaves
<1> QED
  BY <1>1, Invariant, PTL DEF Spec, EveryRunAdvances

\* Past its end a program stays until it is reset, in the interpreter and in
\* generated code.
THEOREM ProgramEndIsFinal == Spec => EndIsFinal
<1>1. IInv /\ [Next]_vars => [pc \notin DOMAIN rom => pc' = pc \/ Reset]_vars
  <2> SUFFICES ASSUME IInv, Next, pc \notin DOMAIN rom PROVE pc' = pc \/ Reset
    BY DEF vars, machineVars
  <2> USE DEF machineVars, jitVars, consoleVars
  <2>1. CASE Console
    BY <2>1 DEF Console, EditBreakpoints, EditPeripherals, SetMemory, Start, StartJit,
                JitEnter, JitEnterFails
  <2>2. CASE Stop
    BY <2>2 DEF Stop
  <2>3. CASE Interpret
    BY <2>3 DEF Interpret, Leaves
  <2>4. CASE RunNative
    BY <2>4 DEF RunNative, JitInstruction
  <2>5. CASE LeaveNative /\ JitEnd
    BY <2>5 DEF JitEnd
  <2>6. CASE LeaveNative /\ JitLeave
    <3>1. position = pc /\ instruction_to_run = position % PcMod
      BY <2>6 DEF JitLeave, IInv, EndStays, ResumesBehind
    <3>2. instruction_to_run = pc
      BY <3>1, PcModAssumption DEF IInv, TypeOK, IsaTypeOK, Address
    <3> QED
      BY <2>6, <3>2 DEF JitLeave
  <2> QED
    BY <2>1, <2>2, <2>3, <2>4, <2>5, <2>6 DEF Next, Loop, LeaveNative
<1> QED
  BY <1>1, Invariant, PTL DEF Spec, EndIsFinal

(***************************************************************************)
(* Switching between interpreter and generated code is invisible: every    *)
(* step of the emulator is, for the machine that the user sees, an         *)
(* instruction of the sequential machine, an edit at the console or        *)
(* nothing.                                                                *)
(*                                                                         *)
(* The visible machine is an instance of Isa with its own names for the    *)
(* operators on data: they are the same operators.                         *)
(***************************************************************************)

\* Conditions, masks and jump targets mean the same on both machines.
LEMMA VisibleData ==
  /\ \A cond, z, c : Visible!Passes(cond, z, c) = Passes(cond, z, c)
  /\ \A bank, mask : Visible!ReadMask(bank, mask) = ReadMask(bank, mask)
  /\ \A bank, mask, v : Visible!WriteMask(bank, mask, v) = WriteMask(bank, mask, v)
  /\ \A hi, lo : Visible!JumpAddress(hi, lo) = JumpAddress(hi, lo)
  /\ \A x, y : Visible!CompareZero(x, y) = CompareZero(x, y)
  /\ \A x, y : Visible!CompareCarry(x, y) = CompareCarry(x, y)
  /\ \A address : Visible!ProgramAt(address) = ProgramAt(address)
<1>1. \A cond, z, c : Visible!Passes(cond, z, c) = Passes(cond, z, c)
  BY DEF Visible!Passes, Passes
<1>2. \A bank, mask : Visible!ReadMask(bank, mask) = ReadMask(bank, mask)
  BY DEF Visible!ReadMask, ReadMask, Visible!Bits, Bits
<1>3. \A bank, mask, v : Visible!WriteMask(bank, mask, v) = WriteMask(bank, mask, v)
  BY DEF Visible!WriteMask, WriteMask, Visible!Bits, Bits
<1>4. \A w : Visible!Val(w) = Val(w)
  BY DEF Visible!Val, Val
<1>5. \A hi, lo : Visible!JumpAddress(hi, lo) = JumpAddress(hi, lo)
  BY <1>4 DEF Visible!JumpAddress, JumpAddress
<1>6. \A x, y : Visible!CompareZero(x, y) = CompareZero(x, y)
  BY DEF Visible!CompareZero, CompareZero
<1>7. \A x, y : Visible!CompareCarry(x, y) = CompareCarry(x, y)
  BY <1>4 DEF Visible!CompareCarry, CompareCarry
<1>8. \A address : Visible!ProgramAt(address) = ProgramAt(address)
  BY DEF Visible!ProgramAt, ProgramAt, Visible!Nop, Nop, Visible!Zero, Zero
<1> QED
  BY <1>1, <1>2, <1>3, <1>5, <1>6, <1>7, <1>8

\* The arithmetic unit computes the same on both machines.
LEMMA VisibleAluResult ==
  ASSUME NEW op, NEW x, NEW y, NEW imm
  PROVE  Visible!AluResult(op, x, y, imm) = AluResult(op, x, y, imm)
<1>1. \A w : Visible!Val(w) = Val(w)
  BY DEF Visible!Val, Val
<1>2. \A n : Visible!WordOf(n) = WordOf(n)
  BY DEF Visible!WordOf, WordOf, Visible!Bits, Bits
<1> QED
  BY <1>1, <1>2 DEF Visible!AluResult, AluResult, Visible!Bits, Bits

\* So do the address of the segment register and the choice of a cell.
LEMMA VisibleSegments ==
  /\ Visible!memorySegmented = memorySegmented
  /\ Visible!SEGMENT_REGISTER_ADDRESS = SEGMENT_REGISTER_ADDRESS
  /\ \A memory : Visible!SegmentOf(memory) = SegmentOf(memory)
  /\ \A memory, w : Visible!CellOf(memory, w) = CellOf(memory, w)
<1>1. Visible!memorySegmented = memorySegmented
  BY DEF Visible!memorySegmented, memorySegmented, Visible!Zero, Zero
<1>2. Visible!SEGMENT_REGISTER_ADDRESS = SEGMENT_REGISTER_ADDRESS
  BY DEF Visible!SEGMENT_REGISTER_ADDRESS, SEGMENT_REGISTER_ADDRESS,
         Visible!WordOf, WordOf, Visible!Bits, Bits
<1>3. \A memory : Visible!SegmentOf(memory) = SegmentOf(memory)
  BY <1>1, <1>2 DEF Visible!SegmentOf, SegmentOf, Visible!Zero, Zero
<1>4. \A memory, w : Visible!CellOf(memory, w) = CellOf(memory, w)
  BY <1>2, <1>3 DEF Visible!CellOf, CellOf, Visible!Zero, Zero
<1> QED
  BY <1>1, <1>2, <1>3, <1>4

(***************************************************************************)
(* The interpreter.                                                        *)
(***************************************************************************)

\* At the console and in the interpreter the visible machine is the CoreState.
LEMMA IdleView ==
  ASSUME TypeOK, native \in {"idle", "refused"}
  PROVE  /\ VisibleMemory = mem
         /\ Visible!Current = Current
         /\ Visible!A = A
         /\ Visible!B = B
         /\ Visible!Next1 = Next1
         /\ \A w : Visible!AtPeripheral(w) = AtPeripheral(w)
<1>1. ~InNative
  BY DEF InNative
<1>2. VisibleMemory = mem
  BY <1>1 DEF VisibleMemory, TypeOK, IsaTypeOK
<1>3. Visible!Current = Current
  BY <1>1, VisibleData DEF Visible!Current, Current
<1>4. Visible!A = A /\ Visible!B = B
  BY <1>1, <1>3, VisibleData DEF Visible!A, A, Visible!B, B
<1>5. Visible!Next1 = Next1
  BY <1>1 DEF Visible!Next1, Next1
<1>6. \A w : Visible!AtPeripheral(w) = AtPeripheral(w)
  BY <1>1, <1>2, VisibleSegments DEF Visible!AtPeripheral, AtPeripheral, Visible!Zero, Zero
<1> QED
  BY <1>2, <1>3, <1>4, <1>5, <1>6

\* The interpreter executes the visible machine's instruction.
LEMMA InterpreterStep ==
  ASSUME TypeOK, TypeOK', native = "idle", native' = "idle", Execute
  PROVE  Visible!Execute
<1>1. ~InNative /\ ~InNative'
  BY DEF InNative
<1>2. /\ VisibleMemory = mem /\ VisibleMemory' = mem'
      /\ Visible!Current = Current
      /\ Visible!A = A /\ Visible!B = B /\ Visible!Next1 = Next1
      /\ \A w : Visible!AtPeripheral(w) = AtPeripheral(w)
  <2>1. VisibleMemory' = mem'
    BY <1>1 DEF VisibleMemory, TypeOK, IsaTypeOK
  <2> QED
    BY <2>1, IdleView
<1>3. Visible!CidRegs = CidRegs /\ Visible!Zero = Zero /\ Visible!AluOps = AluOps
  BY DEF Visible!CidRegs, CidRegs, Visible!Zero, Zero, Visible!AluOps, AluOps,
         Visible!Bits, Bits
<1> USE <1>1, <1>2, <1>3, VisibleData, VisibleSegments
<1>4. ASSUME NEW op, Enabled(op) PROVE Visible!Enabled(op)
  BY <1>4 DEF Enabled, Visible!Enabled
<1>5. CASE Alu
  BY <1>5, VisibleAluResult DEF Alu, Visible!Alu, Visible!Execute
<1>6. CASE Set
  BY <1>4, <1>6 DEF Set, Visible!Set, Visible!Execute
<1>7. CASE Cid
  BY <1>4, <1>7 DEF Cid, Visible!Cid, Visible!Execute
<1>8. CASE Ldm
  BY <1>4, <1>8 DEF Ldm, Visible!Ldm, Visible!Execute
<1>9. CASE Stm
  BY <1>4, <1>9 DEF Stm, Visible!Stm, Visible!Execute
<1>10. CASE Jpi
  BY <1>4, <1>10 DEF Jpi, Visible!Jpi, Visible!Execute
<1>11. CASE Jpr
  BY <1>4, <1>11 DEF Jpr, Visible!Jpr, Visible!Execute
<1>12. CASE Skip
  BY <1>12 DEF Skip, Visible!Skip, Visible!Execute
<1> QED
  BY <1>5, <1>6, <1>7, <1>8, <1>9, <1>10, <1>11, <1>12 DEF Execute

(***************************************************************************)
(* Generated code.                                                         *)
(***************************************************************************)

\* A peripheral sits on the segment register: the interpreter reaches it and
\* generated code does not.
SegmentRegisterShadowed == memorySegmented /\ SEGMENT_REGISTER_ADDRESS \in ports

\* While code runs, the visible machine is the one in the host.
LEMMA NativeView ==
  ASSUME IInv, Running
  PROVE  /\ InNative
         /\ position % PcMod = position
         /\ Visible!Current = HostCurrent
         /\ Visible!A = HostA
         /\ Visible!B = HostB
         /\ Visible!Next1 = (position + 1) % PcMod
<1>1. InNative
  BY DEF InNative, Running
<1>2. position % PcMod = position
  BY RomSizeType, PcModAssumption DEF Running, IInv, TypeOK, EmulatorTypeOK
<1>3. Visible!Current = HostCurrent
  BY <1>1, <1>2, VisibleData DEF Visible!Current, HostCurrent
<1>4. Visible!A = HostA /\ Visible!B = HostB
  BY <1>1, <1>3, VisibleData DEF Visible!A, HostA, Visible!B, HostB
<1>5. Visible!Next1 = (position + 1) % PcMod
  BY <1>1, <1>2 DEF Visible!Next1
<1> QED
  BY <1>1, <1>2, <1>3, <1>4, <1>5

\* The visible bytes are those of the copy, where the copy has them, and the
\* copy always has the segment register: the tables of generated code and the
\* conditions of the interpreter choose the same byte or peripheral
\* (CoreState::jit, InstLdm::apply).
LEMMA NativeMemory ==
  ASSUME TypeOK, InNative
  PROVE  /\ SegmentOf(VisibleMemory) = SegmentOf(data_memory)
         /\ \A w : CellOf(VisibleMemory, w) = CellOf(data_memory, w)
         /\ \A w \in Word : InDataMemory(w) =>
              /\ CellOf(data_memory, w) \in Cells
              /\ CellOf(data_memory, w) \in DataBanks \X Word
              /\ VisibleMemory[CellOf(data_memory, w)] = data_memory[CellOf(data_memory, w)]
         /\ ~SegmentRegisterShadowed =>
              \A w : Visible!AtPeripheral(w) <=> JitAtPeripheral(w)
<1>1. DataBanks \X Word \subseteq Cells
  BY DataBanksAssumption DEF Cells
<1>2. <<Zero, SEGMENT_REGISTER_ADDRESS>> \in DataBanks \X Word
  BY DataBanksAssumption, WordOfType DEF SEGMENT_REGISTER_ADDRESS
<1>3. SegmentOf(VisibleMemory) = SegmentOf(data_memory)
  BY <1>1, <1>2 DEF SegmentOf, VisibleMemory
<1>4. \A w : CellOf(VisibleMemory, w) = CellOf(data_memory, w)
  BY <1>3 DEF CellOf
<1>5. \A w \in Word : InDataMemory(w) => CellOf(data_memory, w) \in DataBanks \X Word
  BY DEF InDataMemory, TypeOK, JitTypeOK
<1>6. \A w \in Word : InDataMemory(w) =>
        VisibleMemory[CellOf(data_memory, w)] = data_memory[CellOf(data_memory, w)]
  BY <1>1, <1>5 DEF VisibleMemory
<1>7. ~SegmentRegisterShadowed => \A w : Visible!AtPeripheral(w) <=> JitAtPeripheral(w)
  <2>1. \A w : Visible!AtPeripheral(w) <=> w \in ports /\ SegmentOf(data_memory) = Zero
    BY <1>3, VisibleSegments DEF Visible!AtPeripheral, Visible!Zero, Zero
  <2> QED
    BY <2>1 DEF JitAtPeripheral, SegmentRegisterShadowed
<1> QED
  BY <1>1, <1>3, <1>4, <1>5, <1>6, <1>7

\* Shifts of a program stay below the five bits that the host takes, so but for
\* NAD the code of every operation has its result.
LEMMA JitResultIsAluResult ==
  ASSUME IsProgram(rom), Executes(AluOps \ {"NAD"}), NEW x, NEW y
  PROVE  JitResult(HostCurrent.op, x, y, HostCurrent.b)
           = AluResult(HostCurrent.op, x, y, HostCurrent.b)
<1>1. CASE HostCurrent.op = "SHR"
  <2>1. HostCurrent \in Instruction /\ Val(HostCurrent.b) < 32
    BY <1>1 DEF Executes, Running, HostCurrent, ProgramAt, IsProgram
  <2>2. Val(HostCurrent.b) \in Nat
    BY <2>1, ValType, InstructionParts
  <2>3. Val(HostCurrent.b) % 32 = Val(HostCurrent.b)
    BY <2>1, <2>2
  <2> QED
    BY <1>1, <2>3 DEF JitResult, AluResult
<1>2. CASE HostCurrent.op # "SHR"
  BY <1>2 DEF Executes, JitResult
<1> QED
  BY <1>1, <1>2

\* The code of an instruction is the visible machine's instruction, or leaves
\* the generated code for nobody knows where.
LEMMA NativeStep ==
  ASSUME IInv, JitInstruction, ~SegmentRegisterShadowed, ~Executes({"NAD"}),
         UNCHANGED <<rom, ports>>
  PROVE  Visible!Execute \/ UNCHANGED Visible!machineVars
<1> USE DEF machineVars
<1>1. Running
  BY DEF JitInstruction, JitAlu, JitWrite, JitLdm, JitStm, JitJump, JitEscapes,
         JitCtr, JitSkip, Executes
<1>2. InNative'
  BY <1>1 DEF InNative, Running, JitInstruction, JitAlu, JitWrite, JitLdm, JitStm,
              JitJump, JitEscapes, JitCtr, JitSkip
<1>3. /\ InNative
      /\ position % PcMod = position
      /\ Visible!Current = HostCurrent
      /\ Visible!A = HostA /\ Visible!B = HostB
      /\ Visible!Next1 = (position + 1) % PcMod
  BY <1>1, NativeView
<1>4. /\ HostCurrent \in Instruction /\ HostCurrent.op # "EXT"
      /\ HostA \in Word /\ HostB \in Word
  BY ProgramAtType, ReadMaskType DEF HostCurrent, HostA, HostB, IInv, TypeOK, EmulatorTypeOK
<1>5. UNCHANGED mem
  BY DEF JitInstruction
<1>6. UNCHANGED data_memory => UNCHANGED VisibleMemory
  BY <1>2, <1>3, <1>5 DEF VisibleMemory
<1>7. Visible!CidRegs = CidRegs /\ Visible!Zero = Zero /\ Visible!AluOps = AluOps
  BY DEF Visible!CidRegs, CidRegs, Visible!Zero, Zero, Visible!AluOps, AluOps,
         Visible!Bits, Bits
<1>8. ASSUME NEW op, Executes({op}) PROVE Visible!Enabled(op)
  BY <1>3, <1>8, VisibleData DEF Executes, Visible!Enabled
<1>9. CASE JitAlu
  <2>1. HostCurrent.op \in AluOps \ {"EXT"} /\ Executes(AluOps \ {"NAD"})
    BY <1>4, <1>9 DEF JitAlu, Executes
  <2>2. JitResult(HostCurrent.op, HostA, HostB, HostCurrent.b)
          = Visible!AluResult(HostCurrent.op, HostA, HostB, HostCurrent.b)
    BY <2>1, JitResultIsAluResult, VisibleAluResult DEF IInv, TypeOK, EmulatorTypeOK
  <2>3. Visible!Alu
    BY <1>2, <1>3, <1>6, <1>7, <1>9, <2>1, <2>2, VisibleData
       DEF JitAlu, Executes, Visible!Alu
  <2> QED
    BY <2>3 DEF Visible!Execute
<1>10. CASE JitWrite
  <2>1. CASE HostCurrent.op = "SET"
    <3>1. Visible!Enabled("SET")
      BY <1>8, <1>10, <2>1 DEF JitWrite, Executes
    <3>2. Visible!Set
      BY <1>2, <1>3, <1>6, <1>10, <2>1, <3>1, VisibleData DEF JitWrite, Visible!Set
    <3> QED
      BY <3>2 DEF Visible!Execute
  <2>2. CASE HostCurrent.op # "SET"
    <3>1. Visible!Enabled("CID")
      BY <1>8, <1>10, <2>2 DEF JitWrite, Executes
    <3>2. Visible!Cid
      BY <1>2, <1>3, <1>6, <1>7, <1>10, <2>2, <3>1, VisibleData DEF JitWrite, Visible!Cid
    <3> QED
      BY <3>2 DEF Visible!Execute
  <2> QED
    BY <2>1, <2>2
<1>11. CASE JitLdm
  <2>1. Visible!Enabled("LDM")
    BY <1>8, <1>11 DEF JitLdm
  <2>2. Visible!AtPeripheral(HostB) <=> JitAtPeripheral(HostB)
    BY <1>3, NativeMemory DEF IInv
  <2>3. ~JitAtPeripheral(HostB) =>
          Visible!CellOf(VisibleMemory, HostB) = CellOf(data_memory, HostB)
          /\ VisibleMemory[CellOf(data_memory, HostB)]
               = data_memory[CellOf(data_memory, HostB)]
    BY <1>3, <1>4, <1>11, NativeMemory, VisibleSegments DEF JitLdm, IInv
  <2>4. Visible!Ldm
    BY <1>2, <1>3, <1>6, <1>11, <2>1, <2>2, <2>3, VisibleData DEF JitLdm, Visible!Ldm
  <2> QED
    BY <2>4 DEF Visible!Execute
<1>12. CASE JitStm
  <2>1. Visible!Enabled("STM")
    BY <1>8, <1>12 DEF JitStm
  <2>2. Visible!AtPeripheral(HostA) <=> JitAtPeripheral(HostA)
    BY <1>3, NativeMemory DEF IInv
  <2>3. CASE JitAtPeripheral(HostA)
    <3>1. Visible!Stm
      BY <1>2, <1>3, <1>6, <1>12, <2>1, <2>2, <2>3 DEF JitStm, Visible!Stm
    <3> QED
      BY <3>1 DEF Visible!Execute
  <2>4. CASE ~JitAtPeripheral(HostA)
    <3> DEFINE cell == CellOf(data_memory, HostA)
    <3>1. cell \in Cells /\ cell \in DataBanks \X Word
      BY <1>3, <1>4, <1>12, <2>4, NativeMemory DEF JitStm, IInv
    <3>2. Visible!CellOf(VisibleMemory, HostA) = cell
      BY <1>3, NativeMemory, VisibleSegments DEF IInv
    <3>3. VisibleMemory' = [VisibleMemory EXCEPT ![cell] = HostB]
      <4>1. data_memory' = [data_memory EXCEPT ![cell] = HostB]
        BY <1>12, <2>4 DEF JitStm
      <4>2. data_memory \in [DataBanks \X Word -> Word]
        BY DEF IInv, TypeOK, JitTypeOK
      <4> QED
        BY <1>2, <1>3, <1>5, <3>1, <4>1, <4>2 DEF VisibleMemory
    <3>4. Visible!Stm
      <4> HIDE DEF cell
      <4> QED
        BY <1>2, <1>3, <1>12, <2>1, <2>2, <2>4, <3>2, <3>3 DEF JitStm, Visible!Stm
    <3> QED
      BY <3>4 DEF Visible!Execute
  <2> QED
    BY <2>3, <2>4
<1>13. CASE JitJump
  <2>1. HostTarget \in Address
    BY <1>4, JumpAddressType, InstructionParts DEF HostTarget
  <2>2. position' % PcMod = HostTarget
    BY <1>13, <2>1, PcModAssumption DEF JitJump, Address
  <2>3. CASE HostCurrent.op = "JPI"
    <3>1. Visible!Enabled("JPI")
      BY <1>8, <1>13, <2>3 DEF JitJump, Executes
    <3>2. Visible!Jpi
      BY <1>2, <1>3, <1>6, <1>13, <2>2, <2>3, <3>1, VisibleData
         DEF JitJump, HostTarget, Visible!Jpi
    <3> QED
      BY <3>2 DEF Visible!Execute
  <2>4. CASE HostCurrent.op # "JPI"
    <3>1. Visible!Enabled("JPR")
      BY <1>8, <1>13, <2>4 DEF JitJump, Executes, JumpOps
    <3>2. Visible!Jpr
      BY <1>2, <1>3, <1>6, <1>13, <2>2, <2>4, <3>1, VisibleData
         DEF JitJump, HostTarget, Visible!Jpr
    <3> QED
      BY <3>2 DEF Visible!Execute
  <2> QED
    BY <2>3, <2>4
<1>14. CASE JitEscapes
  BY <1>2, <1>3, <1>6, <1>14 DEF JitEscapes, Visible!machineVars
<1>15. CASE JitCtr
  <2>1. Visible!Skip
    BY <1>2, <1>3, <1>6, <1>15 DEF JitCtr, Executes, Visible!Skip
  <2> QED
    BY <2>1 DEF Visible!Execute
<1>16. CASE JitSkip
  <2>1. Visible!Skip
    BY <1>2, <1>3, <1>6, <1>16, VisibleData DEF JitSkip, Visible!Skip
  <2> QED
    BY <2>1 DEF Visible!Execute
<1> QED
  BY <1>9, <1>10, <1>11, <1>12, <1>13, <1>14, <1>15, <1>16 DEF JitInstruction

(***************************************************************************)
(* Between the two.                                                        *)
(***************************************************************************)

\* Entering and leaving generated code copies the machine and changes nothing of
\* it (jitLoadState, jitSaveState).
LEMMA BoundaryStep ==
  ASSUME IInv, TypeOK', JitEnter \/ JitEnterFails \/ JitEnd \/ JitLeave
  PROVE  UNCHANGED Visible!machineVars
<1> USE DEF machineVars, Visible!machineVars
<1>1. DataBanks \X Word \subseteq Cells
  BY DataBanksAssumption DEF Cells
<1>2. CASE JitEnter
  <2>1. ~InNative /\ InNative'
    BY <1>2 DEF JitEnter, InNative
  <2>2. position' % PcMod = pc
    BY <1>2, PcModAssumption DEF JitEnter, IInv, TypeOK, IsaTypeOK, Address
  <2>3. VisibleMemory' = VisibleMemory
    BY <1>1, <1>2, <2>1 DEF JitEnter, VisibleMemory
  <2> QED
    BY <1>2, <2>1, <2>2, <2>3 DEF JitEnter
<1>3. CASE JitEnterFails
  <2>1. ~InNative /\ ~InNative'
    BY <1>3 DEF JitEnterFails, InNative
  <2> QED
    BY <1>3, <2>1 DEF JitEnterFails, VisibleMemory
<1>4. CASE JitEnd
  <2>1. InNative /\ InNative'
    BY <1>4 DEF JitEnd, InNative
  <2> QED
    BY <1>4, <2>1 DEF JitEnd, VisibleMemory
<1>5. CASE JitLeave
  <2>1. InNative /\ ~InNative'
    BY <1>5 DEF JitLeave, InNative
  <2>2. VisibleMemory' = VisibleMemory
    BY <1>5, <2>1 DEF JitLeave, VisibleMemory
  <2>3. pc' = position % PcMod
    BY <1>5 DEF JitLeave, IInv, ResumesBehind
  <2> QED
    BY <1>5, <2>1, <2>2, <2>3 DEF JitLeave
<1> QED
  BY <1>2, <1>3, <1>4, <1>5

\* A step that touches neither the machine nor the code is invisible.
LEMMA UnchangedStep ==
  ASSUME UNCHANGED <<machineVars, jitVars>> PROVE UNCHANGED Visible!machineVars
  BY DEF machineVars, jitVars, Visible!machineVars, VisibleMemory, InNative

\* Runs, steps, breakpoints and generated code, in any order, execute the
\* program as the sequential machine does.
THEOREM SwitchingInvisible == Spec => SwitchingIsInvisible
<1> DEFINE Allowed == \/ Visible!Execute
                      \/ SetMemory \/ Reset
                      \/ Executes({"NAD"})
                      \/ memorySegmented /\ SEGMENT_REGISTER_ADDRESS \in ports
<1>1. IInv /\ [Next]_vars => [Allowed]_(Visible!machineVars)
  <2> SUFFICES ASSUME IInv, [Next]_vars PROVE Allowed \/ UNCHANGED Visible!machineVars
    OBVIOUS
  <2>1. TypeOK'
    BY StepType DEF IInv
  <2>2. CASE EditBreakpoints \/ EditPeripherals \/ Start
    BY <2>2, UnchangedStep DEF EditBreakpoints, EditPeripherals, Start
  <2>3. CASE SetMemory \/ Reset
    BY <2>3
  <2>4. CASE StartJit
    BY <2>1, <2>4, BoundaryStep DEF StartJit
  <2>5. CASE Stop
    BY <2>5, UnchangedStep DEF Stop
  <2>6. CASE Interpret
    <3>1. native = "idle" /\ native' = "idle"
      BY <2>6 DEF Interpret, IInv, Exclusive, jitVars
    <3>2. Visible!Execute
      BY <2>1, <2>6, <3>1, InterpreterStep DEF Interpret, IInv
    <3> QED
      BY <3>2
  <2>7. CASE RunNative
    <3>1. CASE SegmentRegisterShadowed \/ Executes({"NAD"})
      BY <3>1 DEF SegmentRegisterShadowed
    <3>2. CASE ~SegmentRegisterShadowed /\ ~Executes({"NAD"})
      BY <2>7, <3>2, NativeStep DEF RunNative, consoleVars
    <3> QED
      BY <3>1, <3>2
  <2>8. CASE LeaveNative
    BY <2>1, <2>8, BoundaryStep DEF LeaveNative
  <2>9. CASE UNCHANGED vars
    BY <2>9, UnchangedStep DEF vars
  <2> QED
    BY <2>2, <2>3, <2>4, <2>5, <2>6, <2>7, <2>8, <2>9 DEF Next, Console, Loop
<1> QED
  BY <1>1, Invariant, PTL DEF Spec, SwitchingIsInvisible
=============================================================================
