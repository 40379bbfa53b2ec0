------------------------------ MODULE Emulator ------------------------------
(***************************************************************************)
(* The emulator: a console that edits the machine and runs it, with the    *)
(* interpreter (CoreState::run) or with generated code (Jit), as often and *)
(* in any order as the user likes, always on the same CoreState.           *)
(***************************************************************************)
EXTENDS Jit

CONSTANTS
  Programs,               \* programs the emulator may be started with
  BreakpointAddresses,    \* where the user may set breakpoints
  PortAddresses,          \* where the user may set peripherals
  EditableCells,          \* bytes of data memory the user may set
  TypedBytes              \* bytes the user may type, as data or as a peripheral

\* A program is what the reader produces: instructions from address 0 on, none
\* of them the extension point. Shifts by 32 and more, which C++ leaves
\* undefined, are left out.
IsProgram(p) ==
  /\ \E n \in 1..PcMod : DOMAIN p = 0..n-1
  /\ \A n \in DOMAIN p :
       /\ p[n] \in Instruction
       /\ p[n].op # "EXT"
       /\ p[n].op = "SHR" => Val(p[n].b) < 32

ASSUME ConsoleAssumption ==
  /\ W >= 3               \* room for the bit that the end of the program sets
  /\ BootPc = 0
  /\ \A p \in Programs : IsProgram(p)
  /\ BreakpointAddresses \subseteq Address
  /\ PortAddresses \subseteq Word
  /\ EditableCells \subseteq Cells
  /\ TypedBytes \subseteq Word /\ TypedBytes # {}

VARIABLES
  breakpoints,
  interpreting,           \* no, run, or step
  executed                \* whether this run has executed an instruction

consoleVars == <<breakpoints, ports, interpreting, executed>>
vars == <<rom, pins, ctr, machineVars, jitVars, consoleVars>>

EmulatorTypeOK ==
  /\ IsProgram(rom)
  /\ breakpoints \subseteq BreakpointAddresses
  /\ interpreting \in {"no", "run", "step"}
  /\ executed \in BOOLEAN

\* Every part of the state has its width.
TypeOK == IsaTypeOK /\ JitTypeOK /\ EmulatorTypeOK

Init ==
  /\ mem = [cell \in Cells |-> Zero]
  /\ IsaInit
  /\ JitInit
  /\ rom \in Programs
  /\ ports = {}
  /\ pins \in TypedBytes
  /\ breakpoints = {}
  /\ interpreting = "no"
  /\ executed = FALSE

(***************************************************************************)
(* The console.                                                            *)
(***************************************************************************)
AtConsole == native = "idle" /\ interpreting = "no"

EditBreakpoints ==
  /\ AtConsole
  /\ \E a \in BreakpointAddresses : breakpoints' \in {breakpoints \cup {a}, breakpoints \ {a}}
  /\ UNCHANGED <<rom, pins, ctr, machineVars, jitVars, ports, interpreting, executed>>

EditPeripherals ==
  /\ AtConsole
  /\ \E a \in PortAddresses : ports' \in {ports \cup {a}, ports \ {a}}
  /\ UNCHANGED <<rom, pins, ctr, machineVars, jitVars, breakpoints, interpreting, executed>>

SetMemory ==
  /\ AtConsole
  /\ \E cell \in EditableCells, v \in TypedBytes : mem' = [mem EXCEPT ![cell] = v]
  /\ UNCHANGED <<rom, pins, ctr, regs, zf, cf, pc, jitVars, consoleVars>>

\* Registers and memory are left as they are, but for the segment register.
Reset ==
  /\ AtConsole
  /\ pc' = 0
  /\ zf' = FALSE
  /\ cf' = FALSE
  /\ ctr' = Zero
  /\ mem' = IF memorySegmented
            THEN [mem EXCEPT ![<<Zero, SEGMENT_REGISTER_ADDRESS>>] = Zero] ELSE mem
  /\ UNCHANGED <<rom, pins, regs, jitVars, consoleVars>>

\* Faulty variant: the core is not woken up.
StartWithoutWaking ==
  /\ AtConsole
  /\ interpreting' \in {"run", "step"}
  /\ UNCHANGED <<rom, pins, ctr, machineVars, jitVars, breakpoints, ports, executed>>

Start ==
  /\ AtConsole
  /\ interpreting' \in {"run", "step"}
  /\ ctr' = ctr \ StopBits
  /\ UNCHANGED <<rom, pins, machineVars, jitVars, breakpoints, ports, executed>>

StartJit ==
  /\ AtConsole
  /\ JitEnter \/ JitEnterFails
  /\ UNCHANGED <<rom, pins, consoleVars>>

(***************************************************************************)
(* The interpreter's loop.                                                 *)
(***************************************************************************)

\* Faulty variant: one bit too high.
HaltBitPastByte == W \div 2 + 2

HaltBit == W \div 2 + 1

\* Faulty variant: the end of the program is not looked for.
LeavesWithoutEnd ==
  \/ ctr \cap StopBits # Zero
  \/ pc \in breakpoints /\ executed

\* The loop leaves at a stopped core, past the program, and at a breakpoint that
\* is not where this run began, in this order.
Leaves ==
  \/ ctr \cap StopBits # Zero
  \/ pc \notin DOMAIN rom
  \/ pc \in breakpoints /\ executed

Stop ==
  /\ interpreting # "no"
  /\ Leaves
  /\ interpreting' = "no"
  /\ ctr' = IF ctr \cap StopBits = Zero /\ pc \notin DOMAIN rom
            THEN ctr \cup {HaltBit} ELSE ctr
  /\ executed' = FALSE
  /\ UNCHANGED <<rom, pins, machineVars, jitVars, breakpoints, ports>>

\* apply of CTR clears every bit outside its mask: !b is 0 unless b is 0.
InterpretedCtr ==
  (A \cap Current.b) \cup (IF Current.b = Zero THEN ctr \cap {0} ELSE Zero)

\* A user may type another byte for the next load from a peripheral.
Interpret ==
  /\ interpreting # "no"
  /\ ~Leaves
  /\ Execute
  /\ ctr' = IF Enabled("CTR") THEN InterpretedCtr ELSE ctr
  /\ executed' = (interpreting = "run")
  /\ interpreting' = IF interpreting = "step" THEN "no" ELSE "run"
  /\ pins' \in IF Enabled("LDM") THEN TypedBytes ELSE {pins}
  /\ UNCHANGED <<rom, jitVars, breakpoints, ports>>

(***************************************************************************)
(* Generated code.                                                         *)
(***************************************************************************)
RunNative ==
  /\ JitInstruction
  /\ pins' \in IF Executes({"LDM"}) THEN TypedBytes ELSE {pins}
  /\ UNCHANGED <<rom, consoleVars>>

LeaveNative ==
  /\ JitEnd \/ JitLeave
  /\ UNCHANGED <<rom, pins, consoleVars>>

Loop == Stop \/ Interpret \/ RunNative \/ LeaveNative
Console == EditBreakpoints \/ EditPeripherals \/ SetMemory \/ Reset \/ Start \/ StartJit

Next == Console \/ Loop

\* A command that was given runs on by itself; the user need not give any.
Spec == Init /\ [][Next]_vars /\ WF_vars(Loop)

(***************************************************************************)
(* Properties.                                                             *)
(***************************************************************************)

\* The machine that the user sees, through the interpreter or the code that runs
\* at the moment, only ever executes the next instruction of its program or is
\* edited at the console: entering and leaving generated code at any point, in
\* any order with runs, steps and breakpoints, changes nothing (state.cpp,
\* instruction.hpp). Left out are the NAD of generated code, which negates,
\* and a peripheral on the segment register.
SwitchingIsInvisible ==
  [][\/ Visible!Execute
     \/ SetMemory \/ Reset
     \/ Executes({"NAD"})
     \/ memorySegmented /\ SEGMENT_REGISTER_ADDRESS \in ports]_(Visible!machineVars)

\* A run or step executes at least one instruction unless the program is over,
\* whatever stopped the last one: the console never gets stuck at a breakpoint
\* or in standby (CoreState::run).
EveryRunAdvances ==
  [][Stop => executed \/ pc \notin DOMAIN rom]_vars

\* A program that is over stays over, for the interpreter and for generated
\* code, until it is reset (CoreState::run, CoreState::jit).
EndIsFinal ==
  [][pc \notin DOMAIN rom => pc' = pc \/ Reset]_vars

\* Without jumps in the program every command comes back to the console, unless
\* the emulator refuses or escapes (CoreState::run, CoreState::jit).
CommandsReturn ==
  (\A n \in DOMAIN rom : rom[n].op \notin JumpOps)
    => []<>(AtConsole \/ native \in {"refused", "escaped"})
=============================================================================
