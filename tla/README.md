# Verification of microarch

Microarch is an 8-bit processor with three-byte instructions. The repository
holds a Verilog design of it (`src/base-core`), and a C++ toolchain: an
assembler, a disassembler, an interpreter and a native code generator (`src/src`,
`src/entry`). This directory models the processor and the toolchain from the words of
a command line to the console, checks them with TLC and proves the most important facts
with TLAPS.

Run, in this directory, `tlc -config <run>.cfg <module>` for a check and
`tlapm <module>.tla` for the proofs (`MicroArchProofs`, `CoreProofs`, `RefinementProofs`,
`EmulatorProofs`, `AssemblerProofs`, `ToolchainProofs`, `ProgramProofs`, `ListingProofs`). `PROJECT.json` lists
the runs, the source lines behind every definition, the faulty variants that show
each property can fail, and the hazards.

## Inventory

| part | state | operations | what makes it correct |
|---|---|---|---|
| memory management unit, `core/mmu.v` | one operation at a time, strobes and buses, the interrupt return bytes | start, wait, finish, answer the return bytes | one strobe while it works; a request stays until answered; every accepted request is answered once |
| data memory, `basic_synchronized_ram.v` | 256 bytes, the bus of the previous cycle | read, write, ready | ready only for the request on the bus |
| I/O registers, `peripheal_control.v` | port output, port direction | read, write, ready | every access is answered |
| control unit, `cu.v`, `id_stage_1..3.v`, `pipeline.v` | three instructions, program counter, control register | fetch, interlock, execute, write back, stop, interrupt | the program has its sequential meaning; it never locks up; a stop can be left |
| arithmetic unit, `alu.v` | operand latches, result, flags | latch, compute | the result of the instruction in stage 2 is there when it is in stage 3 |
| register bank, `register_bank.v` | eight registers | masked read, masked write, CID clear | |
| instruction set, `reader/instruction.hpp` | registers, flags, control register, program counter, memory | one `apply` per instruction | the meaning the other machines implement |
| interpreter and console, `reader/state.cpp`, `controller.cpp` | the machine, breakpoints, peripherals, standby | run, step, breakpoints, reset, edit memory | stopping and resuming does not change the program's meaning |
| native code generator, `instruction.hpp` (`jit`), `state.cpp` (`jit`) | registers in host registers, flags word, resume point, copy of memory | enter, run, leave | the same effect as the interpreter |
| writer and linker, `writer.cpp` | bytes, labels, links, condition stack | put, label, push and pop condition, bake | labels used before they are defined reach their instruction; conditions nest |
| assembler, `assembler.cpp` | labels and their numbers, the writer | instructions, `if` blocks, labels | a label has one address; unknown labels are reported |
| tokenizer, lexer, `source/tokenizer.cpp`, `lexer.cpp` | position in the text, the loop that is under way, open comments, tokens | one scan function for each kind of token, comment and string loops | no character is lost or read twice; what is refused is malformed |
| parser, `source/parser.hpp` | windows on the tokens | accept, expect, until, match blocks | a statement is read once, an error is met once |
| source and messages, `source.cpp`, `token.cpp`, `error.hpp` | the lines of the source, the error flag | find, line, wrap, report | a message shows the lines that it is about |
| reader, disassembler, `reader/reader.cpp`, `labeler.cpp` | none | decode, label, print | inverse of the writer |
| command line, `args.hpp`, `main.cpp` | the option that collects values, usages, values | read a word, verify | no word is lost or given to the wrong option |
| files, `controller.cpp`, `file.cpp` | the files | assemble, list, run, raw or as hex text | a file is written from a source without errors, and reads back |
| board wrapper, testbench | | | not modelled |

How they interact: the control unit asks the memory unit, which drives the data
memory or the I/O registers and answers through `pre_completed` in the cycle
itself; the control unit also drives the arithmetic unit and the register bank.
The toolchain's parts call one another: words, text, tokens, assembler, writer, bytes,
reader, machine, and from there the interpreter or generated code. Invocations meet only
in files: one writes what a later one lists or runs, perhaps with other options.

What is hard here is the overlap: three instructions in the pipeline, memory
operations of several cycles, interrupts and stops at any clock edge, requests
that are asked for again in every cycle until somebody takes them. `PROJECT.json`
lists these hazards line by line.

## Modules

| module | models | extends |
|---|---|---|
| `MicroArch` | bytes, register masks, instructions, conditions, arithmetic, the address space | |
| `Mmu` | `mmu.v`: one action per branch of its clocked block | `MicroArch` |
| `Peripherals` | data memory and I/O registers | `Mmu` |
| `Core` | `core.v` with everything in it, program memory and environment | `Peripherals` |
| `Isa` | the instruction set as a sequential machine, with peripherals and segments | `MicroArch` |
| `CoreRefinement` | the mapping from `Core` to `Isa`, the named hazards | `Core` |
| `CoreClaims` | what tests and documents say and the core does not do | `CoreRefinement` |
| `Jit` | the code that `CoreState::jit` generates, as it runs | `Isa` |
| `Emulator` | the console, the interpreter's loop and generated code on one `CoreState` | `Jit` |
| `EmulatorClaims` | what documents say and the emulator does not do | `Emulator` |
| `Writer` | `MicroWriter`: condition stack, code, labels, links, `bake` | |
| `Assembler` | the parser's windows on the tokens and `Assembler::parseRoot` | `Writer` |
| `AssemblyLanguage` | what a source means, and the assembler's properties | `Assembler` |
| `SourceText` | a source's lines, spans, digits | |
| `Tokenizer` | the tokenizer and its lexer, one step for each turn of a scanning loop | `SourceText` |
| `AssemblyText` | what characters are tokens, blanks and comments, told without a scanner; the tokenizer's properties | `Tokenizer` |
| `Arguments` | `argx`: one step for each word of a command line | |
| `Image` | operands, bytes, hex text, the reader, the listing | `MicroArch`, `SourceText` |
| `Toolchain` | `main` and its tasks: the processes, the files, and all of the above with the assembler in one | `AssemblyText`, `Arguments`, `Image`; instances of `AssemblyLanguage` |
| `MicroArchProofs`, `CoreProofs` | theorems | `MicroArch`; `CoreRefinement`, `MicroArchProofs` |
| `RefinementProofs` | theorems about the mapping to `Isa` | `CoreProofs` |
| `EmulatorProofs` | theorems | `Emulator` |
| `AssemblerProofs`, `ToolchainProofs` | theorems | `AssemblyLanguage`; `Toolchain`, `MicroArchProofs` |
| `ProgramProofs` | theorems about programs, from source to console | `ToolchainProofs`; an instance of `AssemblerProofs` |
| `ListingProofs` | the theorem about listings | `ProgramProofs` |
| `MCCore`, `MCCoreRefinement` | programs and bounds for TLC | `CoreClaims`, `CoreRefinement` |
| `MCEmulator`, `MCEmulatorSegments`, `MCEmulatorClaims` | programs and bounds for TLC | `Emulator`, `EmulatorClaims` |
| `MCAssembler` | sources for TLC | `AssemblyLanguage` |
| `MCToolchain` | invocations, sources and program files for TLC | `Toolchain` |

**State and steps of the core.** A Verilog register is a variable, a wire is an operator, a
clocked block is an action, and one step of `Clock` is one rising edge of the
clock, the conjunction of all clocked blocks. Names are the design's. A byte is
the set of its one bits: AND, OR and NOT are set operations, and a register mask
is a byte whose bits name registers, as in the encoding. An instruction is a
record of opcode, condition (the set of flag values that let it execute: the four
bits of the encoding), and its two arguments.

**Scaling.** `W` is the width of a byte and the number of registers (8 in the
code), `PcMod` the number of instruction addresses (65536). The constants of the
code that name halves of a byte scale with `W`: the stop bits are the bits above
`W \div 2`, the interrupt flag is bit `W \div 2` (bits 7 to 5 and 4 at `W` = 8),
and CID clears the registers below `W \div 2` (0 to 3). TLC uses `W` = 3: one stop bit, one
interrupt bit, one register that CID clears, eight data addresses of which two are
return bytes, three are I/O registers and three are memory. The proofs hold for every `W` up to 8
and every `PcMod`.

**Power up.** Registers without an initial value hold a byte of `PowerUp`, the same
one everywhere. A cell of program memory outside the program reads as the all-zero word,
which is a NOP. The core boots with the program counter at the
last address and wraps to 0; that cell must be outside the program.

**The emulator.** `Isa`'s variables are the `CoreState`; `Jit` adds the host's
registers, flags and memory copy, and `CL`, in which generated code keeps the
control register. Nothing loads `CL` and functions that peripherals call may
change it, so its value is one of `Leftovers`. An interpreted or a generated instruction
is one step, entering and leaving generated code are steps of their own, and
between commands the user may edit breakpoints, peripherals and memory, reset,
or give a command. `native = "refused"` is a generator that throws on a condition
without a mnemonic or an entry past the table of instructions; `"escaped"` is
generated code that jumps past that table or accesses memory outside
`data_memory_size`, from where on anything may happen. Nothing is modelled behind either.

**The assembler.** A parser is a window on the tokens; `parseRoot`'s recursion is
a stack of windows, and one turn of its loop is a step. Tokens are records of a
type and the lexeme, with the condition before the dot taken apart. Instructions
stand for three bytes each; a jump's target is computed from byte offsets as
`bake` does, with `OffsetMod` for 2^16.

**The toolchain.** A source is a sequence of characters. A character is one letter or one of
`Names`: a run of letters that no rule looks into, such as a whole mnemonic. The main
loop of the tokenizer and the loops of comments and strings take one step for each turn;
a scan function for a token that cannot be interrupted by another is one step, with
its end told by where its loop stops. `TurnString` takes the character behind an
escape unseen, as the code does. A word of a command line is a sequence of letters in
which the long name of an option, and a value, are one letter. Bytes are numbers
here, hex text is a sequence of character codes, and
a listing is the tokens of its lines. `Invoke` starts a process with variables of its
own; `files` and `texts` outlive it. Program files and sources are kept in two
functions, and no scenario takes one for the other. `Assemble` is a step of
`Assembler`, on tokens as it compares them (`Read`): the lexemes of identifiers and labels
are strings, those of operands the characters that `Image` makes values of. `IntMax` stands for
2^31 - 1 and `LineMod` for 2^32, the width of the line numbers, in which the distance to
the last line wraps. The console itself is `Emulator`, on
the machine that `program` is loaded into.

## Runs

| run | configuration | shows |
|---|---|---|
| `core` | `Core.cfg` | every program that loops over two instructions of a set with each kind of instruction, with the interrupt line free at every edge, two port inputs: ten properties, two of them liveness |
| `core_refinement` | `CoreRefinement.cfg` | 4671 programs of three or four instructions after a prefix run as the sequential machine says, up to the first hazard |
| `back_to_back` | `CoreBackToBack.cfg` | refuted: a store asked for as a load finishes is started |
| `interrupt_entry` | `CoreInterruptEntry.cfg` | refuted: an interrupt reaches the handler at address 1 |
| `cid_interlock` | `CoreCid.cfg` | refuted: the interlock covers CID |
| `emulator` | `Emulator.cfg` | all 729 programs of three instructions out of nine kinds, under every interleaving of commands and edits |
| `emulator_segments` | `EmulatorSegments.cfg` | 217 programs that use segments, leave data memory, share an address with a peripheral, or have a condition without a mnemonic |
| `ctr_mask` | `EmulatorCtr.cfg` | refuted: the interpreter's CTR leaves bits outside its mask alone |
| `jit_nad` | `EmulatorNad.cfg` | refuted: generated code complements for NAD |
| `assembler` | `Assembler.cfg` | every source of at most four of eleven lines, bare and inside a block |
| `label_range` | `AssemblerLabels.cfg` | refuted: a label is reached whenever its address fits |
| `toolchain` | `Toolchain.cfg` | some 22500 scenarios: command lines, short sources, whole sessions of assembling, listing and running, foreign program files; ten properties |

**Properties of `core`.** `StageTwoServed`, `OperationOwned` and `StrobeDiscipline`
are the contract between the pipeline and the memory unit: who waits has something
to wait for, who works has somebody to work for, and a unit works with exactly one
strobe. `BusStable` is what the memory's ready signal relies on. `InterlockComplete`
is the pipeline's own: what executes in stage 1 sees the registers and flags the
sequential machine has there. `HandlerUndisturbed` and `ReturnBytesIntact` are about
clock edges that have two writers: an interrupt that meets a CTR leaves the core running
with the line's latch cleared, and one that meets a store to the return bytes leaves both halves of the
program counter of that edge, never a mixture. Nobody else writes
them, but a store that is executed. `ReturnBytesIntact` does not say that a return resumes
where the interrupt broke in: it need not (see the oddities). `Progress` and `StopIsNotFinal` are the liveness properties.

**Properties of the emulator.** `SwitchingIsInvisible` is the refinement of `Isa`:
the machine the user sees (`CoreState`, or the host's copy while generated code
runs) executes its program's next instruction, is edited, or stays. It names two
exceptions, NAD in generated code and a peripheral on the segment register, on
which the two machines disagree. `EveryRunAdvances` and `EndIsFinal` are about
breakpoints, standby and the end of the program; `CommandsReturn` is the liveness
property, for programs without jumps, since a program with jumps may loop.

**Properties of the assembler.** `Assembles` compares what is baked with
`Meaning`, which is declared over the whole source at once: statements by their
places, conditions by the innermost balanced `begin`, targets by counting
statements. It does not mention windows, stacks or links. `BlocksNest` and
`LinksResolve` are the invariants behind it; `Terminates` holds for
ill-formed sources too.

**Properties of the toolchain.** Each compares what a scanner made step by step with what the
whole input is. `TokensRead` and `NothingLost` say together that the tokens, with
blanks and whole comments between them, are the source: each the longest word that begins at its place, comments
by their own balance, the break behind an inline comment kept. `RejectsOnlyMalformed` is the
other direction: what is refused does not end a word before something else, nor go on with a word whose
front was taken. Each names what the scanner does otherwise: a number without a prefix is cut behind a digit that stands alone
behind a separator (`LoneDigit`), and a register set at the very end of a source is refused. `MessagesShowTheirLine` asks of every token and every reported place, the one behind the
source included, that the lines shown are those it is on. `ArgumentsKept` reads the command
line at once: words are flags or values of the flag that is still open, and each option holds
its own. `ProgramsSurvive` follows a program from the meaning of its source (`AssemblyLanguage`)
through writer, bytes, raw or hex file, another invocation and the reader to the
console or the listing; it leaves out numbers with separators or beyond an int, which lose their value on
the way (below), and programs whose labels' offsets pass the writer's width (`label_range`). `ListingReadsBack` assembles a listing: it is a source of the listed program, for
programs of what the language can say. `FilesHoldPrograms` is an action property: the only step that
changes a file is the one that writes the output of a source without an error, late ones
(undefined labels) included. `Ends` is the liveness property.

**Bounds.** A loop of two instructions behind one another fills the pipeline with
each ordered pair and, because it loops, with each triple of the form x y x; the
interrupt adds every other place to leave it. The prefix gives the loads and stores an address
in data memory; one store moves over the output port. Longer sequences are in
`core_refinement`, with interrupts off: there all triples of 15 instructions and
all sequences of four of 6. `MCCore` leaves out the pair that points a store at the input port,
because such a store never ends (hazard list, `peripheal_control.v:36`).

The emulator's runs use `W` = 3; three instructions suffice to stop, resume and
finish in every combination of the two machines. One breakpoint, one peripheral,
one editable cell: each may come and go at any time. In `emulator_segments` segments
0 and 1 are within `data_memory_size` and the others are not, and the peripheral
shares its address, 1, with data memory of every segment. The assembler's sources nest up to five blocks, open and close
them wrongly, repeat or miss labels, miss breaks, and have unknown conditions and mnemonics.
`label_range` scales `OffsetMod` to 5 so that a program of two instructions
crosses it, as 21846 instructions cross 2^16.

The `toolchain` run has four groups of scenarios, each for its own question. Command lines:
up to three of 19 words, so that every word is met closed, open and collecting by every
option, twice over. Sources: every text of up to three of 22 characters that
reach every rule of the tokenizer and each of its look-aheads (none looks further than two characters
ahead but greedy loops, which are met with zero, one and two members), every text of up to five of `/`, `*`, new line and a letter,
which is two nested comments and their remains, and every text of up to six of `0`, `x` and `'`, which is a number of three groups,
with and without a prefix, and what may be behind it. Sessions: every text of at most two of
17 lines, which have every operand form, prefix, number limit and kind of error, comments, a label, a block and a jump between
them, assembled raw, as hex, in the wrong form for the run that follows, and run at once, over older files.
Program files: up to two of 23 encodings, among them every
opcode and conditions without a mnemonic, bytes that are not in threes, and
hex texts with odd digits and other characters. `W` = 8 and `PcMod` = `OffsetMod` = 65536 as in the code; `IntMax` is
9999, so that a number of five digits passes it, and `LineMod` 256.

**Fairness.** `WF_vars(Clock)`: the clock does not stop, and `Clock` is always enabled. Nothing is
assumed of the environment except in `StopIsNotFinal`, whose premise is that the
interrupt line is raised again and again.
`WF_vars(Loop)` in `Emulator`: a command that was given runs on by itself, in a
loop of the program or in generated code; nothing obliges the user to give one.
`WF_vars(Next)` in `Assembler`: it is one function call. `WF_vars(Process)` in `Toolchain`:
a process runs on by itself and the invocations of a session are given; `Quit` is not part of it, since nobody need leave
the console. Runs of these three do not check deadlock: a process that refused or escaped has ended, so has
an assembler that is done, and a session ends with its last invocation.

**Hazards as conditions.** The design leaves four orderings to the program, and
`CoreRefinement` names them: a memory instruction too close behind another
(`MemoryHazard`), a use of registers a CID is about to clear (`CidHazard`), a stop
while a load waits (`StopHazard`), a store to the input port (`PortHazard`).
`ScheduledSpec` is the core up to the first of these, which is why that run does not
check deadlock. Each of the four is needed: without it TLC finds a
program on which the core and the sequential machine differ.

## Refinement

`Isa` is the meaning of a program: every instruction finishes before the next
starts. The core takes an instruction's sequential step at the clock edge at which
the instruction leaves stage 1 with its condition decided. The mapping finishes
what is still in stages 2 and 3: a pending result is the one the arithmetic unit
will compute from its latches, the value a load will deliver is read through the
mapped memory, and a store on the bus counts as done. Edges at which stage 1 waits are
stuttering steps. The program counter needs no mapping. CTR is modelled in `Isa`
after the core (`cu.v:64-85`); the interpreter's differs (`ctr_mask`) and has an
operator of its own, `InterpretedCtr`.

## Proofs

For every width, program, interrupt and input:

- `CoreTypeCorrect`: `Spec => []TypeOK`, clocked block by clocked block. The
  arithmetic is in the lemmas of `MicroArchProofs` (`WordOfType`, `ValType`, `AluResultType`).
- `StrobesDisciplined`: `StrobeDiscipline` is inductive with the type invariant.
- `StageTwoAlwaysServed`: with `MmuServes`, what the memory unit does with a request
  in each of its five actions, an instruction that enters or stays in stage 2 has an operation
  or an answer.
- `BusIsStable`: only the start of an operation writes the bus, and it needs an idle unit.
- `InterlockIsComplete`: no induction; the mapping changes only announced registers.
  CID is the exception because stages 2 and 3 announce the wrong half.
- `HandlerIsUndisturbed`: no induction; what one clock edge makes of the control register.
- `ReturnBytesAreIntact`: no induction over time, but arithmetic: the two halves of an address make up
  the address again (`TwoFits`, `ValOfWordOf`). That needs an address to fit into two bytes,
  `PcMod <= 2^W * 2^W`, as 16 bits do; TLC's instance has it too.
- `OperationsAreOwned`, up to the first store to the input port (`[]~PortHazard`): such a
  store is never answered, and so outlives its instruction. The invariant (`Ownership`) says more than
  the property: a CTR that stops the core flushes stage 2 at an edge at which the bus has answered, since
  every bus answers within a cycle (`AnsweredAfterWait`).

For every core without interrupts and extension instructions:

- `CoreImplementsIsa`, the refinement, for every program and any overlap: each edge is the sequential
  instruction of stage 1, or a stutter. It is proved from the mapping of each variable over
  each kind of edge (a held stage, a result or an answer delivered, an instruction that leaves), and rests on
- `PipelineIsInvariant`, what the mapping counts on: stage 1 holds the instruction
  at the program counter (`Fetched`); the arithmetic unit's latches are those of stage 2 and not of an
  instruction that waits behind it (`Latched`), and the flags have a comparison or are about to
  (`FlagsDue`: the unit writes them again at each edge at which it is held); the request
  on the bus is that of stage 2 on the bus of its address, not reported yet (`Requested`); a bus
  that is ready to a load shows the byte of that very address (`AnswerTrue`); a stopped core
  has nothing left to deliver (`StoppedClean`).
- Both assume `SequentialEnvironment`, which is the run's environment too: `Isa` has no interrupts and
  no EXT, an opcode that `writer.hpp:39` reserves; the port's pins are sampled by a load a cycle after
  the sequential machine would look, so they show one level; and a byte has more than one bit,
  because with one the input port's address is that of a return byte. `ScheduledSpec` ends at the first of the four named
  hazards, each of which breaks the refinement.

For every width of at least three, program, console and peripheral:

- `EmulatorTypeCorrect`: `Spec => []TypeOK` of `Emulator`.
- `RunsAdvance`, `ProgramEndIsFinal` and `SwitchingInvisible` rest on `IInv`, the type
  invariant with four conjuncts that no single step shows: generated code and the
  interpreter's loop exclude one another (`Exclusive`), a run that has executed
  nothing yet is awake (`Awake`, else standby would end it at once), code that is
  leaving has noted where to resume (`ResumesBehind`), and code past the end is
  at it exactly (`EndStays`, else leaving would move the program counter).
- `SwitchingInvisible` then needs no more induction: `InterpreterStep` and
  `NativeStep` show that an instruction of either machine is the sequential one,
  register by register (`NativeView`, `NativeMemory`, `JitResultIsAluResult`), and
  `BoundaryStep` that entering and leaving show the user the same machine.

For every source of the assembler and every sequence of invocations:

- `BlocksAlwaysNest` rests on `NestInv`: windows and conditions have their types, there is a
  parser until an exception, and blocks nest. A block's end is a minimum of places (`LeastPlace`), which
  makes it a place before the one at which the parser around it goes on; that parser is
  the only one that moves (`AdvanceShape`).
- `AssemblerTypeCorrect` rests on `Windows` (no parser looks outside the source) and `CodeInv` (offsets are those of the code put).
- `AssemblesMeaning`: what is baked is what the source means (`AssemblyLanguage`), for sources
  of any length and nesting that are well formed (`WellFormed`) and whose labels' offsets fit the writer's width. How deep a place is, is the number of `begin`s before it less that of `end`s
  (`Depth`); each parser's window is what is left of the block around it, to the `end` that balances
  its `begin` (`BlocksInv`), which makes the condition on the writer's stack that of the innermost balanced block; and what
  has been put are the statements before the innermost parser's place and no others, each
  link and label where the statements before it end (`PutUpTo`). At the end that is all of them
  (`WholeOffset`), and baking subtracts one offset from another (`BakedMeaning`).
- `LinksAlwaysResolve` rests on `LinkInv`: labels with offsets are the defined ones, and links name
  used ones; neither is in the assembler's checks, which compare only used with defined.
- `ScanReadsTokens`, `ScanRejectsOnlyMalformed`: whatever the characters are, every token is a word, the longest at its place, and
  nothing is refused where a word ends or within one, with the exceptions that the properties name. Both rest on `ScanInv`, with one lemma for each turn of a scanning loop
  (`SingleTurns` to `EndTurn`): tokens lie one behind the other up to the scanner's place, an open string has its quote
  behind all of them (else what it becomes could reach into a token), and reported places lie in the text. The greedy matches are first
  places that stop (`FirstStop`, `GreedyMatch`, `DigitsMatch`, `GroupsMatch`, `GroupsStop`, `RegistersMatch`); that nothing longer is a word is an argument about
  the classes of characters (`IdentifierRead`, `NumberRead`, `RegistersRead`).
- `MessagesAlwaysShowTheirLine`: every line number has its start and starts grow with it (`NumbersGrow`, `LinesHaveStarts`), and
  the distance behind the source wraps to the last line (`Wraps`).
- `ScanLosesNothing` rests on `GapInv`: from the last token to where the scan stands there are only blanks and
  whole comments, up to an open string's quote or an open comment's start. A nested comment that is open at a place and a depth
  ends where its start says it does (`NestedOpen`), an inline one has met no end yet (`InlineOpen`). That
  the recursive functions `Gap` and `BehindNested` exist, for comments of any depth, is a lemma of its own
  (`JumpsExist`: each place goes on to a later one), proved by the least counterexample over the natural numbers.
- `ArgumentsAlwaysKept` rests on `ArgumentsRead`: of the words read so far, the last flag is the option that collects
  (`WordsRead`), each option holds what was given to it, word by word (`GivenIn`), and a word that is no flag
  was given to an option. A word is any sequence of strings.
- `ProgramFilesReadBack`, of operators alone: no opcode, condition or operand is lost on the way through three bytes
  (`HeadFacts`, `WordOfVal`), or a byte on the way through hex text, line by line (`DecodeLine`). Only a NOP has its condition
  dropped. It is what `ProgramsSurvive` needs of the files, for every length of program and every width.
- `ToolchainTypeCorrect`: `TypeOK` in every scenario that keeps sources and program files apart (`KeptApart`, which
  is a condition on scenarios and not the code's doing). That files hold bytes and that what is loaded is instructions
  is `BytesInv`, and it needs that whatever is baked has a known mnemonic, a known condition and its
  operands: the assembler's own invariants, within a process. So `AssemblerProofs` is an instance here (`AP`), each
  turn of `Assemble` is shown to be one of its steps (`SameNext`), and `StartParsing` to hand it a source (`ReadsSource`).
- `AssembledProgramsSurvive`: `ProgramsSurvive` for bytes of eight bits, as the code has them. Its
  invariant (`SurvivalInv`) says of every file that was assembled that it holds, raw or as hex text, an image that
  is read as what its source means (`FilesKept`). It joins `AssemblesMeaning` within a process, what tokens are
  made of (`Worded`: from `TokensRead`, a register set has octal digits, a number digits of its base and
  separators), a number's value by its digits with and without separators (`PlainIsRead`), one
  instruction put from one statement (`PutIsMeant`), and `ProgramFilesReadBack`.
- `ListingsReadBack`: `ListingReadsBack` for program files of any length. What is listed is laid out token by token, each
  instruction's line behind the one before (`PartsJoin`, `ListingLaid`), so the statements of the listing can be counted:
  the one of an instruction has as many before it as the program has instructions (`StatementsCounted`, by ascending places). A listing
  has no blocks (`NothingBlocks`), so each stands under its own condition alone, and the label of an address is before the statement of that
  address (`LabelsLaid`). Then one instruction put from its printed operands is that instruction (`RegsetReadsBack`, `DecimalReadsBack`,
  `PutAgain`). `ListingInv` carries it over the steps of a process: a listing is what was made of the program
  that was loaded. The hypothesis `2^W * 2^W <= PcMod` says that the program counter takes both bytes of a jump, as the code's 16 bits
  do; with fewer, two jumps could name one label. That `l_` and a number name one address is
  `LabelNamesAssumption` on the constant `LabelName`, as strings have no parts for the provers; TLC evaluates it for all 65536 names.
- `FilesAlwaysHoldPrograms` rests on `FileInv`, which carries over the steps of a process that it was asked to assemble,
  and that an assembler that is done without an error misses no label. The error flag alone would
  not do: the next process clears it.

Assumed: the named assumptions on the constants, in the module that declares them, which
TLC evaluates in the runs. Those about texts: a source has fewer than `LineMod` - 1 lines (with 2^32 of
them the line numbers of `token.hpp` overflow) and no NUL, which stands here for the byte behind the source (`TextsAssumption`); a
member of `Names` is none of the characters that a rule looks into, but for letters (`NamesAssumption`); and the words of
a command line are sequences of strings (`InvocationsAssumption`).

For programs also: `OffsetMod` is positive (`OffsetAssumption`), program files that a scenario begins with hold
bytes (`FilesAssumption`), and `AssembledProgramsSurvive` has `W = 8` as a hypothesis of its own, which is the run's and the code's.

Only model-checked: the liveness properties (`Progress`, `StopIsNotFinal`, `CommandsReturn`, `Terminates`, `Ends`),
which are outside the prover's reach. Every invariant and action property that a passing run checks is also proved, the toolchain's
under the hypotheses named above.

## Disagreements and oddities

The six refuted runs are disagreements between the code and what its documents, comments, tests or assertions say.
Met while modelling, and modelled as the code has it:

- A block that is never closed is accepted, and its parser's window ends one token before the
  end of the tokens, although the comment at `parser.hpp:205` says that a block ends where it balances. What
  follows the operands of a statement is not looked at.
- A register set at the very end of a source is refused, since the scanner looks at the
  character behind it (`tokenizer.cpp:194`).
- A number without a prefix ends behind a digit that stands alone behind a separator, and a second
  separator there is refused: `1'2'3` is read as `1'2`, then an error, although the comment at `tokenizer.cpp:178`
  expects *at least* one digit behind a separator. `0x1'2'3` is one number.
- An interrupt saves the program counter (`mmu.v:102`, `cu.v:86-89`), which is the next address to fetch from. If stage 1 takes
  its next instruction at that very edge, that instruction is executed at once and again after the return. On a core that a CTR at
  address k has stopped, the instruction at k + 1 was flushed and k + 2 is saved, so k + 1 is not executed at all.
- Of two escapes in a row, the second one's backslash is read as a plain character.
- A number is read up to its first separator, `1'000` as 1, and one beyond an int is 0.
- An option of one value goes on collecting words: `-I a b` has two. An option at the end of the command line
  may lack its value, and `--hex=1` drops it.
- An assembly with errors exits with success when it was to write a file.
- A listing prints no register set for a CTR, no mask for a CID, and no label behind the
  last instruction, so a jump there names a label that the listing lacks.
- At the end of its input the console goes on reading empty words.

## Not modelled, and the plan

1. Larger instances: sources of four characters, sessions of three lines.

Left out of modelled parts: texts, severities and, for the parser's messages, spans; options that
take lists, which `main` does not declare; the help page; the column of addresses of a listing; the end of the
console's input.

Left out for good: text formatting, message printing, the board's pins and the testbench, the host's machine code (a library's), `perf` (a sequence of
commands that are modelled), shifts by 32 or more in the emulator (undefined in C++).
