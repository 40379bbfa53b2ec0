------------------------------ MODULE Toolchain ------------------------------
(***************************************************************************)
(* The program as a user runs it (main): invocations one after the other,  *)
(* each a process that reads its arguments, assembles a source with the    *)
(* tokenizer and the assembler, or loads a program file, to write it, to   *)
(* list it or to enter the emulator's console. Files outlive a process.    *)
(*                                                                         *)
(* Sources and program files are kept apart: no scenario assembles a       *)
(* program file or loads or overwrites a source.                           *)
(***************************************************************************)
EXTENDS AssemblyText, Arguments, Image

CONSTANTS
  OffsetMod,    \* of the instruction writer
  Scenarios     \* invocations, sources and program files to start from

ASSUME OffsetAssumption == OffsetMod \in Nat \ {0}
ASSUME TextsAssumption ==
  \A scenario \in Scenarios : \A path \in DOMAIN scenario.texts : IsText(scenario.texts[path])
ASSUME FilesAssumption ==
  \A scenario \in Scenarios :
    \A path \in DOMAIN scenario.files : scenario.files[path] \in Seq(0..255)
ASSUME InvocationsAssumption ==
  \A scenario \in Scenarios : scenario.invocations \in Seq(Seq(Seq(STRING)))

VARIABLES
  pending,                              \* invocations to come
  texts, files,                         \* by their paths
  stage, status,                        \* of the process; how the last one ended
  program, listing,                     \* what was loaded and what was printed
  written,                              \* what each file was written from, for the properties
  tokens, parsers, defined, used, phase, result,    \* the assembler's
  stack, code, links, labels                        \* the writer's

assemblerVars ==
  <<tokens, parsers, defined, used, phase, result, stack, code, links, labels>>
processVars == <<stage, status, program, listing>>
worldVars == <<pending, texts, files, written>>
vars == <<argumentVars, tokenizerVars, assemblerVars, processVars, worldVars>>

A == INSTANCE AssemblyLanguage WITH Sources <- {}

\* Any tokens read as a source.
Source(read) == INSTANCE AssemblyLanguage WITH Sources <- {}, tokens <- read

Init ==
  /\ \E scenario \in Scenarios :
       /\ pending = scenario.invocations
       /\ texts = scenario.texts
       /\ files = scenario.files
  /\ written = [path \in {} |-> 0]
  /\ stage = "exited" /\ status = 0
  /\ program = <<>> /\ listing = <<>>
  /\ words = <<>> /\ position = 1 /\ expect_flag = TRUE /\ collector = "none"
  /\ usages = NoUsage /\ values = NoValues /\ parse = "rejected"
  /\ text = <<>> /\ failed = FALSE
  /\ offset = 0 /\ previous = 0 /\ mode = "root" /\ depth = 0
  /\ sink = <<Token("BREAK", 0, 0)>> /\ scan = "done" /\ reported = {}
  /\ tokens = <<>> /\ parsers = <<>> /\ defined = {} /\ used = {}
  /\ phase = "done" /\ result = <<>>
  /\ stack = <<>> /\ code = <<>> /\ links = {} /\ labels = [name \in {} |-> 0]

\* A new process. What it does not set here it sets before it reads it.
Invoke ==
  /\ stage = "exited"
  /\ pending # <<>>
  /\ words' = Head(pending)
  /\ pending' = Tail(pending)
  /\ position' = 1 /\ expect_flag' = TRUE /\ collector' = "none"
  /\ usages' = NoUsage /\ values' = NoValues /\ parse' = "parsing"
  /\ stage' = "arguments"
  /\ program' = <<>> /\ listing' = <<>>
  /\ UNCHANGED <<tokenizerVars, assemblerVars, status, texts, files, written>>

\* How a process ends that threw what nobody caught, and any other.
SIGABRT == 134

Exit(with) ==
  /\ stage' = "exited"
  /\ status' = with

(***************************************************************************)
(* Arguments.                                                              *)
(***************************************************************************)
ReadArguments ==
  /\ stage = "arguments"
  /\ ParseArguments
  /\ UNCHANGED <<tokenizerVars, assemblerVars, processVars, worldVars>>

RefuseArguments ==
  /\ stage = "arguments"
  /\ parse \in {"rejected", "help"}
  /\ Exit(IF parse = "help" THEN 0 ELSE 1)
  /\ UNCHANGED <<argumentVars, tokenizerVars, assemblerVars, program, listing, worldVars>>

Chosen(option) == usages[option] > 0

\* The values of an option in one, with a separator behind any that is not empty.
Value(option) ==
  LET joined[n \in 0..Len(values[option])] ==
        IF n = 0 THEN <<>>
        ELSE joined[n - 1] \o (IF joined[n - 1] = <<>> THEN <<>> ELSE <<";">>)
               \o values[option][n]
  IN  joined[Len(values[option])]

OutputPath == Value("output") \o (IF Chosen("hex") THEN <<".hex">> ELSE <<>>)

\* An assembled program goes to a file unless it is only run.
ToFile == Chosen("output") \/ ~Chosen("run")

Dispatching == stage = "arguments" /\ parse = "parsed"

NoTask ==
  /\ Dispatching
  /\ \A option \in {"assemble", "disassemble", "run"} : ~Chosen(option)
  /\ Exit(1)
  /\ UNCHANGED <<argumentVars, tokenizerVars, assemblerVars, program, listing, worldVars>>

(***************************************************************************)
(* Assembling.                                                             *)
(***************************************************************************)
StartAssembling ==
  /\ Dispatching
  /\ Chosen("assemble")
  /\ IF Value("input") \in DOMAIN texts
     THEN /\ stage' = "tokenizing"
          /\ text' = texts[Value("input")]
          /\ failed' = FALSE
          /\ offset' = 0 /\ previous' = 0 /\ mode' = "root" /\ depth' = 0
          /\ sink' = <<>> /\ scan' = "scanning" /\ reported' = {}
          /\ UNCHANGED status
     ELSE Exit(2) /\ UNCHANGED tokenizerVars
  /\ UNCHANGED <<argumentVars, assemblerVars, program, listing, worldVars>>

ReadText ==
  /\ stage = "tokenizing"
  /\ Tokenize
  /\ UNCHANGED <<argumentVars, assemblerVars, processVars, worldVars>>

\* Nobody catches what the tokenizer or a broken head throws.
Abort ==
  /\ \/ stage = "tokenizing" /\ scan = "raised"
     \/ stage = "assembling" /\ phase = "raised"
  /\ Exit(SIGABRT)
  /\ UNCHANGED <<argumentVars, tokenizerVars, assemblerVars, program, listing, worldVars>>

Spelled(characters) ==
  LET upTo[n \in 0..Len(characters)] ==
        IF n = 0 THEN "" ELSE upTo[n - 1] \o characters[n]
  IN  upTo[Len(characters)]

\* A token as the assembler reads it: a label without its colon, an identifier
\* split at its dot, and the characters of anything else.
Read(token) ==
  LET characters == SubSeq(text, token.begin + 1, token.end)
      dots == {n \in DOMAIN characters : characters[n] = "."}
      dot == CHOOSE n \in dots : \A k \in dots : n <= k
      last == Len(characters)
      as(cond, lexeme) == [type |-> token.type, cond |-> cond, lexeme |-> lexeme]
  IN  CASE token.type = "IDENTIFIER" /\ dots # {} ->
             as(Spelled(SubSeq(characters, 1, dot - 1)),
                Spelled(SubSeq(characters, dot + 1, last)))
        [] token.type = "IDENTIFIER" /\ dots = {} -> as("", Spelled(characters))
        [] token.type = "LABEL" -> as("", Spelled(SubSeq(characters, 1, last - 1)))
        [] OTHER -> as("", characters)

\* Errors leave a file as it is, and the process reports success.
GiveUp == Exit(IF ToFile THEN 0 ELSE 1)

StartParsing ==
  /\ stage = "tokenizing"
  /\ scan = "done"
  /\ IF failed
     THEN GiveUp /\ UNCHANGED assemblerVars
     ELSE /\ stage' = "assembling"
          /\ tokens' = [n \in DOMAIN sink |-> Read(sink[n])]
          /\ parsers' = <<[offset |-> 1, end |-> Len(sink) + 1]>>
          /\ defined' = {} /\ used' = {}
          /\ phase' = "parsing" /\ result' = <<>>
          /\ stack' = <<"t">> /\ code' = <<>> /\ links' = {}
          /\ labels' = [name \in {} |-> 0]
          /\ UNCHANGED status
  /\ UNCHANGED <<argumentVars, tokenizerVars, program, listing, worldVars>>

Assemble ==
  /\ stage = "assembling"
  /\ A!Next
  /\ UNCHANGED <<argumentVars, text, scannerVars, processVars, worldVars>>

Assembled == stage = "assembling" /\ phase = "done"

\* Faulty variant: the file is written whatever was reported.
WriteFileAlways ==
  /\ Assembled
  /\ ToFile
  /\ files' = [path \in DOMAIN files \cup {OutputPath} |->
                 IF path = OutputPath THEN Bytes(result) ELSE files[path]]
  /\ written' = [path \in DOMAIN written \ {OutputPath} |-> written[path]]
  /\ Exit(0)
  /\ UNCHANGED <<argumentVars, tokenizerVars, assemblerVars, program, listing,
                 pending, texts>>

\* The empty path cannot be opened.
WriteFile ==
  /\ Assembled
  /\ ToFile
  /\ IF failed \/ OutputPath = <<>>
     THEN /\ IF failed THEN GiveUp ELSE Exit(2)
          /\ UNCHANGED <<files, written>>
     ELSE /\ \E image \in {Bytes(result)} :
               files' = [path \in DOMAIN files \cup {OutputPath} |->
                 IF path # OutputPath THEN files[path]
                 ELSE IF Chosen("hex") THEN HexText(image) ELSE image]
          /\ written' = [path \in DOMAIN written \cup {OutputPath} |->
                 IF path # OutputPath THEN written[path]
                 ELSE [hex |-> Chosen("hex"), tokens |-> tokens]]
          /\ Exit(0)
  /\ UNCHANGED <<argumentVars, tokenizerVars, assemblerVars, program, listing,
                 pending, texts>>

(***************************************************************************)
(* Loading, listing and running.                                           *)
(***************************************************************************)
Emulate(bytes) ==
  \E image \in {bytes} :
    IF Readable(image)
    THEN program' = toProgram(image) /\ stage' = "console" /\ UNCHANGED status
    ELSE Exit(SIGABRT) /\ UNCHANGED program

RunAssembled ==
  /\ Assembled
  /\ ~ToFile
  /\ IF failed THEN GiveUp /\ UNCHANGED program ELSE Emulate(Bytes(result))
  /\ UNCHANGED <<argumentVars, tokenizerVars, assemblerVars, listing, worldVars>>

Loading == Dispatching /\ ~Chosen("assemble") /\ Value("input") \in DOMAIN files

\* The bytes of the program file that the input names.
loadBinaryInput ==
  LET content == files[Value("input")]
  IN  IF Chosen("hex") THEN decodeHexString(content) ELSE content

MissingFile ==
  /\ Dispatching
  /\ ~Chosen("assemble")
  /\ Chosen("disassemble") \/ Chosen("run")
  /\ Value("input") \notin DOMAIN files
  /\ Exit(2)
  /\ UNCHANGED <<argumentVars, tokenizerVars, assemblerVars, program, listing, worldVars>>

Disassemble ==
  /\ Loading
  /\ Chosen("disassemble")
  /\ \E image \in {loadBinaryInput} :
       IF Readable(image)
       THEN /\ program' = toProgram(image)
            /\ listing' = disassemble(program')
            /\ Exit(0)
       ELSE Exit(SIGABRT) /\ UNCHANGED <<program, listing>>
  /\ UNCHANGED <<argumentVars, tokenizerVars, assemblerVars, worldVars>>

RunLoaded ==
  /\ Loading
  /\ Chosen("run")
  /\ Emulate(loadBinaryInput)
  /\ UNCHANGED <<argumentVars, tokenizerVars, assemblerVars, listing, worldVars>>

\* What the console does with the program is in Emulator; the user may leave it.
Quit ==
  /\ stage = "console"
  /\ Exit(0)
  /\ UNCHANGED <<argumentVars, tokenizerVars, assemblerVars, program, listing, worldVars>>

Process ==
  \/ Invoke \/ ReadArguments \/ RefuseArguments \/ NoTask
  \/ StartAssembling \/ ReadText \/ Abort \/ StartParsing \/ Assemble
  \/ WriteFile \/ RunAssembled
  \/ MissingFile \/ Disassemble \/ RunLoaded

Next == Process \/ Quit

\* A process runs on by itself and the next one is invoked; nobody need quit.
Spec == Init /\ [][Next]_vars /\ WF_vars(Process)

(***************************************************************************)
(* Properties.                                                             *)
(***************************************************************************)
Over == stage = "exited" /\ pending = <<>>

\* No file is taken for what it is not.
KeptApart ==
  /\ Dispatching =>
       Value("input") \notin (IF Chosen("assemble") THEN DOMAIN files ELSE DOMAIN texts)
  /\ OutputPath \notin DOMAIN texts

\* Files hold bytes, and tokens lie one behind the other in the characters read.
TypeOK ==
  /\ KeptApart
  /\ \A path \in DOMAIN files : \A n \in DOMAIN files[path] : files[path][n] \in 0..255
  /\ offset \in 0..Len(text)
  /\ \A n \in DOMAIN sink :
       /\ (IF n = 1 THEN 0 ELSE sink[n - 1].end) <= sink[n].begin
       /\ sink[n].begin <= sink[n].end /\ sink[n].end <= offset
  /\ \A n \in DOMAIN program : program[n] \in Instruction
  /\ stage \in {"arguments", "tokenizing", "assembling", "console", "exited"}
  /\ status \in {0, 1, 2, SIGABRT}

\* A number's value, and whether reading it needs neither separators nor more than
\* an int.
NumberMeant(lexeme) ==
  LET form == NumberForm(lexeme)
      value[n \in form.from-1..Len(lexeme)] ==
        IF n < form.from THEN 0
        ELSE IF lexeme[n] = "'" THEN value[n - 1]
        ELSE form.base * value[n - 1] + DigitValue(lexeme[n])
  IN  value[Len(lexeme)]

Plain(lexeme) ==
  /\ \A n \in 1..Len(lexeme) : lexeme[n] # "'"
  /\ NumberMeant(lexeme) <= IntMax

Numbers == {"cid", "ctr", "set", "shr"}

\* The instruction that a statement means.
Meant(statement) ==
  LET put == Put(statement)
  IN  CASE statement.op \in Numbers ->
             [put EXCEPT !.b = WordOf(NumberMeant(statement.args[Len(statement.args)]))]
        [] statement.op = "nop" -> [put EXCEPT !.cond = FlagValues]
        [] OTHER -> put

AllPlain(meaning) ==
  \A n \in DOMAIN meaning :
    meaning[n].op \in Numbers => Plain(meaning[n].args[Len(meaning[n].args)])

ProgramOf(meaning) == [n \in DOMAIN meaning |-> Meant(meaning[n])]

IsProgramOf(source) ==
  /\ Source(source)!WellFormed
  /\ A!INSTRUCTION_SIZE * Cardinality(Source(source)!Statements) < OffsetMod
  /\ AllPlain(Source(source)!Meaning)
  => program = ProgramOf(Source(source)!Meaning)

\* What was loaded is run, was listed, or was refused.
Loaded ==
  \/ stage = "console"
  \/ listing # <<>>
  \/ stage = "exited" /\ status = SIGABRT /\ parse = "parsed" /\ ~Chosen("assemble")

\* A program comes through: what is loaded from a file that was assembled, in the
\* form in which it was written, and what is run at once, is what the source
\* means, as long as its labels' offsets fit the writer's width; but for numbers
\* with separators or beyond an int (controller.cpp, reader.cpp, parseImmediate,
\* writer.cpp).
ProgramsSurvive ==
  Loaded =>
    IF Chosen("assemble")
    THEN IsProgramOf(tokens)
    ELSE /\ Value("input") \in DOMAIN written
         /\ written[Value("input")].hex = Chosen("hex")
         => IsProgramOf(written[Value("input")].tokens)

\* What the language has a name for: not the mask of a CTR, which the listing
\* leaves out, or one of a CID, a jump behind the program, or a condition of bits.
Printable ==
  \A n \in DOMAIN program :
    /\ program[n].op # "CTR"
    /\ program[n].op = "CID" => program[n].a = Zero
    /\ Mnemonic(program[n].cond) # "bits"
    /\ program[n].op = "JPI" => JumpAddress(program[n].a, program[n].b) < Len(program)

\* A listing without its addresses is a source of the program that it lists
\* (CoreState::disassemble, Labeler, MicroInst::string).
ListingReadsBack ==
  listing # <<>> /\ Printable =>
    /\ Source(listing)!WellFormed
    /\ [n \in DOMAIN Source(listing)!Meaning |-> Put(Source(listing)!Meaning[n])] = program

\* A file is only ever changed by an invocation that assembles to its path, and
\* only when nothing was reported: an error leaves every file as it was, and a
\* program file never holds the result of a source with errors (controller.cpp,
\* main.cpp).
FilesHoldPrograms ==
  [][/\ DOMAIN files \subseteq DOMAIN files'
     /\ \A path \in DOMAIN files' :
          \/ path \in DOMAIN files /\ files'[path] = files[path]
          \/ /\ Chosen("assemble") /\ parse = "parsed" /\ path = OutputPath
             /\ phase = "done" /\ ~failed /\ used \subseteq defined]_vars

\* Whatever it is given, the program ends or waits at the console.
Ends == []<>(Over \/ stage = "console")
=============================================================================
