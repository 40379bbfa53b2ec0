-------------------------- MODULE ToolchainProofs --------------------------
(***************************************************************************)
(* What invocations do to files, how their command lines are read, and     *)
(* what the tokenizer makes of sources, for every scenario and source.     *)
(***************************************************************************)
EXTENDS Toolchain, MicroArchProofs, WellFoundedInduction, FiniteSetTheorems, SequenceTheorems, TLAPS

\* A process assembles because it was asked to, and when its assembler is done
\* without an error no label is missing.
FileInv ==
  /\ stage \in {"tokenizing", "assembling"} => Chosen("assemble") /\ parse = "parsed"
  /\ stage = "assembling" /\ phase = "done" /\ ~failed => used \subseteq defined

\* Nothing runs at the start.
LEMMA FileInit == Init => FileInv
  BY DEF Init, FileInv

\* A turn of the assembler reports a missing label when it is done (assemble).
LEMMA AssembleStep ==
  ASSUME FileInv, Assemble
  PROVE  FileInv'
<1>1. /\ stage = "assembling" /\ stage' = "assembling"
      /\ UNCHANGED <<usages, parse>>
  BY DEF Assemble, processVars, argumentVars, collectorVars
<1>2. Chosen("assemble")' /\ parse' = "parsed"
  BY <1>1 DEF FileInv, Chosen
<1>3. ASSUME phase' = "done", ~failed'
      PROVE  used' \subseteq defined'
  <2>1. A!Next
    BY DEF Assemble
  <2>2. CASE A!Finish
    BY <1>3, <2>2 DEF A!Finish
  <2>3. CASE A!CloseBlock
    BY <1>3, <2>3 DEF A!CloseBlock
  <2>4. CASE A!BrokenHead \/ A!BrokenStatement
    BY <1>3, <2>4 DEF A!BrokenHead, A!BrokenStatement, A!Raise
  <2>5. CASE A!SkipBreak \/ A!OpenBlock \/ A!DefineLabel
    BY <1>3, <2>5 DEF A!SkipBreak, A!OpenBlock, A!DefineLabel, A!Parsing
  <2>6. CASE A!WriteOperation \/ A!WriteJump \/ A!RejectStatement
    BY <1>3, <2>6 DEF A!WriteOperation, A!WriteJump, A!RejectStatement,
      A!WellHeaded, A!AtStatement, A!Parsing
  <2> QED
    BY <2>1, <2>2, <2>3, <2>4, <2>5, <2>6 DEF A!Next
<1> QED
  BY <1>1, <1>2, <1>3 DEF FileInv

\* A process that assembles goes from its text to its tokens and no other way
\* (main, assemble).
LEMMA FileStep == FileInv /\ [Next]_vars => FileInv'
<1> SUFFICES ASSUME FileInv, [Next]_vars PROVE FileInv'
  OBVIOUS
<1> USE DEF FileInv, Chosen, Exit
<1>1. CASE Invoke \/ ReadArguments \/ RefuseArguments \/ NoTask
  BY <1>1 DEF Invoke, ReadArguments, RefuseArguments, NoTask, processVars
<1>2. CASE StartAssembling
  BY <1>2 DEF StartAssembling, Dispatching, argumentVars, collectorVars
<1>3. CASE ReadText
  BY <1>3 DEF ReadText, processVars, argumentVars, collectorVars
<1>4. CASE StartParsing
  BY <1>4 DEF StartParsing, GiveUp, argumentVars, collectorVars
<1>5. CASE Assemble
  BY <1>5, AssembleStep
<1>6. CASE Abort \/ WriteFile \/ Quit \/ MissingFile
  BY <1>6 DEF Abort, WriteFile, GiveUp, Quit, MissingFile
<1>7. CASE RunAssembled \/ Disassemble \/ RunLoaded
  BY <1>7 DEF RunAssembled, Disassemble, RunLoaded, Emulate, GiveUp, Loading, Dispatching
<1>8. CASE UNCHANGED vars
  BY <1>8 DEF vars, argumentVars, collectorVars, tokenizerVars, assemblerVars, processVars
<1> QED
  BY <1>1, <1>2, <1>3, <1>4, <1>5, <1>6, <1>7, <1>8 DEF Next, Process

\* The output of an assembled program is the one file that is written
\* (writeBinaryOutput).
LEMMA WriteFileStep ==
  ASSUME FileInv, WriteFile
  PROVE  /\ DOMAIN files \subseteq DOMAIN files'
         /\ \A path \in DOMAIN files' :
              \/ path \in DOMAIN files /\ files'[path] = files[path]
              \/ /\ Chosen("assemble") /\ parse = "parsed" /\ path = OutputPath
                 /\ phase = "done" /\ ~failed /\ used \subseteq defined
<1>1. stage = "assembling" /\ phase = "done"
  BY DEF WriteFile, Assembled
<1>2. CASE failed \/ OutputPath = <<>>
  BY <1>2 DEF WriteFile
<1>3. CASE ~(failed \/ OutputPath = <<>>)
  <2>1. PICK image : files' = [path \in DOMAIN files \cup {OutputPath} |->
                                 IF path # OutputPath THEN files[path]
                                 ELSE IF Chosen("hex") THEN HexText(image) ELSE image]
    BY <1>3 DEF WriteFile
  <2>2. DOMAIN files' = DOMAIN files \cup {OutputPath}
    BY <2>1
  <2>3. \A path \in DOMAIN files : path # OutputPath => files'[path] = files[path]
    BY <2>1
  <2>4. Chosen("assemble") /\ parse = "parsed" /\ ~failed /\ used \subseteq defined
    BY <1>1, <1>3 DEF FileInv
  <2> QED
    BY <1>1, <2>2, <2>3, <2>4
<1> QED
  BY <1>2, <1>3

\* Every file that an invocation writes is the output of a source that was
\* assembled without an error, and all others stay (controller.cpp, main.cpp).
THEOREM FilesAlwaysHoldPrograms == Spec => FilesHoldPrograms
<1>1. ASSUME FileInv, Next
      PROVE  \/ UNCHANGED files
             \/ WriteFile
  <2> USE DEF worldVars
  <2>1. CASE Invoke \/ ReadArguments \/ RefuseArguments \/ NoTask \/ StartAssembling
    BY <2>1 DEF Invoke, ReadArguments, RefuseArguments, NoTask, StartAssembling
  <2>2. CASE ReadText \/ Abort \/ StartParsing \/ Assemble
    BY <2>2 DEF ReadText, Abort, StartParsing, Assemble
  <2>3. CASE RunAssembled \/ MissingFile \/ Disassemble \/ RunLoaded \/ Quit
    BY <2>3 DEF RunAssembled, MissingFile, Disassemble, RunLoaded, Quit
  <2> QED
    BY <1>1, <2>1, <2>2, <2>3 DEF Next, Process
<1>2. ASSUME FileInv, [Next]_vars
      PROVE  [/\ DOMAIN files \subseteq DOMAIN files'
              /\ \A path \in DOMAIN files' :
                   \/ path \in DOMAIN files /\ files'[path] = files[path]
                   \/ /\ Chosen("assemble") /\ parse = "parsed" /\ path = OutputPath
                      /\ phase = "done" /\ ~failed /\ used \subseteq defined]_vars
  BY <1>1, <1>2, WriteFileStep
<1> QED
  BY <1>2, FileInit, FileStep, PTL DEF Spec, FilesHoldPrograms

(***************************************************************************)
(* The tokenizer's classes of characters and its searches.                 *)
(***************************************************************************)

\* The digits of a base, told one by one.
LEMMA DigitClasses ==
  /\ DigitsOf(2) = {"0", "1"}
  /\ octal = {"0", "1", "2", "3", "4", "5", "6", "7"}
  /\ decimal = {"0", "1", "2", "3", "4", "5", "6", "7", "8", "9"}
  /\ hexadecimal = decimal \cup {"a", "b", "c", "d", "e", "f"}
                           \cup {"A", "B", "C", "D", "E", "F"}
<1>1. /\ Digits[1] = "0" /\ Digits[2] = "1" /\ Digits[3] = "2" /\ Digits[4] = "3"
      /\ Digits[5] = "4" /\ Digits[6] = "5" /\ Digits[7] = "6" /\ Digits[8] = "7"
      /\ Digits[9] = "8" /\ Digits[10] = "9" /\ Digits[11] = "a" /\ Digits[12] = "b"
      /\ Digits[13] = "c" /\ Digits[14] = "d" /\ Digits[15] = "e" /\ Digits[16] = "f"
  BY DEF Digits
<1>2. /\ Capitals[1] = "A" /\ Capitals[2] = "B" /\ Capitals[3] = "C"
      /\ Capitals[4] = "D" /\ Capitals[5] = "E" /\ Capitals[6] = "F"
  BY DEF Capitals
<1>3. {Capitals[n] : n \in 1..2-10} = {} /\ {Capitals[n] : n \in 1..8-10} = {}
      /\ {Capitals[n] : n \in 1..10-10} = {}
  OBVIOUS
<1>4. {Digits[n] : n \in 1..2} = {"0", "1"}
  <2>1. 1..2 = {1, 2}
    OBVIOUS
  <2> QED
    BY <1>1, <2>1
<1>5. {Digits[n] : n \in 1..8} = {"0", "1", "2", "3", "4", "5", "6", "7"}
  <2>1. 1..8 = {1, 2, 3, 4, 5, 6, 7, 8}
    OBVIOUS
  <2> QED
    BY <1>1, <2>1
<1>6. {Digits[n] : n \in 1..10} = {"0", "1", "2", "3", "4", "5", "6", "7", "8", "9"}
  <2>1. 1..10 = {1, 2, 3, 4, 5, 6, 7, 8, 9, 10}
    OBVIOUS
  <2> QED
    BY <1>1, <2>1
<1>7. {Digits[n] : n \in 1..16} = {"0", "1", "2", "3", "4", "5", "6", "7", "8", "9"}
                                    \cup {"a", "b", "c", "d", "e", "f"}
  <2>1. 1..16 = {1, 2, 3, 4, 5, 6, 7, 8, 9, 10, 11, 12, 13, 14, 15, 16}
    OBVIOUS
  <2> QED
    BY <1>1, <2>1
<1>8. {Capitals[n] : n \in 1..16-10} = {"A", "B", "C", "D", "E", "F"}
  <2>1. 1..16-10 = {1, 2, 3, 4, 5, 6}
    OBVIOUS
  <2> QED
    BY <1>2, <2>1
<1> QED
  BY <1>3, <1>4, <1>5, <1>6, <1>7, <1>8 DEF DigitsOf, octal, decimal, hexadecimal

\* What belongs to letters and digits, and what does not.
LEMMA Classes ==
  /\ decimal \subseteq alphanumeric /\ octal \subseteq decimal /\ hexadecimal \subseteq alphanumeric
  /\ alphabetic \subseteq alphanumeric /\ alphabetic \cap decimal = {}
  /\ alphanumeric \cap {"NUL", ";", ",", ":", ".", "$", "'", "\"", "\\", "/", "*"} = {}
  /\ alphanumeric \cap whitespace = {}
  /\ DOMAIN radix = {"x", "o", "b"} /\ DOMAIN radix \subseteq alphabetic
  /\ \A prefix \in DOMAIN radix : radix[prefix] \subseteq hexadecimal
<1>1. /\ decimal \subseteq alphanumeric /\ octal \subseteq decimal
      /\ hexadecimal \subseteq alphanumeric /\ alphabetic \subseteq alphanumeric
  BY DigitClasses DEF alphanumeric, alphabetic
<1>2. alphabetic \cap decimal = {}
  BY DigitClasses, NamesAssumption DEF alphabetic
<1>3. alphabetic \cap {"NUL", ";", ",", ":", ".", "$", "'", "\"", "\\", "/", "*"} = {}
  BY DigitClasses, NamesAssumption DEF alphabetic
<1>4. alphabetic \cap whitespace = {}
  BY DigitClasses, NamesAssumption DEF alphabetic, whitespace
<1>5. decimal \cap {"NUL", ";", ",", ":", ".", "$", "'", "\"", "\\", "/", "*"} = {}
      /\ decimal \cap whitespace = {}
  BY DigitClasses DEF whitespace
<1>6. DOMAIN radix = {"x", "o", "b"}
      /\ radix["x"] = hexadecimal /\ radix["o"] = octal /\ radix["b"] = DigitsOf(2)
  BY DEF radix
<1>7. DOMAIN radix \subseteq alphabetic
  BY <1>6, DigitClasses DEF alphabetic
<1>8. \A prefix \in DOMAIN radix : radix[prefix] \subseteq hexadecimal
  BY <1>6, DigitClasses
<1> QED
  BY <1>1, <1>2, <1>3, <1>4, <1>5, <1>6, <1>7, <1>8 DEF alphanumeric

\* A set of places has a first one.
LEMMA FirstPlace ==
  ASSUME NEW T \in SUBSET Nat, T # {}
  PROVE  \E x \in T : \A y \in T : x <= y
<1>1. \E x \in T : \A y \in T : ~(<<y, x>> \in OpToRel(<, Nat))
  BY NatLessThanWellFounded, WFMin
<1>2. PICK x \in T : \A y \in T : ~(<<y, x>> \in OpToRel(<, Nat))
  BY <1>1
<1>3. \A y \in T : ~(y < x)
  BY <1>2 DEF OpToRel
<1> QED
  BY <1>3

\* From a place there is a first one that stops, if any does.
LEMMA FirstStop ==
  ASSUME NEW p \in Nat, NEW n \in Nat, NEW stops, \E q \in p..n : q \in stops
  PROVE  \E q \in p..n : q \in stops /\ \A i \in p..q-1 : i \notin stops
<1> DEFINE T == {q \in p..n : q \in stops}
<1>1. T \in SUBSET Nat /\ T # {}
  OBVIOUS
<1>2. PICK q \in T : \A y \in T : q <= y
  BY <1>1, FirstPlace
<1> QED
  BY <1>2

\* The characters of a text, and the end behind them.
LEMMA TextPlaces ==
  ASSUME IsText(text)
  PROVE  /\ Len(text) \in Nat
         /\ \A p \in Nat : At(p) = "NUL" <=> p >= Len(text)
<1>1. Len(text) \in Nat /\ DOMAIN text = 1..Len(text)
  BY LenProperties DEF IsText
<1> QED
  BY <1>1 DEF At, IsText

\* A greedy match ends where the class does (Lexer::greedy).
LEMMA GreedyMatch ==
  ASSUME IsText(text), NEW p \in 0..Len(text), NEW class, "NUL" \notin class
  PROVE  /\ Behind(p, class) \in p..Len(text)
         /\ At(Behind(p, class)) \notin class
         /\ \A i \in p..Behind(p, class)-1 : At(i) \in class
<1> DEFINE stops == {q \in p..Len(text) : At(q) \notin class}
<1>1. Len(text) \in Nat /\ p \in Nat /\ Len(text) \in stops
  BY TextPlaces
<1>2. \E q \in p..Len(text) : q \in stops /\ \A i \in p..q-1 : i \notin stops
  BY <1>1, FirstStop
<1>3. \E q \in p..Len(text) : At(q) \notin class /\ \A i \in p..q-1 : At(i) \in class
  BY <1>1, <1>2
<1> QED
  BY <1>3 DEF Behind

\* Digits, with one separator behind each that another may follow.
Goes(p, class, q) == At(q) \in class \/ (q > p /\ At(q) = "'" /\ At(q - 1) \in class)

\* So do digits with their separators (scanInteger).
LEMMA DigitsMatch ==
  ASSUME IsText(text), NEW p \in 0..Len(text), NEW class, "NUL" \notin class
  PROVE  /\ BehindDigits(p, class) \in p..Len(text)
         /\ ~Goes(p, class, BehindDigits(p, class))
         /\ \A i \in p..BehindDigits(p, class)-1 : Goes(p, class, i)
<1> DEFINE stops == {q \in p..Len(text) : ~Goes(p, class, q)}
<1>1. Len(text) \in Nat /\ p \in Nat /\ Len(text) \in stops
  BY TextPlaces DEF Goes
<1>2. \E q \in p..Len(text) : q \in stops /\ \A i \in p..q-1 : i \notin stops
  BY <1>1, FirstStop
<1>3. \E q \in p..Len(text) : ~Goes(p, class, q) /\ \A i \in p..q-1 : Goes(p, class, i)
  BY <1>1, <1>2
<1> QED
  BY <1>3 DEF BehindDigits, Goes

\* The same without a prefix, where a digit that stands alone behind a separator is
\* the last.
GoesGrouped(p, q) ==
  \/ At(q) \in decimal
  \/ q > p /\ At(q) = "'" /\ At(q - 1) \in decimal /\ ~(q > p + 1 /\ At(q - 2) = "'")

\* So do these (scanInteger).
LEMMA GroupsMatch ==
  ASSUME IsText(text), NEW p \in 0..Len(text)
  PROVE  /\ BehindGroups(p) \in p..Len(text)
         /\ ~GoesGrouped(p, BehindGroups(p))
         /\ \A i \in p..BehindGroups(p)-1 : GoesGrouped(p, i)
<1> DEFINE stops == {q \in p..Len(text) : ~GoesGrouped(p, q)}
<1>1. Len(text) \in Nat /\ p \in Nat /\ Len(text) \in stops
  <2>1. "NUL" \notin decimal
    BY DigitClasses
  <2> QED
    BY <2>1, TextPlaces DEF GoesGrouped
<1>2. \E q \in p..Len(text) : q \in stops /\ \A i \in p..q-1 : i \notin stops
  BY <1>1, FirstStop
<1>3. \E q \in p..Len(text) : ~GoesGrouped(p, q) /\ \A i \in p..q-1 : GoesGrouped(p, i)
  BY <1>1, <1>2
<1> QED
  BY <1>3 DEF BehindGroups, GoesGrouped

\* The next register of a set.
Ascends(p, q) ==
  /\ At(q) \in octal
  /\ q > p + 1 => DigitValue(At(q - 1)) < DigitValue(At(q))

\* So do registers (scanRegisterSet).
LEMMA RegistersMatch ==
  ASSUME IsText(text), offset \in Nat, offset < Len(text)
  PROVE  /\ RegistersEnd \in offset+1..Len(text)
         /\ ~Ascends(offset, RegistersEnd)
         /\ \A i \in offset+1..RegistersEnd-1 : Ascends(offset, i)
<1> DEFINE stops == {q \in offset+1..Len(text) : ~Ascends(offset, q)}
<1>1. PICK p \in Nat, n \in Nat : p = offset + 1 /\ n = Len(text) /\ p <= n
  BY TextPlaces
<1>2. "NUL" \notin octal
  BY DigitClasses
<1>3. n \in stops
  BY <1>1, <1>2, TextPlaces DEF Ascends
<1>4. \A q \in p..n : q \in stops <=> ~Ascends(offset, q)
  BY <1>1
<1> HIDE DEF stops
<1>5. \E q \in p..n : q \in stops /\ \A i \in p..q-1 : i \notin stops
  <2>1. \E q \in p..n : q \in stops
    BY <1>3, <1>1
  <2> QED
    BY <2>1, FirstStop
<1>6. \E q \in p..n : ~Ascends(offset, q) /\ \A i \in p..q-1 : Ascends(offset, i)
  BY <1>1, <1>4, <1>5
<1>7. \E q \in offset+1..Len(text) :
        ~Ascends(offset, q) /\ \A i \in offset+1..q-1 : Ascends(offset, i)
  BY <1>1, <1>6
<1> QED
  BY <1>7 DEF RegistersEnd, Ascends

(***************************************************************************)
(* Words of the language, by the character that they begin with.           *)
(***************************************************************************)

\* What a token is to be (TokensRead).
IsWord(token) ==
  token.begin < Len(text) =>
    /\ Lexeme(token.type, token.begin, token.end)
    /\ token.type # "STRING" =>
         \A q \in EndsFrom(token.begin) : q <= token.end \/ LoneDigit(token.end - 1)
    /\ token.type \in {"INTEGER", "REGSET", "IDENTIFIER"} => At(token.end) \notin alphanumeric

\* The forms of words, one by one.
LEMMA LexemeForms ==
  ASSUME NEW p, NEW q
  PROVE  /\ Lexeme("LABEL", p, q) <=>
              At(p) \in alphabetic /\ All(p, q - 1, alphanumeric) /\ At(q - 1) = ":"
         /\ Lexeme("IDENTIFIER", p, q) <=>
              /\ At(p) \in alphabetic
              /\ \E dot \in p+1..q : /\ All(p, dot, alphanumeric)
                                     /\ All(dot + 1, q, alphanumeric)
                                     /\ dot < q => At(dot) = "."
         /\ Lexeme("REGSET", p, q) <=>
              /\ At(p) = "$"
              /\ All(p + 1, q, octal)
              /\ \A i, j \in p+1..q-1 : i < j => DigitValue(At(i)) < DigitValue(At(j))
         /\ Lexeme("INTEGER", p, q) <=>
              \/ q > p /\ IsNumber(p, q, decimal) /\ At(q - 1) # "'"
              \/ /\ q >= p + 2 /\ At(p) = "0" /\ At(p + 1) \in DOMAIN radix
                 /\ IsNumber(p + 2, q, radix[At(p + 1)])
  BY Zenon DEF Lexeme

\* Characters that are words.
single == {"\n", ";", ","}

\* A break or a symbol is one character.
LEMMA SingleForms ==
  ASSUME NEW p, NEW q
  PROVE  /\ Lexeme("BREAK", p, q) => q = p + 1 /\ At(p) \in single
         /\ Lexeme("SYMBOL", p, q) => q = p + 1 /\ At(p) \in single
  BY Zenon DEF Lexeme, single

\* What is neither a letter nor a digit.
LEMMA SingleClass ==
  /\ single \cap (alphabetic \cup decimal \cup {"$"}) = {}
  /\ "$" \notin alphabetic \cup decimal
<1>1. single \subseteq whitespace \cup {";", ","}
  BY Zenon DEF single, whitespace
<1>2. (alphabetic \cup decimal) \cap (whitespace \cup {";", ",", "$"}) = {}
  BY Classes
<1>3. "$" \notin single
  BY DEF single
<1> QED
  BY <1>1, <1>2, <1>3

\* The words that a character begins.
LEMMA WordsFrom ==
  ASSUME IsText(text), NEW p \in Nat, NEW q \in EndsFrom(p)
  PROVE  /\ q \in p+1..Len(text)
         /\ \/ At(p) \in alphabetic /\ (Lexeme("LABEL", p, q) \/ Lexeme("IDENTIFIER", p, q))
            \/ At(p) \in decimal /\ Lexeme("INTEGER", p, q)
            \/ At(p) = "$" /\ Lexeme("REGSET", p, q)
            \/ At(p) \in single /\ q = p + 1
<1>1. Len(text) \in Nat /\ q \in p+1..Len(text) /\ q > p /\ q \in Nat
  BY TextPlaces DEF EndsFrom
<1>2. PICK type \in ScannedTypes : Lexeme(type, p, q)
  BY DEF EndsFrom
<1>3. CASE type \in {"BREAK", "SYMBOL"}
  BY <1>1, <1>2, <1>3, SingleForms
<1>4. CASE type \in {"LABEL", "IDENTIFIER"}
  BY <1>1, <1>2, <1>4, LexemeForms
<1>5. CASE type = "REGSET"
  BY <1>1, <1>2, <1>5, LexemeForms
<1>6. CASE type = "INTEGER"
  <2>1. At(p) \in decimal
    <3>1. CASE IsNumber(p, q, decimal)
      <4>1. At(p) \in decimal \cup {"'"} /\ (At(p) = "'" => p > p)
        BY <1>1, <3>1 DEF IsNumber, All
      <4> QED
        BY <4>1
    <3>2. CASE At(p) = "0"
      BY <3>2, DigitClasses
    <3> QED
      BY <1>2, <1>6, <3>1, <3>2, LexemeForms
  <2> QED
    BY <1>1, <1>2, <1>6, <2>1
<1> QED
  BY <1>1, <1>2, <1>3, <1>4, <1>5, <1>6 DEF ScannedTypes

\* A character that begins no word.
LEMMA NoWord ==
  ASSUME IsText(text), NEW p \in Nat,
         At(p) \notin whitespace \cup alphanumeric \cup {";", "\"", "$", ","}
  PROVE  EndsFrom(p) = {}
<1>1. single \subseteq whitespace \cup {";", ","}
  BY Zenon DEF single, whitespace
<1>2. At(p) \notin alphabetic \cup decimal /\ At(p) \notin single /\ At(p) # "$"
  BY <1>1, Zenon DEF alphanumeric
<1> QED
  BY <1>2, WordsFrom

\* Breaks and commas.
LEMMA SymbolRead ==
  ASSUME IsText(text), offset \in Nat, offset < Len(text),
         NEW type \in {"BREAK", "SYMBOL"}, Lexeme(type, offset, offset + 1)
  PROVE  IsWord(Token(type, offset, offset + 1))
<1>1. PICK p \in Nat : p = offset
  OBVIOUS
<1>2. \A q \in EndsFrom(p) : q <= p + 1
  <2> SUFFICES ASSUME NEW q \in EndsFrom(p) PROVE q <= p + 1
    OBVIOUS
  <2>1. At(p) \in single
    BY <1>1, SingleForms
  <2>2. q = p + 1
    BY <1>1, <2>1, SingleClass, WordsFrom
  <2> QED
    BY <1>1, <2>2
<1> QED
  BY <1>1, <1>2 DEF IsWord, Token

\* Letters and digits that begin with a letter: where they end is where all words end
\* that begin there, but for one behind a dot or a colon.
LEMMA IdentifierRead ==
  ASSUME IsText(text), offset \in Nat, offset < Len(text), At(offset) \in alphabetic,
         NEW end, end = Behind(offset, alphanumeric)
  PROVE  /\ end \in offset+1..Len(text)
         /\ At(end) = ":" => end + 1 <= Len(text) /\ IsWord(Token("LABEL", offset, end + 1))
         /\ At(end) = "." => /\ Behind(end + 1, alphanumeric) \in end+1..Len(text)
                             /\ IsWord(Token("IDENTIFIER", offset, Behind(end + 1, alphanumeric)))
         /\ At(end) \notin {":", "."} => IsWord(Token("IDENTIFIER", offset, end))
<1>1. PICK p \in Nat, n \in Nat : p = offset /\ n = Len(text) /\ p < n
  BY TextPlaces
<1>2. "NUL" \notin alphanumeric /\ ":" \notin alphanumeric /\ "." \notin alphanumeric
  BY Classes
<1>3. At(p) \in alphabetic /\ At(p) \in alphanumeric /\ At(p) \notin decimal
      /\ At(p) # "$" /\ At(p) \notin single
  BY <1>1, Classes, SingleClass
<1>4. end \in p..n /\ At(end) \notin alphanumeric /\ \A i \in p..end-1 : At(i) \in alphanumeric
  BY <1>1, <1>2, GreedyMatch
<1>5. end \in p+1..n /\ end \in Nat /\ end # p
  BY <1>1, <1>3, <1>4
<1>6. \A q \in EndsFrom(p) :
        /\ q \in Nat
        /\ \/ q = end + 1 /\ At(end) = ":"
           \/ q <= end
           \/ At(end) = "." /\ \A i \in end+1..q-1 : At(i) \in alphanumeric
  <2> SUFFICES ASSUME NEW q \in EndsFrom(p)
               PROVE  /\ q \in Nat
                      /\ \/ q = end + 1 /\ At(end) = ":"
                         \/ q <= end
                         \/ At(end) = "." /\ \A i \in end+1..q-1 : At(i) \in alphanumeric
    OBVIOUS
  <2>1. q \in Nat /\ q > p /\ (Lexeme("LABEL", p, q) \/ Lexeme("IDENTIFIER", p, q))
    <3>1. q \in p+1..n /\ (Lexeme("LABEL", p, q) \/ Lexeme("IDENTIFIER", p, q))
      BY <1>1, <1>3, WordsFrom
    <3> QED
      BY <3>1
  <2>2. CASE Lexeme("LABEL", p, q)
    <3>1. (\A i \in p..q-1-1 : At(i) \in alphanumeric) /\ At(q - 1) = ":"
      BY <2>2, LexemeForms DEF All
    <3>2. q - 1 >= end
      BY <1>2, <1>4, <1>5, <2>1, <3>1
    <3>3. ~(q - 1 > end)
      BY <1>4, <1>5, <2>1, <3>1
    <3> QED
      BY <1>5, <2>1, <3>1, <3>2, <3>3
  <2>3. CASE Lexeme("IDENTIFIER", p, q)
    <3>1. PICK dot \in p+1..q : /\ \A i \in p..dot-1 : At(i) \in alphanumeric
                                /\ \A i \in dot+1..q-1 : At(i) \in alphanumeric
                                /\ dot < q => At(dot) = "."
      BY <2>3, LexemeForms DEF All
    <3>2. dot <= end
      BY <1>4, <1>5, <2>1, <3>1
    <3>3. CASE dot = q
      BY <3>2, <3>3
    <3>4. CASE dot < q
      <4>1. dot = end
        BY <1>2, <1>4, <1>5, <2>1, <3>1, <3>2, <3>4
      <4> QED
        BY <2>1, <3>1, <3>4, <4>1
    <3> QED
      BY <2>1, <3>1, <3>3, <3>4
  <2> QED
    BY <2>1, <2>2, <2>3
<1>7. CASE At(end) = ":"
  <2>1. end < n
    BY <1>1, <1>4, <1>5, <1>7, TextPlaces
  <2>2. \A q \in EndsFrom(p) : q <= end + 1
    BY <1>5, <1>6, <1>7
  <2>3. Lexeme("LABEL", p, end + 1)
    <3>1. end + 1 - 1 = end
      BY <1>5
    <3>2. All(p, end, alphanumeric)
      BY <1>4 DEF All
    <3> QED
      BY <1>3, <1>5, <1>7, <3>1, <3>2, LexemeForms
  <2>4. IsWord(Token("LABEL", p, end + 1))
    BY <2>2, <2>3 DEF IsWord, Token
  <2> QED
    BY <1>1, <1>5, <1>7, <2>1, <2>4
<1>8. CASE At(end) = "."
  <2>1. end < n
    BY <1>1, <1>4, <1>5, <1>8, TextPlaces
  <2>2. PICK last : last = Behind(end + 1, alphanumeric)
    OBVIOUS
  <2>3. last \in end+1..n /\ At(last) \notin alphanumeric
        /\ \A i \in end+1..last-1 : At(i) \in alphanumeric
    <3>1. end + 1 \in 0..Len(text)
      BY <1>1, <1>5, <2>1
    <3> QED
      BY <1>1, <1>2, <2>2, <3>1, GreedyMatch
  <2>4. \A q \in EndsFrom(p) : q <= last
    <3> SUFFICES ASSUME NEW q \in EndsFrom(p) PROVE q <= last
      OBVIOUS
    <3>1. q \in p+1..n
      BY <1>1, WordsFrom
    <3>2. q <= end \/ \A i \in end+1..q-1 : At(i) \in alphanumeric
      BY <1>6, <1>8
    <3> QED
      BY <1>1, <1>5, <2>3, <3>1, <3>2
  <2>5. Lexeme("IDENTIFIER", p, last)
    <3>1. end \in p+1..last /\ All(p, end, alphanumeric) /\ All(end + 1, last, alphanumeric)
          /\ At(end) = "."
      BY <1>4, <1>5, <1>8, <2>3 DEF All
    <3> QED
      BY <1>3, <3>1, LexemeForms
  <2>6. IsWord(Token("IDENTIFIER", p, last))
    BY <2>3, <2>4, <2>5 DEF IsWord, Token
  <2> QED
    BY <1>1, <1>5, <1>8, <2>2, <2>3, <2>6
<1>9. CASE At(end) \notin {":", "."}
  <2>1. \A q \in EndsFrom(p) : q <= end
    BY <1>6, <1>9
  <2>2. Lexeme("IDENTIFIER", p, end)
    <3>1. end \in p+1..end /\ All(p, end, alphanumeric) /\ All(end + 1, end, alphanumeric)
      BY <1>4, <1>5 DEF All
    <3> QED
      BY <1>3, <1>5, <3>1, LexemeForms
  <2>3. IsWord(Token("IDENTIFIER", p, end))
    BY <1>4, <2>1, <2>2 DEF IsWord, Token
  <2> QED
    BY <1>1, <1>5, <1>9, <2>3
<1> QED
  BY <1>7, <1>8, <1>9

\* A number of a class that goes on from p stops where every such number has stopped.
LEMMA NumberStops ==
  ASSUME IsText(text), NEW p \in Nat, p <= Len(text), NEW class, "NUL" \notin class,
         "'" \notin class, NEW end, end = BehindDigits(p, class)
  PROVE  /\ end \in p..Len(text) /\ end \in Nat
         /\ IsNumber(p, end, class)
         /\ At(end) \notin class
         /\ \A q \in Nat : IsNumber(p, q, class) => q <= end
         /\ \A q \in Nat : p <= q /\ q < end => At(q) \in class \cup {"'"}
<1>1. PICK n \in Nat : n = Len(text) /\ p <= n
  BY TextPlaces
<1>2. end \in p..n /\ ~Goes(p, class, end) /\ \A i \in p..end-1 : Goes(p, class, i)
  BY <1>1, DigitsMatch
<1>3. end \in Nat /\ p <= end
  BY <1>2
<1>4. IsNumber(p, end, class)
  BY <1>2 DEF IsNumber, All, Goes
<1>5. \A q \in Nat : IsNumber(p, q, class) => q <= end
  <2> SUFFICES ASSUME NEW q \in Nat, IsNumber(p, q, class), q > end PROVE FALSE
    BY <1>3
  <2>1. end \in p..q-1
    BY <1>3
  <2>2. At(end) \in class \cup {"'"} /\ (At(end) = "'" => end > p /\ At(end - 1) # "'")
    BY <2>1 DEF IsNumber, All
  <2>3. end > p => At(end - 1) \in class \cup {"'"}
    <3>1. end > p => end - 1 \in p..q-1
      BY <1>3, <2>1
    <3> QED
      BY <3>1 DEF IsNumber, All
  <2> QED
    BY <1>2, <2>2, <2>3 DEF Goes
<1>6. \A q \in Nat : p <= q /\ q < end => At(q) \in class \cup {"'"}
  BY <1>2, <1>3 DEF Goes
<1> QED
  BY <1>1, <1>2, <1>3, <1>4, <1>5, <1>6 DEF Goes

\* So does one without a prefix, but behind a digit that stands alone.
LEMMA GroupsStop ==
  ASSUME IsText(text), NEW p \in Nat, p <= Len(text), NEW end, end = BehindGroups(p)
  PROVE  /\ end \in p..Len(text) /\ end \in Nat
         /\ IsNumber(p, end, decimal)
         /\ At(end) \notin decimal
         /\ \A q \in Nat : IsNumber(p, q, decimal) => q <= end \/ LoneDigit(end - 1)
         /\ \A q \in Nat : p <= q /\ q < end => At(q) \in decimal \cup {"'"}
<1>1. PICK n \in Nat : n = Len(text) /\ p <= n
  BY TextPlaces
<1>2. end \in p..n /\ ~GoesGrouped(p, end) /\ \A i \in p..end-1 : GoesGrouped(p, i)
  BY <1>1, GroupsMatch
<1>3. end \in Nat /\ p <= end /\ "'" \notin decimal
  <2>1. end \in Nat /\ p <= end
    BY <1>1, <1>2
  <2>2. "'" \notin decimal
    <3>1. "'" \notin alphanumeric /\ decimal \subseteq alphanumeric
      BY Classes
    <3> QED
      BY <3>1
  <2> QED
    BY <2>1, <2>2
<1>4. IsNumber(p, end, decimal)
  <2>1. ASSUME NEW i \in p..end-1
        PROVE  /\ At(i) \in decimal \cup {"'"}
               /\ At(i) = "'" => i > p /\ At(i - 1) # "'"
    <3>1. \/ At(i) \in decimal
          \/ i > p /\ At(i) = "'" /\ At(i - 1) \in decimal
      BY <1>2, Zenon DEF GoesGrouped
    <3> QED
      BY <1>3, <3>1, Zenon
  <2> QED
    BY <2>1, Zenon DEF IsNumber, All
<1>5. \A q \in Nat : IsNumber(p, q, decimal) => q <= end \/ LoneDigit(end - 1)
  <2> SUFFICES ASSUME NEW q \in Nat, IsNumber(p, q, decimal), q > end PROVE LoneDigit(end - 1)
    BY <1>3
  <2>1. end \in p..q-1
    BY <1>3
  <2>2. At(end) \in decimal \cup {"'"} /\ (At(end) = "'" => end > p /\ At(end - 1) # "'")
    BY <2>1 DEF IsNumber, All
  <2>3. end > p => At(end - 1) \in decimal \cup {"'"}
    <3>1. end > p => end - 1 \in p..q-1
      BY <1>3, <2>1
    <3> QED
      BY <3>1 DEF IsNumber, All
  <2>4. At(end) = "'" /\ end > p /\ At(end - 1) \in decimal
    BY <1>2, <2>2, <2>3 DEF GoesGrouped
  <2>5. end > p + 1 /\ At(end - 2) = "'"
    BY <1>2, <2>4 DEF GoesGrouped
  <2>6. end - 1 > 0 /\ (end - 1) - 1 = end - 2 /\ (end - 1) + 1 = end
    BY <1>3, <2>5
  <2> QED
    BY <2>4, <2>5, <2>6 DEF LoneDigit
<1>6. \A q \in Nat : p <= q /\ q < end => At(q) \in decimal \cup {"'"}
  BY <1>2, <1>3 DEF GoesGrouped
<1> QED
  BY <1>1, <1>2, <1>3, <1>4, <1>5, <1>6 DEF GoesGrouped

\* What the scanner takes for a number, and why it stops there (scanInteger).
LEMMA NumberRead ==
  ASSUME IsText(text), offset \in Nat, offset < Len(text), At(offset) \in decimal,
         NEW end, end = NumberEnd
  PROVE  /\ end \in offset+1..Len(text) /\ end \in Nat
         /\ \A q \in EndsFrom(offset) :
              /\ q \in Nat /\ (q <= end \/ LoneDigit(end - 1))
              /\ q < end => At(q) \in alphanumeric \cup {"'"}
              /\ ~Prefixed => At(q - 1) # "'"
         /\ (Prefixed \/ At(end - 1) # "'") => Lexeme("INTEGER", offset, end)
<1>1. PICK p \in Nat, n \in Nat : p = offset /\ n = Len(text) /\ p < n /\ p + 1 <= n
  BY TextPlaces
<1>2. /\ "NUL" \notin alphanumeric /\ "'" \notin alphanumeric
      /\ decimal \subseteq alphanumeric /\ hexadecimal \subseteq alphanumeric
      /\ alphabetic \subseteq alphanumeric /\ alphabetic \cap decimal = {}
      /\ DOMAIN radix \subseteq alphabetic
      /\ \A prefix \in DOMAIN radix : radix[prefix] \subseteq hexadecimal
  BY Classes
<1>3. At(p) \in decimal /\ At(p) \notin alphabetic /\ At(p) # "$" /\ At(p) \notin single
  BY <1>1, <1>2, SingleClass
<1>4. \A q \in EndsFrom(p) : q \in Nat /\ q > p /\ Lexeme("INTEGER", p, q)
  <2> SUFFICES ASSUME NEW q \in EndsFrom(p) PROVE q \in Nat /\ q > p /\ Lexeme("INTEGER", p, q)
    OBVIOUS
  <2>1. q \in p+1..n /\ Lexeme("INTEGER", p, q)
    BY <1>1, <1>3, WordsFrom
  <2> QED
    BY <1>1, <2>1
<1>5. Prefixed <=> At(p) = "0" /\ At(p + 1) \in DOMAIN radix
  BY <1>1 DEF Prefixed
<1>6. CASE Prefixed
  <2>1. PICK class : class = radix[At(p + 1)]
    OBVIOUS
  <2>2. "NUL" \notin class /\ "'" \notin class /\ class \subseteq alphanumeric
    BY <1>2, <1>5, <1>6, <2>1
  <2>3. At(p + 1) \in alphanumeric /\ At(p + 1) \notin decimal /\ At(p + 1) # "'"
    BY <1>2, <1>5, <1>6
  <2>4. p + 2 \in Nat /\ p + 2 <= n
    <3>1. At(p + 1) # "NUL"
      BY <1>2, <2>3
    <3>2. p + 1 \in Nat
      BY <1>1
    <3>3. ~(p + 1 >= n)
      BY <1>1, <3>1, <3>2, TextPlaces
    <3> QED
      BY <1>1, <3>3
  <2>5. end = BehindDigits(p + 2, class)
    BY <1>1, <1>6, <2>1 DEF NumberEnd
  <2>6. PICK b \in Nat : b = p + 2 /\ b <= n
    BY <2>4
  <2>7. /\ end \in b..n /\ end \in Nat /\ IsNumber(b, end, class)
        /\ \A q \in Nat : IsNumber(b, q, class) => q <= end
        /\ \A q \in Nat : b <= q /\ q < end => At(q) \in class \cup {"'"}
    BY <1>1, <2>2, <2>5, <2>6, NumberStops
  <2>8. \A q \in EndsFrom(p) : q <= end /\ (q < end => At(q) \in alphanumeric \cup {"'"})
    <3> SUFFICES ASSUME NEW q \in EndsFrom(p)
                 PROVE  q <= end /\ (q < end => At(q) \in alphanumeric \cup {"'"})
      OBVIOUS
    <3>1. q \in Nat /\ q > p /\ Lexeme("INTEGER", p, q)
      BY <1>4
    <3>2. CASE IsNumber(p, q, decimal)
      <4>1. q <= p + 1
        <5> SUFFICES ASSUME q > p + 1 PROVE FALSE
          BY <1>1, <3>1
        <5>1. p + 1 \in p..q-1
          BY <1>1, <3>1
        <5>2. At(p + 1) \in decimal \cup {"'"}
          BY <3>2, <5>1 DEF IsNumber, All
        <5> QED
          BY <2>3, <5>2
      <4>2. q = p + 1
        BY <1>1, <3>1, <4>1
      <4> QED
        BY <1>1, <2>3, <2>6, <2>7, <4>2
    <3>3. CASE q >= p + 2 /\ IsNumber(p + 2, q, class)
      <4>1. q <= end
        BY <2>6, <2>7, <3>1, <3>3
      <4>2. q < end => At(q) \in alphanumeric \cup {"'"}
        BY <2>2, <2>6, <2>7, <3>1, <3>3
      <4> QED
        BY <4>1, <4>2
    <3> QED
      BY <2>1, <3>1, <3>2, <3>3, LexemeForms
  <2>9. Lexeme("INTEGER", p, end)
    <3>1. end >= p + 2
      BY <1>1, <2>6, <2>7
    <3>2. IsNumber(p + 2, end, radix[At(p + 1)])
      BY <2>1, <2>6, <2>7
    <3> QED
      BY <1>5, <1>6, <3>1, <3>2, LexemeForms
  <2>10. end \in p+1..n
    BY <1>1, <2>6, <2>7
  <2> QED
    BY <1>1, <1>4, <1>6, <2>7, <2>8, <2>9, <2>10
<1>7. CASE ~Prefixed
  <2>1. end = BehindGroups(p)
    BY <1>1, <1>7 DEF NumberEnd
  <2>3. /\ end \in p..n /\ end \in Nat /\ IsNumber(p, end, decimal) /\ At(end) \notin decimal
        /\ \A q \in Nat : IsNumber(p, q, decimal) => q <= end \/ LoneDigit(end - 1)
        /\ \A q \in Nat : p <= q /\ q < end => At(q) \in decimal \cup {"'"}
    BY <1>1, <2>1, GroupsStop
  <2>4. end # p /\ end \in p+1..n
    <3>1. end # p
      BY <1>3, <2>3
    <3> QED
      BY <1>1, <2>3, <3>1
  <2>5. \A q \in EndsFrom(p) : /\ (q <= end \/ LoneDigit(end - 1)) /\ At(q - 1) # "'"
                               /\ q < end => At(q) \in alphanumeric \cup {"'"}
    <3> SUFFICES ASSUME NEW q \in EndsFrom(p)
                 PROVE  /\ (q <= end \/ LoneDigit(end - 1)) /\ At(q - 1) # "'"
                        /\ q < end => At(q) \in alphanumeric \cup {"'"}
      OBVIOUS
    <3>1. q \in Nat /\ q > p /\ Lexeme("INTEGER", p, q)
      BY <1>4
    <3>2. IsNumber(p, q, decimal) /\ At(q - 1) # "'"
      BY <1>5, <1>7, <3>1, LexemeForms
    <3>3. q < end => At(q) \in decimal \cup {"'"}
      BY <1>1, <2>3, <3>1
    <3> QED
      BY <1>2, <2>3, <3>1, <3>2, <3>3
  <2>6. At(end - 1) # "'" => Lexeme("INTEGER", p, end)
    <3>1. end > p
      BY <1>1, <2>4
    <3> QED
      BY <2>3, <3>1, LexemeForms
  <2> QED
    BY <1>1, <1>4, <1>7, <2>3, <2>4, <2>5, <2>6
<1> QED
  BY <1>6, <1>7

\* The value of a register's digit is a number.
LEMMA RegisterValue ==
  ASSUME NEW c \in octal
  PROVE  DigitValue(c) \in Int
<1>1. \E n \in 1..16 : Digits[n] = c
  <2>1. PICK n \in 1..8 : Digits[n] = c
    BY DEF octal, DigitsOf
  <2> QED
    BY <2>1
<1>2. \E n \in 1..16 : Digits[n] = c \/ (n > 10 /\ Capitals[n - 10] = c)
  BY <1>1
<1>3. PICK n : n = CHOOSE k \in 1..16 : Digits[k] = c \/ (k > 10 /\ Capitals[k - 10] = c)
  OBVIOUS
<1>4. n \in 1..16
  BY <1>2, <1>3
<1>5. DigitValue(c) = n - 1
  BY <1>3 DEF DigitValue
<1> QED
  BY <1>4, <1>5

\* Registers that ascend one by one ascend.
LEMMA RegistersAscend ==
  ASSUME NEW p \in Nat, NEW end \in Nat, \A i \in p+1..end-1 : Ascends(p, i)
  PROVE  \A i, j \in p+1..end-1 : i < j => DigitValue(At(i)) < DigitValue(At(j))
<1> SUFFICES ASSUME NEW i \in p+1..end-1, NEW j \in p+1..end-1, i < j,
                    ~(DigitValue(At(i)) < DigitValue(At(j)))
             PROVE  FALSE
  OBVIOUS
<1> DEFINE T == {k \in i+1..end-1 : ~(DigitValue(At(i)) < DigitValue(At(k)))}
<1>1. i \in Nat /\ j \in Nat /\ j \in T /\ T \in SUBSET Nat /\ T # {}
  OBVIOUS
<1>2. PICK k \in T : \A l \in T : k <= l
  BY <1>1, FirstPlace
<1>3. k \in i+1..end-1 /\ ~(DigitValue(At(i)) < DigitValue(At(k)))
  BY <1>2
<1>4. \A l \in i+1..k-1 : DigitValue(At(i)) < DigitValue(At(l))
  BY <1>1, <1>2, <1>3
<1> HIDE DEF T
<1>5. k \in Nat /\ k - 1 \in Nat /\ k \in p+1..end-1 /\ k - 1 \in p+1..end-1 /\ k > p + 1
  BY <1>1, <1>3
<1>6. DigitValue(At(k - 1)) < DigitValue(At(k))
  BY <1>5 DEF Ascends
<1>7. At(i) \in octal /\ At(k) \in octal /\ At(k - 1) \in octal
  BY <1>5 DEF Ascends
<1>8. DigitValue(At(i)) \in Int /\ DigitValue(At(k)) \in Int /\ DigitValue(At(k - 1)) \in Int
  BY <1>7, RegisterValue
<1>9. CASE k = i + 1
  BY <1>1, <1>3, <1>6, <1>9
<1>10. CASE k > i + 1
  <2>1. k - 1 \in i+1..k-1
    BY <1>1, <1>5, <1>10
  <2>2. DigitValue(At(i)) < DigitValue(At(k - 1))
    BY <1>4, <2>1
  <2> QED
    BY <1>3, <1>6, <1>8, <2>2
<1> QED
  BY <1>1, <1>3, <1>5, <1>9, <1>10

\* Where the scanner stops is where every register set that begins there has stopped
\* (scanRegisterSet).
LEMMA RegistersRead ==
  ASSUME IsText(text), offset \in Nat, offset < Len(text), At(offset) = "$",
         NEW end, end = RegistersEnd
  PROVE  /\ end \in offset+1..Len(text) /\ end \in Nat
         /\ Lexeme("REGSET", offset, end)
         /\ \A q \in EndsFrom(offset) :
              q \in Nat /\ q <= end /\ (q < end => At(q) \in octal)
<1>1. PICK p \in Nat, n \in Nat : p = offset /\ n = Len(text) /\ p < n
  BY TextPlaces
<1>2. At(p) = "$" /\ At(p) \notin alphabetic /\ At(p) \notin decimal /\ At(p) \notin single
  BY <1>1, SingleClass
<1>3. end \in p+1..n /\ ~Ascends(p, end) /\ \A i \in p+1..end-1 : Ascends(p, i)
  BY <1>1, RegistersMatch
<1>4. end \in Nat /\ p < end
  BY <1>1, <1>3
<1>5. \A i \in p+1..end-1 : At(i) \in octal
  BY <1>3 DEF Ascends
<1>6. Lexeme("REGSET", p, end)
  <2>1. \A i, j \in p+1..end-1 : i < j => DigitValue(At(i)) < DigitValue(At(j))
    BY <1>1, <1>3, <1>4, RegistersAscend
  <2> QED
    BY <1>2, <1>5, <2>1, LexemeForms DEF All
<1>7. ASSUME NEW q \in EndsFrom(p)
      PROVE  q \in Nat /\ q <= end /\ (q < end => At(q) \in octal)
  <2>1. q \in p+1..n /\ Lexeme("REGSET", p, q)
    BY <1>1, <1>2, WordsFrom
  <2>2. q \in Nat /\ p < q
    BY <1>1, <2>1
  <2>3. /\ \A i \in p+1..q-1 : At(i) \in octal
        /\ \A i, j \in p+1..q-1 : i < j => DigitValue(At(i)) < DigitValue(At(j))
    BY <2>1, LexemeForms DEF All
  <2>4. q <= end
    <3> SUFFICES ASSUME q > end PROVE FALSE
      BY <1>4, <2>2
    <3>1. end \in p+1..q-1
      BY <1>1, <1>4, <2>2
    <3>2. end > p + 1 => end - 1 \in p+1..q-1 /\ end - 1 < end
      BY <1>1, <1>4, <2>2
    <3> QED
      BY <1>3, <2>3, <3>1, <3>2 DEF Ascends
  <2>5. q < end => At(q) \in octal
    BY <1>1, <1>4, <1>5, <2>1, <2>2
  <2> QED
    BY <2>2, <2>4, <2>5
<1> QED
  BY <1>1, <1>3, <1>4, <1>6, <1>7

(***************************************************************************)
(* The scan, turn by turn.                                                 *)
(***************************************************************************)
quote == "\""

Tokens == [type : ScannedTypes \cup {"STRING"}, begin : Nat, end : Nat]

\* Tokens lie one behind the other, up to a place.
Ordered(tokenized, front) ==
  \A n \in DOMAIN tokenized :
    /\ (IF n = 1 THEN 0 ELSE tokenized[n - 1].end) <= tokenized[n].begin
    /\ tokenized[n].begin <= tokenized[n].end /\ tokenized[n].end <= front

Words(tokenized) == \A n \in DOMAIN tokenized : IsWord(tokenized[n])

InText(span) ==
  /\ span.begin \in Nat /\ span.end \in Nat
  /\ span.begin <= span.end /\ span.end <= Len(text)

\* The place at which a source is refused (RejectsOnlyMalformed).
PlaceRefused ==
  scan = "raised" /\ mode = "root" =>
    \A q \in EndsFrom(offset) :
      \/ At(q) \in alphanumeric \cup {"'"}
      \/ At(offset) = "$" /\ q = Len(text)

\* What is read so far; a string that is open has a quote behind all tokens.
ScanInv ==
  /\ IsText(text)
  /\ offset \in 0..Len(text)
  /\ sink \in Seq(Tokens) /\ Ordered(sink, offset) /\ Words(sink)
  /\ \A span \in reported : InText(span)
  /\ scan = "scanning" /\ mode = "string" =>
       previous \in 0..offset-1 /\ At(previous) = quote /\ Ordered(sink, previous)
  /\ PlaceRefused

\* A token that comes next.
LEMMA OrderedAppend ==
  ASSUME NEW s \in Seq(Tokens), NEW token \in Tokens, NEW b \in Nat, NEW e \in Nat,
         Ordered(s, b), b <= token.begin, token.begin <= token.end, token.end <= e
  PROVE  Append(s, token) \in Seq(Tokens) /\ Ordered(Append(s, token), e)
<1>1. PICK k \in Nat : k = Len(s)
  BY LenProperties
<1>2. DOMAIN s = 1..k /\ \A n \in 1..k : s[n] \in Tokens
  BY <1>1, LenProperties, ElementOfSeq
<1>3. PICK t : t = Append(s, token)
  OBVIOUS
<1>4. /\ t \in Seq(Tokens) /\ DOMAIN t = 1..k+1 /\ t[k + 1] = token
      /\ \A n \in 1..k : t[n] = s[n]
  BY <1>1, <1>3, AppendProperties, LenProperties
<1>5. ASSUME NEW n \in 1..k+1
      PROVE  /\ (IF n = 1 THEN 0 ELSE t[n - 1].end) <= t[n].begin
             /\ t[n].begin <= t[n].end /\ t[n].end <= e
  <2>1. CASE n <= k
    <3>1. n \in 1..k /\ t[n] = s[n] /\ (n # 1 => n - 1 \in 1..k /\ t[n - 1] = s[n - 1])
      BY <1>1, <1>4, <2>1
    <3>2. s[n].end \in Nat /\ s[n].end <= b /\ token.begin \in Nat /\ token.end \in Nat
      BY <1>2, <3>1 DEF Ordered, Tokens
    <3>3. s[n].end <= e
      BY <3>2
    <3> QED
      BY <1>2, <3>1, <3>3 DEF Ordered
  <2>2. CASE n = k + 1
    <3>1. t[n] = token /\ token.begin \in Nat /\ token.end \in Nat
      BY <1>4, <2>2 DEF Tokens
    <3>2. n # 1 => t[n - 1].end <= token.begin
      <4> SUFFICES ASSUME n # 1 PROVE t[n - 1].end <= token.begin
        OBVIOUS
      <4>1. n - 1 \in 1..k /\ t[n - 1] = s[n - 1]
        BY <1>1, <1>4, <2>2
      <4>2. s[n - 1].end \in Nat /\ s[n - 1].end <= b
        BY <1>2, <4>1 DEF Ordered, Tokens
      <4> QED
        BY <3>1, <4>1, <4>2
    <3> QED
      BY <3>1, <3>2
  <2> QED
    BY <1>1, <2>1, <2>2
<1> QED
  BY <1>3, <1>4, <1>5 DEF Ordered

\* One more word.
LEMMA WordsAppend ==
  ASSUME NEW s \in Seq(Tokens), NEW token \in Tokens, Words(s), IsWord(token)
  PROVE  Words(Append(s, token))
<1>1. PICK k \in Nat : k = Len(s)
  BY LenProperties
<1>2. DOMAIN s = 1..k
  BY <1>1, LenProperties
<1>3. PICK t : t = Append(s, token)
  OBVIOUS
<1>4. DOMAIN t = 1..k+1 /\ t[k + 1] = token /\ \A n \in 1..k : t[n] = s[n]
  BY <1>1, <1>3, AppendProperties, LenProperties
<1>5. \A n \in 1..k+1 : n \in 1..k \/ n = k + 1
  OBVIOUS
<1> QED
  BY <1>2, <1>3, <1>4, <1>5 DEF Words

\* Tokens that end somewhere end before any later place.
LEMMA OrderedUpTo ==
  ASSUME NEW s \in Seq(Tokens), NEW b \in Nat, NEW e \in Nat, b <= e, Ordered(s, b)
  PROVE  Ordered(s, e)
<1>1. \A n \in DOMAIN s : s[n].end \in Nat
  <2>1. DOMAIN s = 1..Len(s) /\ Len(s) \in Nat
    BY LenProperties
  <2>2. \A n \in 1..Len(s) : s[n] \in Tokens
    BY ElementOfSeq
  <2> QED
    BY <2>1, <2>2 DEF Tokens
<1> QED
  BY <1>1 DEF Ordered

\* The invariant reads the text and nothing else of the state but what it names.
LEMMA TextStays ==
  ASSUME text' = text
  PROVE  /\ Len(text)' = Len(text) /\ IsText(text)' = IsText(text)
         /\ \A p : At(p)' = At(p)
         /\ \A s : Words(s)' = Words(s)
         /\ \A span : InText(span)' = InText(span)
         /\ \A p : EndsFrom(p)' = EndsFrom(p)
BY DEF IsText, At, Words, IsWord, InText, EndsFrom, Lexeme, All, IsNumber, Accepts, LoneDigit

\* Words stay words while the text stays.
LEMMA WordsStay ==
  ASSUME text' = text, NEW s, s = sink', Words(s)
  PROVE  Words(sink)'
<1>1. Words(s)' = Words(s)
  BY TextStays
<1>2. Words(s)'
  BY <1>1
<1> QED
  BY <1>2 DEF Words

\* A turn that takes a token behind all others.
LEMMA TakeKeeps ==
  ASSUME ScanInv, NEW front \in Nat, Ordered(sink, front), NEW token \in Tokens, IsWord(token),
         front <= token.begin, token.begin <= token.end, NEW end \in offset..Len(text),
         token.end <= end, text' = text, offset' = end, sink' = Append(sink, token),
         \A span \in reported' : InText(span),
         scan' # "raised", mode' # "string"
  PROVE  ScanInv'
<1>1. PICK p \in Nat, n \in Nat : p = offset /\ n = Len(text) /\ p <= n
  BY TextPlaces DEF ScanInv
<1>2. end \in Nat /\ p <= end /\ end <= n
  BY <1>1
<1>3. PICK s : s = sink
  OBVIOUS
<1>4. s \in Seq(Tokens) /\ Ordered(s, front) /\ Words(s)
  BY <1>3 DEF ScanInv
<1>5. Append(s, token) \in Seq(Tokens) /\ Ordered(Append(s, token), end)
  BY <1>2, <1>4, OrderedAppend
<1>6. Words(Append(s, token))
  BY <1>4, WordsAppend
<1>7. sink' \in Seq(Tokens) /\ Ordered(sink', end) /\ Words(sink')
  BY <1>3, <1>5, <1>6
<1>8. IsText(text)' /\ (\A span \in reported' : InText(span)') /\ Ordered(sink, offset)'
  BY <1>7, TextStays DEF ScanInv, Ordered
<1>9. Words(sink)'
  BY <1>7, WordsStay
<1>10. offset' \in 0..Len(text)'
  BY <1>1, <1>2
<1> QED
  BY <1>7, <1>8, <1>9, <1>10 DEF ScanInv, PlaceRefused

\* A turn of the main loop that takes a token.
LEMMA EmitKeeps ==
  ASSUME ScanInv, Root, NEW type \in ScannedTypes, NEW end \in offset..Len(text),
         IsWord(Token(type, offset, end)), Emit(type, end)
  PROVE  ScanInv'
<1>1. PICK p \in Nat, n \in Nat : p = offset /\ n = Len(text) /\ p <= n
  <2>1. IsText(text) /\ offset \in 0..Len(text)
    BY DEF ScanInv
  <2> QED
    BY <2>1, TextPlaces
<1>2. PICK token : token = Token(type, p, end)
  OBVIOUS
<1>3. end \in Nat /\ p <= end /\ end <= n
  BY <1>1
<1>4. token \in Tokens /\ token.begin = p /\ token.end = end
  BY <1>1, <1>2, <1>3 DEF Token, Tokens
<1>5. /\ text' = text /\ offset' = end /\ sink' = Append(sink, token)
      /\ mode' = "root" /\ scan' = "scanning" /\ reported' = reported
  BY <1>1, <1>2 DEF Emit, Root, Scanning
<1>6. IsWord(token) /\ Ordered(sink, p) /\ \A span \in reported' : InText(span)
  BY <1>1, <1>2, <1>5 DEF ScanInv
<1> QED
  BY <1>1, <1>3, <1>4, <1>5, <1>6, TakeKeeps

\* A turn that goes on without a token.
LEMMA SkipKeeps ==
  ASSUME ScanInv, text' = text, sink' = sink, NEW end \in offset..Len(text), offset' = end,
         \A span \in reported' : InText(span), scan' = "scanning",
         mode' = "string" =>
           previous' \in 0..end-1 /\ At(previous') = quote /\ Ordered(sink, previous')
  PROVE  ScanInv'
<1>1. PICK p \in Nat, n \in Nat : p = offset /\ n = Len(text) /\ p <= n
  BY TextPlaces DEF ScanInv
<1>2. end \in Nat /\ p <= end /\ end <= n
  BY <1>1
<1>3. PICK s : s = sink
  OBVIOUS
<1>4. s \in Seq(Tokens) /\ Ordered(s, p) /\ Words(s)
  BY <1>1, <1>3 DEF ScanInv
<1>5. Ordered(s, end)
  BY <1>1, <1>2, <1>4, OrderedUpTo
<1>6. Words(sink)' /\ s = sink'
  BY <1>3, <1>4, WordsStay
<1>7. IsText(text)' /\ (\A span \in reported' : InText(span)') /\ Ordered(sink, offset)'
  BY <1>5, <1>6, TextStays DEF ScanInv, Ordered
<1>8. offset' \in 0..Len(text)'
  BY <1>1, <1>2
<1>9. (mode = "string")' => (previous \in 0..offset-1 /\ At(previous) = quote /\ Ordered(sink, previous))'
  <2> SUFFICES ASSUME mode' = "string"
               PROVE  (previous \in 0..offset-1 /\ At(previous) = quote /\ Ordered(sink, previous))'
    OBVIOUS
  <2>1. PICK o : o = previous'
    OBVIOUS
  <2>2. o \in 0..end-1 /\ At(o) = quote /\ Ordered(s, o)
    BY <1>3, <2>1
  <2>3. At(o)' = At(o)
    BY TextStays
  <2>4. At(previous)' = quote
    BY <2>1, <2>2, <2>3 DEF quote
  <2>5. Ordered(sink, previous)'
    BY <1>6, <2>1, <2>2 DEF Ordered
  <2> QED
    BY <2>1, <2>2, <2>4, <2>5
<1> QED
  BY <1>4, <1>6, <1>7, <1>8, <1>9 DEF ScanInv, PlaceRefused

\* A turn that throws.
LEMMA RaiseKeeps ==
  ASSUME ScanInv, NEW warned, NEW span, RaiseWith(warned, span), InText(span),
         \A w \in warned : InText(w),
         mode = "root" =>
           \A q \in EndsFrom(offset) :
             At(q) \in alphanumeric \cup {"'"} \/ (At(offset) = "$" /\ q = Len(text))
  PROVE  ScanInv'
<1>1. /\ UNCHANGED <<text, offset, previous, mode, sink>>
      /\ scan' = "raised" /\ reported' = reported \cup warned \cup {span}
  BY DEF RaiseWith
<1>2. PICK s, p : s = sink /\ p = offset
  OBVIOUS
<1>3. Words(s) /\ Ordered(s, p) /\ s = sink' /\ p = offset'
  BY <1>1, <1>2 DEF ScanInv
<1>4. Words(sink)' /\ Ordered(sink, offset)'
  BY <1>1, <1>3, WordsStay DEF Ordered
<1>5. IsText(text)' /\ \A w \in reported' : InText(w)'
  BY <1>1, TextStays DEF ScanInv
<1>6. PlaceRefused'
  <2>1. EndsFrom(p)' = EndsFrom(p) /\ (\A q : At(q)' = At(q)) /\ Len(text)' = Len(text)
    BY <1>1, TextStays
  <2>2. EndsFrom(offset)' = EndsFrom(p) /\ At(offset)' = At(p)
    BY <1>3, <2>1
  <2> QED
    BY <1>1, <1>2, <2>1, <2>2 DEF PlaceRefused
<1> QED
  BY <1>1, <1>4, <1>5, <1>6 DEF ScanInv

\* Two characters that are looked at are in the text.
LEMMA PairFits ==
  ASSUME ScanInv, NEW first, NEW second, second # "NUL", Accepts(offset, first, second),
         offset < Len(text)
  PROVE  offset + 2 \in offset..Len(text)
<1>1. PICK p \in Nat, n \in Nat : p = offset /\ n = Len(text) /\ p < n
  <2>1. offset \in Nat /\ Len(text) \in Nat
    BY TextPlaces DEF ScanInv
  <2> QED
    BY <2>1
<1>2. At(p + 1) # "NUL" /\ p + 1 \in Nat
  BY <1>1 DEF Accepts
<1>3. ~(p + 1 >= n)
  BY <1>1, <1>2, TextPlaces DEF ScanInv
<1> QED
  BY <1>1, <1>3

\* Where the main loop stands.
LEMMA RootPlace ==
  ASSUME ScanInv, Scanning
  PROVE  /\ offset \in Nat /\ offset < Len(text) /\ Len(text) \in Nat /\ IsText(text)
         /\ offset + 1 \in offset..Len(text) /\ scan = "scanning"
         /\ InText(Character(offset))
<1>1. offset \in Nat /\ offset < Len(text) /\ Len(text) \in Nat /\ IsText(text)
  BY TextPlaces DEF ScanInv, Scanning
<1>2. InText(Character(offset))
  BY <1>1 DEF InText, Character
<1> QED
  BY <1>1, <1>2 DEF Scanning

\* Breaks, commas and blanks (tokenize).
LEMMA SingleTurns ==
  ASSUME ScanInv, ScanBreak \/ ScanSymbol \/ SkipWhitespace
  PROVE  ScanInv'
<1>1. CASE SkipWhitespace
  <2>1. Scanning /\ mode = "root" /\ SkipTo(offset + 1)
    BY <1>1, Zenon DEF SkipWhitespace, Root
  <2>2. /\ text' = text /\ sink' = sink /\ offset' = offset + 1 /\ reported' = reported
        /\ scan' = "scanning" /\ mode' = "root"
    BY <2>1 DEF SkipTo, Scanning
  <2> QED
    BY <2>1, <2>2, RootPlace, SkipKeeps DEF ScanInv
<1>2. CASE ScanBreak \/ ScanSymbol
  <2>1. PICK type \in {"BREAK", "SYMBOL"} :
          Root /\ Lexeme(type, offset, offset + 1) /\ Emit(type, offset + 1)
    <3>1. CASE ScanBreak
      BY <3>1, Zenon DEF ScanBreak, Lexeme
    <3>2. CASE ScanSymbol
      BY <3>2, Zenon DEF ScanSymbol, Lexeme
    <3> QED
      BY <1>2, <3>1, <3>2
  <2>2. type \in ScannedTypes /\ Scanning
    BY <2>1 DEF Root, ScannedTypes
  <2>3. IsWord(Token(type, offset, offset + 1))
    BY <2>1, <2>2, RootPlace, SymbolRead
  <2> QED
    BY <2>1, <2>2, <2>3, RootPlace, EmitKeeps
<1> QED
  BY <1>1, <1>2

\* Where comments and strings begin (tokenize).
LEMMA EnterTurns ==
  ASSUME ScanInv, EnterComment \/ EnterString
  PROVE  ScanInv'
<1>1. CASE EnterComment
  <2>1. /\ Scanning /\ text' = text /\ sink' = sink /\ reported' = reported /\ scan' = scan
        /\ offset' = offset + 2 /\ mode' # "string"
        /\ Accepts(offset, "/", "/") \/ Accepts(offset, "/", "*")
    BY <1>1 DEF EnterComment, Root
  <2>2. offset + 2 \in offset..Len(text)
    BY <2>1, RootPlace, PairFits
  <2> QED
    BY <2>1, <2>2, RootPlace, SkipKeeps DEF ScanInv
<1>2. CASE EnterString
  <2>1. /\ Scanning /\ text' = text /\ sink' = sink /\ reported' = reported /\ scan' = scan
        /\ offset' = offset + 1 /\ previous' = offset /\ At(offset) = quote
    BY <1>2, Zenon DEF EnterString, Root, quote
  <2>2. /\ previous' \in 0..(offset + 1)-1 /\ At(previous') = quote /\ Ordered(sink, previous')
    BY <2>1, RootPlace DEF ScanInv
  <2> QED
    BY <2>1, <2>2, RootPlace, SkipKeeps DEF ScanInv
<1> QED
  BY <1>1, <1>2

\* What begins no word is refused (unreachable).
LEMMA UnreachableTurn ==
  ASSUME ScanInv, Unreachable
  PROVE  ScanInv'
<1>1. /\ Scanning /\ RaiseWith({}, Character(offset))
      /\ At(offset) \notin whitespace \cup alphanumeric \cup {";", "\"", "$", ","}
  BY Zenon DEF Unreachable, Root, RaiseAt
<1>2. EndsFrom(offset) = {}
  BY <1>1, RootPlace, NoWord
<1>3. RaiseWith({}, Character(offset)) /\ InText(Character(offset))
  BY <1>1, RootPlace
<1> QED
  BY <1>2, <1>3, RaiseKeeps

\* Identifiers and labels (scanIdentifierOrLabel).
LEMMA IdentifierTurn ==
  ASSUME ScanInv, ScanIdentifierOrLabel
  PROVE  ScanInv'
<1>1. PICK end : end = Behind(offset, alphanumeric)
  OBVIOUS
<1>2. /\ Root /\ Scanning /\ At(offset) \in alphabetic
      /\ \/ At(end) = ":" /\ Emit("LABEL", end + 1)
         \/ At(end) = "." /\ Emit("IDENTIFIER", Behind(end + 1, alphanumeric))
         \/ At(end) \notin {":", "."} /\ Emit("IDENTIFIER", end)
  BY <1>1 DEF ScanIdentifierOrLabel, Root
<1>3. /\ end \in offset+1..Len(text)
      /\ At(end) = ":" => end + 1 <= Len(text) /\ IsWord(Token("LABEL", offset, end + 1))
      /\ At(end) = "." => /\ Behind(end + 1, alphanumeric) \in end+1..Len(text)
                          /\ IsWord(Token("IDENTIFIER", offset, Behind(end + 1, alphanumeric)))
      /\ At(end) \notin {":", "."} => IsWord(Token("IDENTIFIER", offset, end))
  BY <1>1, <1>2, RootPlace, IdentifierRead
<1>4. offset \in Nat /\ Len(text) \in Nat
  BY <1>2, RootPlace
<1>5. PICK type \in {"LABEL", "IDENTIFIER"}, last \in end..Len(text) :
        Emit(type, last) /\ IsWord(Token(type, offset, last))
  BY <1>2, <1>3, <1>4
<1>6. last \in offset..Len(text)
  BY <1>3, <1>4, <1>5
<1>7. type \in ScannedTypes
  BY <1>5 DEF ScannedTypes
<1> QED
  BY <1>2, <1>5, <1>6, <1>7, EmitKeeps

\* Numbers: what stops short of a word, or goes on behind it, is refused (scanInteger).
LEMMA IntegerTurn ==
  ASSUME ScanInv, ScanInteger
  PROVE  ScanInv'
<1>1. PICK end : end = NumberEnd
  OBVIOUS
<1>2. PICK p \in Nat, n \in Nat : p = offset /\ n = Len(text) /\ p < n /\ IsText(text)
  BY RootPlace DEF ScanInteger, Root
<1>3. /\ Root /\ At(p) \in decimal
      /\ \/ /\ ~Prefixed /\ At(end - 1) = "'"
            /\ RaiseAt(Character(IF end = n THEN end - 1 ELSE end))
         \/ /\ ~(~Prefixed /\ At(end - 1) = "'") /\ At(end) \in alphanumeric
            /\ RaiseAt(Character(end))
         \/ /\ ~(~Prefixed /\ At(end - 1) = "'") /\ At(end) \notin alphanumeric
            /\ Emit("INTEGER", end)
  BY <1>1, <1>2 DEF ScanInteger
<1>4. /\ end \in p+1..n /\ end \in Nat
      /\ \A q \in EndsFrom(p) :
           /\ q \in Nat /\ (q <= end \/ LoneDigit(end - 1))
           /\ q < end => At(q) \in alphanumeric \cup {"'"}
           /\ ~Prefixed => At(q - 1) # "'"
      /\ (Prefixed \/ At(end - 1) # "'") => Lexeme("INTEGER", p, end)
  BY <1>1, <1>2, <1>3, NumberRead
<1>5. end \in p..n
  BY <1>2, <1>4
<1>6. At(end - 1) = "'" \/ At(end) \in alphanumeric => ~LoneDigit(end - 1)
  <2>1. "'" \notin alphanumeric /\ "'" \notin decimal
    BY Classes
  <2>2. (end - 1) + 1 = end
    BY <1>4
  <2>3. LoneDigit(end - 1) => At(end - 1) \in decimal /\ At(end) = "'"
    BY <2>2, Zenon DEF LoneDigit
  <2> QED
    BY <2>1, <2>3, Zenon
<1>7. CASE ~Prefixed /\ At(end - 1) = "'"
  <2>1. PICK at \in {end - 1, end} : RaiseWith({}, Character(at)) /\ at < n
    BY <1>2, <1>3, <1>4, <1>7 DEF RaiseAt
  <2>2. InText(Character(at))
    BY <1>2, <1>4, <2>1 DEF InText, Character
  <2>3. \A q \in EndsFrom(p) : At(q) \in alphanumeric \cup {"'"}
    <3> SUFFICES ASSUME NEW q \in EndsFrom(p) PROVE At(q) \in alphanumeric \cup {"'"}
      OBVIOUS
    <3>1. q \in Nat /\ q <= end /\ q # end
      BY <1>4, <1>7, <1>6
    <3> QED
      BY <1>4, <3>1
  <2> QED
    BY <1>2, <2>1, <2>2, <2>3, RaiseKeeps
<1>8. CASE ~(~Prefixed /\ At(end - 1) = "'") /\ At(end) \in alphanumeric
  <2>1. RaiseWith({}, Character(end))
    BY <1>3, <1>8 DEF RaiseAt
  <2>2. end < n
    <3>1. "NUL" \notin alphanumeric
      BY Classes
    <3> QED
      BY <1>2, <1>4, <1>8, <3>1, TextPlaces
  <2>3. InText(Character(end))
    BY <1>2, <1>4, <2>2 DEF InText, Character
  <2>4. \A q \in EndsFrom(p) : At(q) \in alphanumeric \cup {"'"}
    BY <1>4, <1>8, <1>6
  <2> QED
    BY <1>2, <2>1, <2>3, <2>4, RaiseKeeps
<1>9. CASE ~(~Prefixed /\ At(end - 1) = "'") /\ At(end) \notin alphanumeric
  <2>1. Emit("INTEGER", end) /\ Lexeme("INTEGER", p, end)
    BY <1>3, <1>4, <1>9
  <2>2. \A q \in EndsFrom(p) : q <= end \/ LoneDigit(end - 1)
    BY <1>4
  <2>3. IsWord(Token("INTEGER", p, end))
    BY <1>9, <2>1, <2>2 DEF IsWord, Token
  <2>4. "INTEGER" \in ScannedTypes
    BY DEF ScannedTypes
  <2> QED
    BY <1>2, <1>3, <1>5, <2>1, <2>3, <2>4, EmitKeeps
<1> QED
  BY <1>7, <1>8, <1>9

\* Register sets (scanRegisterSet).
LEMMA RegistersTurn ==
  ASSUME ScanInv, ScanRegisterSet
  PROVE  ScanInv'
<1>1. PICK end : end = RegistersEnd
  OBVIOUS
<1>2. PICK p \in Nat, n \in Nat : p = offset /\ n = Len(text) /\ p < n /\ IsText(text)
  BY RootPlace DEF ScanRegisterSet, Root
<1>3. /\ Root /\ At(p) = "$"
      /\ \/ (end = n \/ At(end) \in octal) /\ RaiseAt(Character(end - 1))
         \/ /\ end # n /\ At(end) \notin octal /\ At(end) \in alphanumeric \ octal
            /\ RaiseAt(Character(end))
         \/ end # n /\ At(end) \notin alphanumeric /\ Emit("REGSET", end)
  <2>1. octal \subseteq alphanumeric
    BY Classes
  <2>2. /\ Root /\ At(p) = "$"
        /\ \/ (end = n \/ At(end) \in octal) /\ RaiseAt(Character(end - 1))
           \/ ~(end = n \/ At(end) \in octal) /\ At(end) \in alphanumeric \ octal /\ RaiseAt(Character(end))
           \/ /\ ~(end = n \/ At(end) \in octal) /\ ~(At(end) \in alphanumeric \ octal)
              /\ Emit("REGSET", end)
    <3>1. end = n => At(end) \notin alphanumeric
      <4>1. At(n) = "NUL"
        BY <1>2, TextPlaces
      <4>2. "NUL" \notin alphanumeric
        BY Classes
      <4> QED
        BY <4>1, <4>2
    <3>2. ScanRegisterSet
      OBVIOUS
    <3> QED
      BY <1>1, <1>2, <3>1, <3>2 DEF ScanRegisterSet
  <2> QED
    BY <2>1, <2>2
<1>4. /\ end \in p+1..n /\ end \in Nat
      /\ Lexeme("REGSET", p, end)
      /\ \A q \in EndsFrom(p) : q \in Nat /\ q <= end /\ (q < end => At(q) \in octal)
  BY <1>1, <1>2, <1>3, RegistersRead
<1>5. octal \subseteq alphanumeric
  BY Classes
<1>6. CASE (end = n \/ At(end) \in octal) /\ RaiseAt(Character(end - 1))
  <2>1. RaiseWith({}, Character(end - 1)) /\ InText(Character(end - 1))
    BY <1>2, <1>4, <1>6 DEF RaiseAt, InText, Character
  <2>2. \A q \in EndsFrom(p) : At(q) \in alphanumeric \cup {"'"} \/ (At(p) = "$" /\ q = n)
    BY <1>3, <1>4, <1>5, <1>6
  <2> QED
    BY <1>2, <2>1, <2>2, RaiseKeeps
<1>7. CASE end # n /\ At(end) \in alphanumeric \ octal /\ RaiseAt(Character(end))
  <2>1. RaiseWith({}, Character(end)) /\ InText(Character(end))
    BY <1>2, <1>4, <1>7 DEF RaiseAt, InText, Character
  <2>2. \A q \in EndsFrom(p) : At(q) \in alphanumeric \cup {"'"}
    BY <1>4, <1>5, <1>7
  <2> QED
    BY <1>2, <2>1, <2>2, RaiseKeeps
<1>8. CASE At(end) \notin alphanumeric /\ Emit("REGSET", end)
  <2>1. \A q \in EndsFrom(p) : q <= end
    BY <1>4
  <2>2. IsWord(Token("REGSET", p, end))
    BY <1>4, <1>8, <2>1 DEF IsWord, Token
  <2>3. end \in p..n
    BY <1>2, <1>4
  <2>4. "REGSET" \in ScannedTypes
    BY DEF ScannedTypes
  <2> QED
    BY <1>2, <1>3, <1>8, <2>2, <2>3, <2>4, EmitKeeps
<1> QED
  BY <1>3, <1>6, <1>7, <1>8

\* What a comment may do with a character.
LEMMA CommentOutcomes ==
  ASSUME TurnInline \/ TurnComment
  PROVE  /\ Scanning /\ mode # "string" /\ UNCHANGED <<text, scan, reported>>
         /\ \/ /\ Lexeme("BREAK", offset, offset + 1)
               /\ sink' = Append(sink, Token("BREAK", offset, offset + 1))
               /\ offset' = offset + 1 /\ mode' = "root"
            \/ /\ Accepts(offset, "/", "/") \/ Accepts(offset, "/", "*") \/ Accepts(offset, "*", "/")
               /\ offset' = offset + 2 /\ mode' \in {"root", mode, "comment"} /\ UNCHANGED sink
            \/ offset' = offset + 1 /\ UNCHANGED <<mode, sink>>
<1>1. CASE TurnInline
  <2>1. Scanning /\ mode = "inline" /\ UNCHANGED <<text, scan, reported>>
    BY <1>1, Zenon DEF TurnInline, LeaveComment, SkipTo
  <2>2. \/ /\ Lexeme("BREAK", offset, offset + 1)
           /\ sink' = Append(sink, Token("BREAK", offset, offset + 1))
           /\ offset' = offset + 1 /\ mode' = "root"
        \/ Accepts(offset, "/", "/") /\ offset' = offset + 2 /\ mode' = "root" /\ UNCHANGED sink
        \/ offset' = offset + 1 /\ UNCHANGED <<mode, sink>>
    BY <1>1, Zenon DEF TurnInline, LeaveComment, SkipTo, Lexeme
  <2> QED
    BY <2>1, <2>2
<1>2. CASE TurnComment
  <2>1. Scanning /\ mode = "comment" /\ UNCHANGED <<text, scan, reported>>
    BY <1>2, Zenon DEF TurnComment, SkipTo
  <2>2. \/ /\ Accepts(offset, "/", "*") \/ Accepts(offset, "*", "/")
           /\ offset' = offset + 2 /\ mode' \in {"root", mode, "comment"} /\ UNCHANGED sink
        \/ offset' = offset + 1 /\ UNCHANGED <<mode, sink>>
    BY <1>2, Zenon DEF TurnComment, SkipTo
  <2> QED
    BY <2>1, <2>2
<1> QED
  BY <1>1, <1>2

\* Inside comments (scanInlineComment, scanMultilineComment).
LEMMA CommentTurns ==
  ASSUME ScanInv, TurnInline \/ TurnComment
  PROVE  ScanInv'
<1>1. PICK p \in Nat, n \in Nat : p = offset /\ n = Len(text) /\ p < n
  BY CommentOutcomes, RootPlace
<1>2. /\ Scanning /\ mode # "string" /\ text' = text /\ reported' = reported
      /\ scan' = "scanning"
  BY CommentOutcomes DEF Scanning
<1>3. \A span \in reported' : InText(span)
  BY <1>2 DEF ScanInv
<1>4. ASSUME Lexeme("BREAK", offset, offset + 1),
             sink' = Append(sink, Token("BREAK", offset, offset + 1)),
             offset' = offset + 1, mode' = "root"
      PROVE  ScanInv'
  <2>1. PICK token : token = Token("BREAK", p, p + 1)
    OBVIOUS
  <2>2. IsWord(token)
    BY <1>1, <1>2, <1>4, <2>1, RootPlace, SymbolRead
  <2>3. token \in Tokens /\ token.begin = p /\ token.end = p + 1
    BY <2>1 DEF Token, Tokens, ScannedTypes
  <2>4. Ordered(sink, p) /\ p + 1 \in offset..Len(text)
    BY <1>1 DEF ScanInv
  <2> QED
    BY <1>1, <1>2, <1>3, <1>4, <2>1, <2>2, <2>3, <2>4, TakeKeeps
<1>5. ASSUME offset' = offset + 1, mode' # "string", sink' = sink
      PROVE  ScanInv'
  BY <1>2, <1>3, <1>5, RootPlace, SkipKeeps
<1>6. ASSUME Accepts(offset, "/", "/") \/ Accepts(offset, "/", "*") \/ Accepts(offset, "*", "/"),
             offset' = offset + 2, mode' # "string", sink' = sink
      PROVE  ScanInv'
  <2>1. offset + 2 \in offset..Len(text)
    BY <1>1, <1>6, PairFits
  <2> QED
    BY <1>2, <1>3, <1>6, <2>1, SkipKeeps
<1> QED
  BY <1>2, <1>4, <1>5, <1>6, CommentOutcomes

\* An escape's characters are in the text, but for the one that is missing
\* (scanString).
LEMMA EscapeFits ==
  ASSUME IsText(text), NEW p \in Nat, p <= Len(text)
  PROVE  /\ BehindEscape(p) \in p..Len(text)
         /\ UnknownEscape(p) => p < Len(text)
<1>1. PICK n \in Nat : n = Len(text) /\ p <= n
  BY TextPlaces
<1>2. "NUL" \notin escape
  BY Zenon DEF escape
<1>3. "NUL" \notin hexadecimal
  BY DigitClasses
<1>4. \A q \in Nat : At(q) # "NUL" => q < n
  BY <1>1, TextPlaces
<1>5. p + 1 \in Nat /\ p + 2 \in Nat
  BY <1>1
<1>6. UnknownEscape(p) => At(p) # "NUL"
  BY DEF UnknownEscape
<1>7. CASE At(p) \in escape \/ UnknownEscape(p)
  <2>1. At(p) # "NUL"
    BY <1>2, <1>6, <1>7
  <2>2. p < n
    BY <1>4, <2>1
  <2>3. BehindEscape(p) = p + 1
    <3>1. "x" \notin escape
      BY Zenon DEF escape
    <3>2. At(p) = "x" => ~UnknownEscape(p)
      BY DEF UnknownEscape
    <3> QED
      BY <1>7, <3>1, <3>2 DEF BehindEscape
  <2> QED
    BY <1>1, <2>2, <2>3
<1>8. CASE ~(At(p) \in escape \/ UnknownEscape(p)) /\ At(p) = "x"
  <2>1. p < n
    BY <1>1, <1>4, <1>8
  <2>2. At(p + 1) \in hexadecimal => p + 1 < n
    BY <1>3, <1>4, <1>5
  <2>3. At(p + 2) \in hexadecimal => p + 2 < n
    BY <1>3, <1>4, <1>5
  <2>4. \/ BehindEscape(p) = p + 1
        \/ BehindEscape(p) = p + 2 /\ At(p + 1) \in hexadecimal
        \/ BehindEscape(p) = p + 3 /\ At(p + 2) \in hexadecimal
    BY <1>8 DEF BehindEscape
  <2> QED
    BY <1>1, <1>8, <2>1, <2>2, <2>3, <2>4
<1>9. CASE ~(At(p) \in escape \/ UnknownEscape(p)) /\ At(p) # "x"
  <2>1. BehindEscape(p) = p
    BY <1>9 DEF BehindEscape
  <2> QED
    BY <1>1, <1>9, <2>1
<1> QED
  BY <1>7, <1>8, <1>9

\* What a string may do with a character, the one behind an escape included.
LEMMA StringOutcomes ==
  ASSUME TurnString, NEW p, NEW warned,
         p = IF At(offset) = "\\" THEN BehindEscape(offset + 1) ELSE offset,
         warned = IF At(offset) = "\\" /\ UnknownEscape(offset + 1)
                  THEN {Character(offset + 1)} ELSE {}
  PROVE  /\ Scanning /\ mode = "string"
         /\ \/ RaiseWith({}, Character(offset))
            \/ /\ At(p) = quote
               /\ sink' = Append(sink, Token("STRING", previous, p + 1))
               /\ reported' = reported \cup warned /\ mode' = "root" /\ offset' = p + 1
               /\ UNCHANGED <<text, scan>>
            \/ At(p) = "NUL" /\ RaiseWith(warned, Character(p - 1))
            \/ /\ At(p) # "NUL"
               /\ reported' = reported \cup warned /\ offset' = p + 1
               /\ UNCHANGED <<text, previous, mode, sink, scan>>
BY Zenon DEF TurnString, quote, RaiseAt

\* A string up to its quote or to the end of the text.
LEMMA StringRead ==
  ASSUME NEW p \in Nat, NEW q \in Nat, At(p) = quote,
         q = Len(text) \/ (q > p + 1 /\ At(q - 1) = quote)
  PROVE  IsWord(Token("STRING", p, q))
<1>1. Lexeme("STRING", p, q)
  BY Zenon DEF Lexeme, quote
<1> QED
  BY <1>1 DEF IsWord, Token

\* Inside strings (scanString).
LEMMA StringTurn ==
  ASSUME ScanInv, TurnString
  PROVE  ScanInv'
<1>1. PICK p, warned :
        /\ p = IF At(offset) = "\\" THEN BehindEscape(offset + 1) ELSE offset
        /\ warned = IF At(offset) = "\\" /\ UnknownEscape(offset + 1)
                    THEN {Character(offset + 1)} ELSE {}
  OBVIOUS
<1>2. /\ Scanning /\ mode = "string"
      /\ \/ RaiseWith({}, Character(offset))
         \/ /\ At(p) = quote
            /\ sink' = Append(sink, Token("STRING", previous, p + 1))
            /\ reported' = reported \cup warned /\ mode' = "root" /\ offset' = p + 1
            /\ UNCHANGED <<text, scan>>
         \/ At(p) = "NUL" /\ RaiseWith(warned, Character(p - 1))
         \/ /\ At(p) # "NUL"
            /\ reported' = reported \cup warned /\ offset' = p + 1
            /\ UNCHANGED <<text, previous, mode, sink, scan>>
  BY <1>1, StringOutcomes
<1>3. PICK o \in Nat, n \in Nat : o = offset /\ n = Len(text) /\ o < n
  BY <1>2, RootPlace
<1>4. PICK begin \in Nat : begin = previous /\ begin < o /\ At(begin) = quote /\ Ordered(sink, begin)
  BY <1>2, <1>3 DEF ScanInv, Scanning
<1>5. /\ o + 1 \in Nat /\ o + 1 <= Len(text)
      /\ BehindEscape(o + 1) \in o+1..n
      /\ UnknownEscape(o + 1) => o + 1 < n
  BY <1>3, EscapeFits DEF ScanInv
<1>6. p \in o..n /\ p \in Nat
  BY <1>1, <1>3, <1>5
<1>7. \A w \in warned : InText(w)
  BY <1>1, <1>3, <1>5 DEF InText, Character
<1>8. \A w \in reported \cup warned : InText(w)
  BY <1>7 DEF ScanInv
<1>9. At(p) # "NUL" => p < n
  BY <1>3, <1>6, TextPlaces DEF ScanInv
<1>10. ASSUME RaiseWith({}, Character(offset)) PROVE ScanInv'
  BY <1>2, <1>10, RootPlace, RaiseKeeps
<1>11. ASSUME At(p) = "NUL", RaiseWith(warned, Character(p - 1)) PROVE ScanInv'
  <2>1. p - 1 \in Nat /\ p <= n
    <3>1. o # p
      <4>1. At(o) # "NUL"
        BY <1>3, TextPlaces DEF ScanInv
      <4> QED
        BY <1>11, <4>1
    <3> QED
      BY <1>6, <3>1
  <2>2. InText(Character(p - 1))
    BY <1>3, <1>6, <2>1 DEF InText, Character
  <2> QED
    BY <1>2, <1>7, <1>11, <2>2, RaiseKeeps
<1>12. ASSUME At(p) # "NUL", reported' = reported \cup warned, offset' = p + 1,
              UNCHANGED <<text, previous, mode, sink, scan>>
       PROVE  ScanInv'
  <2>1. p + 1 \in offset..Len(text)
    BY <1>3, <1>6, <1>9, <1>12
  <2>2. scan' = "scanning" /\ previous' \in 0..(p + 1)-1 /\ At(previous') = quote /\ Ordered(sink, previous')
    BY <1>2, <1>4, <1>6, <1>12 DEF Scanning
  <2> QED
    BY <1>8, <1>12, <2>1, <2>2, SkipKeeps
<1>13. ASSUME At(p) = quote, sink' = Append(sink, Token("STRING", previous, p + 1)),
              reported' = reported \cup warned, mode' = "root", offset' = p + 1,
              UNCHANGED <<text, scan>>
       PROVE  ScanInv'
  <2>1. At(p) # "NUL"
    BY <1>13, Zenon DEF quote
  <2>2. p + 1 \in offset..Len(text) /\ p + 1 \in Nat /\ p + 1 - 1 = p
    BY <1>3, <1>6, <1>9, <2>1
  <2>3. PICK token : token = Token("STRING", begin, p + 1)
    OBVIOUS
  <2>4. token \in Tokens /\ token.begin = begin /\ token.end = p + 1
    BY <2>2, <2>3 DEF Token, Tokens
  <2>5. IsWord(token)
    <3>1. PICK q \in Nat : q = p + 1 /\ q - 1 = p /\ q > begin + 1
      BY <1>4, <1>6, <2>2
    <3>2. At(q - 1) = quote
      BY <1>13, <3>1
    <3> QED
      BY <1>4, <2>3, <3>1, <3>2, StringRead
  <2>6. scan' # "raised" /\ mode' # "string" /\ sink' = Append(sink, token)
    BY <1>2, <1>4, <1>13, <2>3 DEF Scanning
  <2>7. begin <= token.begin /\ token.begin <= token.end /\ token.end <= p + 1
    BY <1>4, <1>6, <2>2, <2>4
  <2> QED
    BY <1>4, <1>8, <1>13, <2>2, <2>4, <2>5, <2>6, <2>7, TakeKeeps
<1> QED
  BY <1>2, <1>10, <1>11, <1>12, <1>13

\* At the end, what is open becomes a string, and a break follows (tokenize).
LEMMA EndTurn ==
  ASSUME ScanInv, EndOfText
  PROVE  ScanInv'
<1>1. PICK n \in Nat : n = Len(text) /\ n = offset
  BY TextPlaces DEF ScanInv, EndOfText
<1>2. /\ UNCHANGED <<text, offset, reported>> /\ scan = "scanning" /\ scan' = "done"
      /\ sink' = sink \o (IF mode = "string" THEN <<Token("STRING", previous, n)>> ELSE <<>>)
                      \o <<Token("BREAK", n, n)>>
  BY <1>1 DEF EndOfText
<1>3. PICK last : last = Token("BREAK", n, n)
  OBVIOUS
<1>4. last \in Tokens /\ last.begin = n /\ last.end = n /\ IsWord(last)
  BY <1>1, <1>3 DEF Token, Tokens, ScannedTypes, IsWord
<1>5. PICK s \in Seq(Tokens) : sink' = s \o <<last>> /\ Ordered(s, n) /\ Words(s)
  <2>1. CASE mode # "string"
    <3>1. sink \o <<>> = sink /\ sink \in Seq(Tokens)
      BY ConcatEmptySeq DEF ScanInv
    <3> QED
      BY <1>1, <1>2, <1>3, <2>1, <3>1 DEF ScanInv
  <2>2. CASE mode = "string"
    <3>1. PICK begin \in Nat : begin = previous /\ begin < n /\ At(begin) = quote /\ Ordered(sink, begin)
      BY <1>1, <1>2, <2>2 DEF ScanInv
    <3>2. PICK token : token = Token("STRING", begin, n)
      OBVIOUS
    <3>3. token \in Tokens /\ token.begin = begin /\ token.end = n
      BY <3>2 DEF Token, Tokens
    <3>4. IsWord(token)
      BY <1>1, <3>1, <3>2, StringRead
    <3>5. sink \in Seq(Tokens) /\ Words(sink)
      BY DEF ScanInv
    <3>6. /\ Append(sink, token) \in Seq(Tokens) /\ Ordered(Append(sink, token), n)
          /\ Words(Append(sink, token))
      BY <3>1, <3>3, <3>4, <3>5, OrderedAppend, WordsAppend
    <3>7. sink \o <<token>> = Append(sink, token)
      BY <3>3, <3>5, AppendIsConcat
    <3>8. sink' = (sink \o <<token>>) \o <<last>>
      BY <1>2, <1>3, <2>2, <3>1, <3>2
    <3> QED
      BY <3>6, <3>7, <3>8
  <2> QED
    BY <2>1, <2>2
<1>6. /\ Append(s, last) \in Seq(Tokens) /\ Ordered(Append(s, last), n)
      /\ Words(Append(s, last))
  BY <1>4, <1>5, OrderedAppend, WordsAppend
<1>7. sink' = Append(s, last)
  BY <1>4, <1>5, AppendIsConcat
<1>8. PICK t : t = sink' /\ t \in Seq(Tokens) /\ Ordered(t, n) /\ Words(t)
  BY <1>6, <1>7
<1>9. Words(sink)'
  BY <1>2, <1>8, WordsStay
<1>10. Ordered(sink, offset)' /\ (sink \in Seq(Tokens))'
  BY <1>1, <1>2, <1>8 DEF Ordered
<1>11. IsText(text)' /\ (\A span \in reported : InText(span))' /\ (offset \in 0..Len(text))'
  BY <1>2, TextStays DEF ScanInv, InText
<1> QED
  BY <1>2, <1>9, <1>10, <1>11 DEF ScanInv, PlaceRefused

\* Whatever is read next, what is read is in order and made of words.
LEMMA TokenizeKeeps ==
  ASSUME ScanInv, Tokenize
  PROVE  ScanInv'
<1>1. CASE ScanBreak \/ ScanSymbol \/ SkipWhitespace
  BY <1>1, SingleTurns
<1>2. CASE EnterComment \/ EnterString
  BY <1>2, EnterTurns
<1>3. CASE Unreachable
  BY <1>3, UnreachableTurn
<1>4. CASE ScanIdentifierOrLabel
  BY <1>4, IdentifierTurn
<1>5. CASE ScanInteger
  BY <1>5, IntegerTurn
<1>6. CASE ScanRegisterSet
  BY <1>6, RegistersTurn
<1>7. CASE TurnInline \/ TurnComment
  BY <1>7, CommentTurns
<1>8. CASE TurnString
  BY <1>8, StringTurn
<1>9. CASE EndOfText
  BY <1>9, EndTurn
<1> QED
  BY <1>1, <1>2, <1>3, <1>4, <1>5, <1>6, <1>7, <1>8, <1>9 DEF Tokenize

(***************************************************************************)
(* What a process does to its text.                                        *)
(***************************************************************************)
TextInv ==
  /\ ScanInv
  /\ \A path \in DOMAIN texts : IsText(texts[path])

\* Before any text is read.
LEMMA TextInit == Init => TextInv
<1> SUFFICES ASSUME Init PROVE TextInv
  OBVIOUS
<1>1. /\ \A path \in DOMAIN texts : IsText(texts[path])
      /\ text = <<>> /\ offset = 0 /\ mode = "root" /\ scan = "done" /\ reported = {}
  BY TextsAssumption DEF Init
<1>2. PICK last : last = Token("BREAK", 0, 0)
  OBVIOUS
<1>3. sink = <<last>> /\ last.begin = 0 /\ last.end = 0 /\ last \in Tokens
  BY <1>2 DEF Init, Token, Tokens, ScannedTypes
<1>4. sink \in Seq(Tokens) /\ DOMAIN sink = {1} /\ sink[1] = last
  <2>1. DOMAIN <<last>> = {1} /\ <<last>>[1] = last /\ <<last>> \in Seq(Tokens)
    BY <1>3
  <2> QED
    BY <1>3, <2>1
<1>5. IsText(text)
  <2>1. LineCount(text) = 0
    BY <1>1, FS_EmptySet DEF LineCount, LineStarts
  <2> QED
    BY <1>1, <2>1, LineAssumption DEF IsText
<1>6. Len(text) = 0
  BY <1>1
<1>7. Words(sink)
  BY <1>3, <1>4, <1>6 DEF Words, IsWord
<1>8. Ordered(sink, offset)
  BY <1>1, <1>3, <1>4 DEF Ordered
<1> QED
  BY <1>1, <1>4, <1>5, <1>6, <1>7, <1>8 DEF TextInv, ScanInv, PlaceRefused

\* Nothing else touches what is read.
LEMMA ScanStays ==
  ASSUME ScanInv, UNCHANGED <<text, scannerVars>>
  PROVE  ScanInv'
<1>1. UNCHANGED <<text, offset, previous, mode, sink, scan, reported>>
  BY DEF scannerVars
<1>2. PICK s, p, o : s = sink /\ p = offset /\ o = previous
  OBVIOUS
<1>3. s = sink' /\ p = offset' /\ o = previous' /\ Words(s)
  BY <1>1, <1>2 DEF ScanInv
<1>4. Words(sink)' /\ IsText(text)' /\ \A span \in reported' : InText(span)'
  BY <1>1, <1>3, WordsStay, TextStays DEF ScanInv
<1>5. At(o)' = At(o) /\ At(p)' = At(p) /\ EndsFrom(p)' = EndsFrom(p) /\ \A q : At(q)' = At(q)
  BY <1>1, TextStays
<1>6. PlaceRefused'
  <2>1. EndsFrom(offset)' = EndsFrom(p) /\ At(offset)' = At(p)
    BY <1>3, <1>5
  <2> QED
    BY <1>1, <1>2, <1>5, <2>1 DEF ScanInv, PlaceRefused
<1>7. At(previous)' = At(o)
  BY <1>3, <1>5
<1> QED
  BY <1>1, <1>2, <1>4, <1>6, <1>7 DEF ScanInv, Ordered

\* A scan begins with nothing read (assemble).
LEMMA StartStep ==
  ASSUME TextInv, StartAssembling
  PROVE  ScanInv'
<1>1. CASE Value("input") \in DOMAIN texts
  <2>1. PICK characters : characters = texts[Value("input")] /\ text' = characters
    BY <1>1 DEF StartAssembling
  <2>2. /\ offset' = 0 /\ mode' = "root" /\ sink' = <<>> /\ scan' = "scanning" /\ reported' = {}
    BY <1>1 DEF StartAssembling
  <2>3. IsText(characters) /\ Len(characters) \in Nat
    BY <1>1, <2>1, LenProperties DEF TextInv, IsText
  <2>4. IsText(text)' /\ (offset \in 0..Len(text))'
    BY <2>1, <2>2, <2>3 DEF IsText
  <2>5. (sink \in Seq(Tokens))' /\ Ordered(sink, offset)' /\ Words(sink)'
    BY <2>2 DEF Ordered, Words
  <2> QED
    BY <2>2, <2>4, <2>5 DEF ScanInv, PlaceRefused
<1>2. CASE Value("input") \notin DOMAIN texts
  <2>1. UNCHANGED <<text, scannerVars>>
    BY <1>2 DEF StartAssembling, tokenizerVars
  <2> QED
    BY <2>1, ScanStays DEF TextInv
<1> QED
  BY <1>1, <1>2

\* Only a turn of the scan and the start of one touch what is read.
LEMMA TextStep == TextInv /\ [Next]_vars => TextInv'
<1> SUFFICES ASSUME TextInv, [Next]_vars PROVE TextInv'
  OBVIOUS
<1>1. CASE StartAssembling
  BY <1>1, StartStep DEF TextInv, StartAssembling, worldVars
<1>2. CASE ReadText
  BY <1>2, TokenizeKeeps DEF TextInv, ReadText, worldVars
<1>3. ASSUME UNCHANGED <<text, scannerVars, texts>>
      PROVE  TextInv'
  BY <1>3, ScanStays DEF TextInv
<1>4. CASE Invoke \/ ReadArguments \/ RefuseArguments \/ NoTask
  BY <1>3, <1>4 DEF Invoke, ReadArguments, RefuseArguments, NoTask, tokenizerVars, worldVars
<1>5. CASE Abort \/ StartParsing \/ Assemble \/ WriteFile
  BY <1>3, <1>5 DEF Abort, StartParsing, Assemble, WriteFile, tokenizerVars, worldVars
<1>6. CASE RunAssembled \/ MissingFile \/ Disassemble \/ RunLoaded \/ Quit
  BY <1>3, <1>6 DEF RunAssembled, MissingFile, Disassemble, RunLoaded, Quit, tokenizerVars, worldVars
<1>7. CASE UNCHANGED vars
  BY <1>3, <1>7 DEF vars, tokenizerVars, worldVars
<1> QED
  BY <1>1, <1>2, <1>4, <1>5, <1>6, <1>7 DEF Next, Process

\* Of every source, whatever its characters, the scan makes words: each is the
\* longest that begins at its place, and nothing that could go on follows it, but for
\* numbers that are cut behind a digit alone between separators (tokenize and the
\* scan functions).
THEOREM ScanReadsTokens == Spec => []TokensRead
<1>1. TextInv => TokensRead
  BY DEF TextInv, ScanInv, Words, IsWord, TokensRead
<1> QED
  BY <1>1, TextInit, TextStep, PTL DEF Spec

\* Nothing that begins with a quote is a word of the others.
LEMMA NoWordInQuotes ==
  ASSUME IsText(text), NEW p \in Nat, At(p) = quote
  PROVE  EndsFrom(p) = {}
<1>1. quote \notin alphabetic /\ quote \notin decimal /\ quote # "$" /\ quote \notin single
  BY Classes, Zenon DEF quote, single
<1> QED
  BY <1>1, WordsFrom

\* No source is refused at a place where a word of the language ends, or within one,
\* but for a register set at its very end and the rest of a number behind a digit
\* alone between separators (scanInteger, scanRegisterSet, unreachable).
THEOREM ScanRejectsOnlyMalformed == Spec => []RejectsOnlyMalformed
<1>1. TextInv => RejectsOnlyMalformed
  <2> SUFFICES ASSUME TextInv, scan = "raised", mode = "root" PROVE RejectsOnlyMalformed
    BY DEF RejectsOnlyMalformed
  <2>1. ScanInv /\ PlaceRefused /\ IsText(text) /\ Words(sink) /\ sink \in Seq(Tokens)
    BY DEF TextInv, ScanInv
  <2>2. ASSUME NEW n \in DOMAIN sink, sink[n].end = offset, ~LoneDigit(offset - 1),
               NEW q \in EndsFrom(sink[n].begin)
        PROVE  q <= offset
    <3>1. PICK t \in Tokens : t = sink[n]
      BY <2>1, ElementOfSeq
    <3>2. t.begin \in Nat
      BY DEF Tokens
    <3>3. PICK b \in Nat : b = t.begin /\ q \in EndsFrom(b)
      BY <2>2, <3>1, <3>2
    <3>4. b < Len(text)
      BY <2>1, <3>3, WordsFrom, TextPlaces
    <3>5. /\ Lexeme(t.type, b, t.end)
          /\ t.type # "STRING" => \A r \in EndsFrom(b) : r <= t.end \/ LoneDigit(t.end - 1)
      BY <2>1, <3>1, <3>3, <3>4 DEF Words, IsWord
    <3>6. t.type # "STRING"
      <4> SUFFICES ASSUME t.type = "STRING" PROVE FALSE
        OBVIOUS
      <4>1. At(b) = quote
        BY <3>5, Zenon DEF Lexeme, quote
      <4> QED
        BY <2>1, <3>3, <4>1, NoWordInQuotes
    <3> QED
      BY <2>2, <3>1, <3>3, <3>5, <3>6
  <2> QED
    BY <2>1, <2>2 DEF PlaceRefused, RejectsOnlyMalformed
<1> QED
  BY <1>1, TextInit, TextStep, PTL DEF Spec

(***************************************************************************)
(* The lines of a text, and what messages show of them.                    *)
(***************************************************************************)

\* Lines start at places of the text, the first at its front.
LEMMA StartsAreInText ==
  ASSUME IsText(text)
  PROVE  /\ LineStarts(text) \subseteq 0..Len(text)
         /\ text # <<>> => 0 \in LineStarts(text)
         /\ IsFiniteSet(LineStarts(text)) /\ LineCount(text) \in Nat
<1>1. Len(text) \in Nat /\ DOMAIN text = 1..Len(text)
  BY LenProperties DEF IsText
<1>2. LineStarts(text) \subseteq 0..Len(text)
  BY <1>1 DEF LineStarts
<1>3. text # <<>> => 0 \in LineStarts(text)
  BY DEF LineStarts
<1>4. IsFiniteSet(LineStarts(text))
  <2>1. IsFiniteSet(0..Len(text))
    BY <1>1, FS_Interval
  <2> QED
    BY <1>2, <2>1, FS_Subset
<1>5. LineCount(text) \in Nat
  BY <1>4, FS_CardinalityType DEF LineCount
<1> QED
  BY <1>2, <1>3, <1>4, <1>5

\* Line numbers grow with the place, by one at each start.
LEMMA NumbersGrow ==
  ASSUME IsText(text), NEW p \in Nat
  PROVE  /\ LineNumber(text, p) \in Nat /\ LineNumber(text, p) <= LineCount(text)
         /\ p >= Len(text) => LineNumber(text, p) = LineCount(text)
         /\ \A q \in Nat : p <= q => LineNumber(text, p) <= LineNumber(text, q)
         /\ \A s \in LineStarts(text) : p < s => LineNumber(text, p) < LineNumber(text, s)
         /\ LineNumber(text, p + 1) =
              LineNumber(text, p) + (IF p + 1 \in LineStarts(text) THEN 1 ELSE 0)
<1> DEFINE S == LineStarts(text)
           upTo(q) == {s \in S : s <= q}
<1>1. S \subseteq 0..Len(text) /\ IsFiniteSet(S) /\ Len(text) \in Nat
  BY StartsAreInText, TextPlaces
<1>2. \A q : IsFiniteSet(upTo(q)) /\ Cardinality(upTo(q)) \in Nat
  <2> SUFFICES ASSUME NEW q PROVE IsFiniteSet(upTo(q)) /\ Cardinality(upTo(q)) \in Nat
    OBVIOUS
  <2>1. upTo(q) \subseteq S
    OBVIOUS
  <2>2. IsFiniteSet(upTo(q))
    BY <1>1, <2>1, FS_Subset
  <2> QED
    BY <2>2, FS_CardinalityType
<1>3. \A q : LineNumber(text, q) = Cardinality(upTo(q))
  BY DEF LineNumber
<1>4. LineCount(text) = Cardinality(S)
  BY DEF LineCount
<1>5. LineNumber(text, p) <= LineCount(text)
  <2>1. upTo(p) \subseteq S
    OBVIOUS
  <2>2. Cardinality(upTo(p)) <= Cardinality(S)
    BY <1>1, <2>1, FS_Subset
  <2> QED
    BY <1>3, <1>4, <2>2
<1>6. p >= Len(text) => LineNumber(text, p) = LineCount(text)
  <2> SUFFICES ASSUME p >= Len(text) PROVE LineNumber(text, p) = LineCount(text)
    OBVIOUS
  <2>1. upTo(p) = S
    BY <1>1
  <2> QED
    BY <1>3, <1>4, <2>1
<1>7. ASSUME NEW q \in Nat, p <= q
      PROVE  LineNumber(text, p) <= LineNumber(text, q)
  <2>1. upTo(p) \subseteq upTo(q)
    BY <1>1, <1>7
  <2>2. Cardinality(upTo(p)) <= Cardinality(upTo(q))
    BY <1>2, <2>1, FS_Subset
  <2> QED
    BY <1>3, <2>2
<1>8. ASSUME NEW s \in S, p < s
      PROVE  LineNumber(text, p) < LineNumber(text, s)
  <2>1. upTo(p) \cup {s} \subseteq upTo(s) /\ s \notin upTo(p)
    BY <1>1, <1>8
  <2>2. Cardinality(upTo(p) \cup {s}) = Cardinality(upTo(p)) + 1
    BY <1>2, <2>1, FS_AddElement
  <2>3. Cardinality(upTo(p) \cup {s}) <= Cardinality(upTo(s))
    BY <1>2, <2>1, FS_Subset
  <2>4. Cardinality(upTo(p)) \in Nat /\ Cardinality(upTo(s)) \in Nat
    BY <1>2
  <2>5. Cardinality(upTo(p)) < Cardinality(upTo(s))
    <3> HIDE DEF upTo
    <3> QED
      BY <2>2, <2>3, <2>4
  <2> QED
    BY <1>3, <2>5
<1>9. LineNumber(text, p + 1) = LineNumber(text, p) + (IF p + 1 \in S THEN 1 ELSE 0)
  <2>1. CASE p + 1 \in S
    <3>1. upTo(p + 1) = upTo(p) \cup {p + 1} /\ p + 1 \notin upTo(p)
      BY <1>1, <2>1
    <3>2. Cardinality(upTo(p) \cup {p + 1}) = Cardinality(upTo(p)) + 1
      BY <1>2, <3>1, FS_AddElement
    <3> QED
      BY <1>3, <2>1, <3>1, <3>2
  <2>2. CASE p + 1 \notin S
    <3>1. upTo(p + 1) = upTo(p)
      BY <1>1, <2>2
    <3>2. LineNumber(text, p) \in Nat
      BY <1>2, <1>3
    <3>3. LineNumber(text, p + 1) = LineNumber(text, p)
      BY <1>3, <3>1
    <3> QED
      BY <2>2, <3>2, <3>3
  <2> QED
    BY <2>1, <2>2
<1> QED
  BY <1>2, <1>3, <1>5, <1>6, <1>7, <1>8, <1>9

\* Every line has its start (SourceUnit::line).
LEMMA LinesHaveStarts ==
  ASSUME IsText(text), text # <<>>, NEW n \in 1..LineCount(text)
  PROVE  LineStart(text, n) \in LineStarts(text) /\ LineNumber(text, LineStart(text, n)) = n
<1> DEFINE T == {p \in Nat : n <= LineNumber(text, p)}
<1>1. LineCount(text) \in Nat /\ n \in Nat /\ 1 <= n /\ n <= LineCount(text)
  BY StartsAreInText
<1>2. Len(text) \in T
  <2>1. Len(text) \in Nat
    BY TextPlaces
  <2>2. LineNumber(text, Len(text)) = LineCount(text)
    BY <2>1, NumbersGrow
  <2> QED
    BY <1>1, <2>1, <2>2
<1>3. PICK p \in T : \A q \in T : p <= q
  <2>1. T \in SUBSET Nat /\ T # {}
    BY <1>2
  <2> HIDE DEF T
  <2> QED
    BY <2>1, FirstPlace
<1>4. p \in Nat /\ n <= LineNumber(text, p)
  BY <1>3
<1>5. CASE p = 0
  <2>1. 0 \in LineStarts(text)
    BY StartsAreInText
  <2>2. {s \in LineStarts(text) : s <= 0} = {0}
    BY <2>1, StartsAreInText, TextPlaces
  <2>3. LineNumber(text, 0) = 1
    BY <2>2, FS_Singleton DEF LineNumber
  <2> QED
    BY <1>1, <1>4, <1>5, <2>1, <2>3 DEF LineStart
<1>6. CASE p # 0
  <2>1. PICK q \in Nat : p = q + 1
    <3>1. p - 1 \in Nat /\ p = (p - 1) + 1
      BY <1>4, <1>6
    <3> QED
      BY <3>1
  <2>2. LineNumber(text, q) < n
    <3>1. LineNumber(text, q) \in Nat
      BY <2>1, NumbersGrow
    <3>2. q \notin T
      BY <1>3, <1>4, <2>1
    <3> QED
      BY <1>1, <2>1, <3>1, <3>2
  <2>3. /\ LineNumber(text, p) = LineNumber(text, q) + (IF p \in LineStarts(text) THEN 1 ELSE 0)
        /\ LineNumber(text, q) \in Nat
    BY <2>1, NumbersGrow
  <2>4. p \in LineStarts(text) /\ LineNumber(text, p) = n
    BY <1>1, <1>4, <2>2, <2>3
  <2> QED
    BY <2>4 DEF LineStart
<1> QED
  BY <1>5, <1>6

\* A whole line, by its number; numbers behind the last are the last's.
LEMMA LineShown ==
  ASSUME IsText(text), text # <<>>, NEW n \in Nat, n > 0
  PROVE  \E m \in 1..LineCount(text) :
           /\ m = IF n > LineCount(text) THEN LineCount(text) ELSE n
           /\ LineFrom(text, n, 1).begin = LineStart(text, m)
           /\ LineFrom(text, n, 1).end =
                IF m < LineCount(text) THEN LineStart(text, m + 1) ELSE Len(text)
<1>1. PICK count \in Nat : count = LineCount(text)
  BY StartsAreInText
<1>2. count >= 1
  <2>1. LineNumber(text, 0) \in Nat /\ LineNumber(text, 0) <= count
    BY <1>1, NumbersGrow
  <2>2. 0 \in LineStarts(text) /\ IsFiniteSet(LineStarts(text))
    BY StartsAreInText
  <2>3. Cardinality(LineStarts(text)) # 0
    BY <2>2, FS_EmptySet
  <2> QED
    BY <1>1, <2>3 DEF LineCount
<1>3. PICK m \in 1..count : m = IF n > count THEN count ELSE n
  BY <1>2
<1>4. PICK start, end : /\ start = LineStart(text, m)
                        /\ end = IF m < count THEN LineStart(text, m + 1) ELSE Len(text)
  OBVIOUS
<1>5. start \in LineStarts(text) /\ LineNumber(text, start) = m
  BY <1>1, <1>3, <1>4, LinesHaveStarts
<1>6. start \in Nat /\ start <= Len(text) /\ Len(text) \in Nat
  BY <1>5, StartsAreInText, TextPlaces
<1>7. end \in Nat /\ ~(start > end)
  <2>1. CASE m < count
    <3>1. m + 1 \in 1..count
      BY <1>3, <2>1
    <3>2. end \in LineStarts(text) /\ LineNumber(text, end) = m + 1
      BY <1>1, <1>4, <2>1, <3>1, LinesHaveStarts
    <3>3. end \in Nat
      BY <3>2, StartsAreInText, TextPlaces
    <3>4. end <= start => LineNumber(text, end) <= LineNumber(text, start)
      BY <1>6, <3>3, NumbersGrow
    <3> QED
      BY <1>3, <1>5, <1>6, <3>2, <3>3, <3>4
  <2>2. CASE ~(m < count)
    BY <1>4, <1>6, <2>2
  <2> QED
    BY <2>1, <2>2
<1>8. /\ LineFrom(text, n, 1).begin = IF start + 0 > end THEN end ELSE start + 0
      /\ LineFrom(text, n, 1).end = end
  BY <1>1, <1>2, <1>3, <1>4 DEF LineFrom
<1> QED
  BY <1>1, <1>3, <1>4, <1>6, <1>7, <1>8

\* The distance from behind the source to its last line wraps and comes out right.
LEMMA Wraps ==
  ASSUME NEW count \in Nat, NEW m \in Nat, count + 1 < m
  PROVE  /\ \A n \in 0..count : (n + 0) % m = n
         /\ ((count + 1) + ((count - (count + 1)) % m)) % m = count
<1>1. \A n \in 0..count : n % m = n
  OBVIOUS
<1>2. (count - (count + 1)) = -1
  OBVIOUS
<1>3. (-1) % m = m - 1
  OBVIOUS
<1>4. (count + m) % m = count
  OBVIOUS
<1>5. (count + 1) + (m - 1) = count + m
  OBVIOUS
<1>6. \A n \in 0..count : n + 0 = n
  OBVIOUS
<1> QED
  BY <1>1, <1>2, <1>3, <1>4, <1>5, <1>6

\* What is to be shown of a span (MessagesShowTheirLine).
ShowsLines(span) ==
  LET last == IF span.end > span.begin THEN span.end - 1 ELSE span.begin
      shown == Wrap(text, span)
      starts == LineStarts(text) \cup {0}
  IN  /\ shown.begin \in {s \in starts : s <= span.begin}
      /\ shown.end \in {s \in starts : s > last} \cup {Len(text)}
      /\ \A s \in starts :
           /\ s <= span.begin => s <= shown.begin
           /\ s > last => s >= shown.end

\* A span of the text shows its lines.
LEMMA SpanShown ==
  ASSUME IsText(text), NEW span, InText(span)
  PROVE  ShowsLines(span)
<1> DEFINE starts == LineStarts(text) \cup {0}
           last == IF span.end > span.begin THEN span.end - 1 ELSE span.begin
<1> SUFFICES /\ Wrap(text, span).begin \in {s \in starts : s <= span.begin}
             /\ Wrap(text, span).end \in {s \in starts : s > last} \cup {Len(text)}
             /\ \A s \in starts :
                  /\ s <= span.begin => s <= Wrap(text, span).begin
                  /\ s > last => s >= Wrap(text, span).end
  BY DEF ShowsLines
<1>1. PICK b \in Nat, e \in Nat, n \in Nat :
        b = span.begin /\ e = span.end /\ n = Len(text) /\ b <= e /\ e <= n
  BY TextPlaces DEF InText
<1>2. last \in Nat /\ b <= last /\ last <= n /\ (last >= n => b = n /\ last = n)
  BY <1>1
<1>3. PICK count \in Nat : count = LineCount(text) /\ count + 1 < LineMod
  BY StartsAreInText DEF IsText
<1>4. LineMod \in Nat
  BY LineAssumption
<1>5. SpanFront(text, span) = Find(text, b) /\ SpanBack(text, span) = Find(text, last)
  BY <1>1 DEF SpanFront, SpanBack
<1>6. \A p \in Nat : Find(text, p).line = IF p < n THEN LineNumber(text, p) ELSE count + 1
  BY <1>1, <1>3 DEF Find
<1>7. CASE text = <<>>
  <2>1. count = 0 /\ n = 0
    BY <1>1, <1>3, <1>7, FS_EmptySet DEF LineCount, LineStarts
  <2>2. Wrap(text, span) = [begin |-> 0, end |-> 0]
    BY <1>3, <2>1 DEF Wrap, LineFrom
  <2>3. starts = {0}
    BY <1>7 DEF LineStarts
  <2>4. b = 0 /\ last = 0
    BY <1>1, <1>2, <2>1
  <2> QED
    BY <1>1, <2>1, <2>2, <2>3, <2>4
<1>8. CASE text # <<>>
  <2>1. PICK front : front = Find(text, b).line
    OBVIOUS
  <2>2. PICK back : back = Find(text, last).line
    OBVIOUS
  <2>3. 0 \in LineStarts(text) /\ LineStarts(text) \subseteq 0..n
    BY <1>1, <1>8, StartsAreInText
  <2>4. \A p \in Nat : LineNumber(text, p) \in 1..count
    <3> SUFFICES ASSUME NEW p \in Nat PROVE LineNumber(text, p) \in 1..count
      OBVIOUS
    <3>1. LineNumber(text, p) \in Nat /\ LineNumber(text, p) <= count
      BY <1>3, NumbersGrow
    <3>2. {s \in LineStarts(text) : s <= 0} = {0}
      BY <2>3
    <3>3. LineNumber(text, 0) = 1
      BY <3>2, FS_Singleton DEF LineNumber
    <3>4. LineNumber(text, 0) <= LineNumber(text, p)
      <4>1. 0 \in Nat /\ 0 <= p
        OBVIOUS
      <4> QED
        BY <4>1, NumbersGrow
    <3> QED
      BY <3>1, <3>3, <3>4
  <2>5. /\ Wrap(text, span).begin \in LineStarts(text) /\ Wrap(text, span).begin <= b
        /\ \A s \in LineStarts(text) : s <= b => s <= Wrap(text, span).begin
    <3>1. front \in Nat /\ front > 0 /\ (b < n => front = LineNumber(text, b) /\ front <= count)
          /\ (b >= n => front = count + 1)
      BY <1>6, <2>1, <2>4
    <3>2. PICK m \in 1..count :
            /\ m = IF front > count THEN count ELSE front
            /\ LineFrom(text, front, 1).begin = LineStart(text, m)
      BY <1>3, <1>8, <3>1, LineShown
    <3>3. PICK start : /\ start = LineStart(text, m)
                       /\ start \in LineStarts(text) /\ LineNumber(text, start) = m
      BY <1>3, <1>8, <3>2, LinesHaveStarts
    <3>4. Wrap(text, span).begin = start
      BY <1>5, <2>1, <3>2, <3>3 DEF Wrap
    <3>5. m = LineNumber(text, b)
      <4>1. b >= n => LineNumber(text, b) = count
        BY <1>1, <1>3, NumbersGrow
      <4> QED
        BY <1>1, <3>1, <3>2, <4>1
    <3>6. start \in Nat /\ m \in Nat
      BY <2>3, <3>2, <3>3
    <3>7. b < start => LineNumber(text, b) < LineNumber(text, start)
      BY <1>1, <3>3, NumbersGrow
    <3>8. start <= b
      BY <1>1, <3>3, <3>5, <3>6, <3>7
    <3>9. ASSUME NEW s \in LineStarts(text), s <= b PROVE s <= start
      <4>1. s \in Nat /\ LineNumber(text, s) \in Nat
        BY <2>3, NumbersGrow
      <4>2. LineNumber(text, s) <= LineNumber(text, b)
        BY <1>1, <3>9, <4>1, NumbersGrow
      <4>3. start < s => LineNumber(text, start) < LineNumber(text, s)
        BY <3>6, NumbersGrow
      <4> QED
        BY <3>3, <3>5, <3>6, <4>1, <4>2, <4>3
    <3> QED
      BY <3>3, <3>4, <3>8, <3>9
  <2>6. PICK k \in 1..count :
          /\ k = IF last < n THEN LineNumber(text, last) ELSE count
          /\ Wrap(text, span).end = LineFrom(text, k, 1).end
    <3>1. PICK down : /\ down = IF back > count THEN (count - back) % LineMod ELSE 0
                      /\ Wrap(text, span).end = LineFrom(text, (back + down) % LineMod, 1).end
      BY <1>3, <1>5, <2>2 DEF Wrap
    <3>2. count \in 1..count
      <4>1. LineNumber(text, 0) \in 1..count
        BY <2>4
      <4> QED
        BY <4>1
    <3>3. CASE last < n
      <4>1. back = LineNumber(text, last) /\ back \in 1..count
        BY <1>2, <1>6, <2>2, <2>4, <3>3
      <4>2. down = 0
        BY <3>1, <4>1
      <4>3. (back + 0) % LineMod = back
        BY <1>3, <1>4, <4>1, Wraps
      <4> QED
        BY <3>1, <3>3, <4>1, <4>2, <4>3
    <3>4. CASE ~(last < n)
      <4>1. back = count + 1
        BY <1>2, <1>6, <2>2, <3>4
      <4>2. down = (count - (count + 1)) % LineMod
        BY <3>1, <4>1
      <4>3. ((count + 1) + ((count - (count + 1)) % LineMod)) % LineMod = count
        BY <1>3, <1>4, Wraps
      <4>4. (back + down) % LineMod = count
        BY <4>1, <4>2, <4>3, Zenon
      <4> QED
        BY <3>1, <3>2, <3>4, <4>4
    <3> QED
      BY <3>3, <3>4
  <2>7. LineFrom(text, k, 1).end = IF k < count THEN LineStart(text, k + 1) ELSE n
    <3>1. k \in Nat /\ k > 0 /\ ~(k > count)
      BY <2>6
    <3>2. \E m \in 1..count :
            /\ m = k
            /\ LineFrom(text, k, 1).end = IF m < count THEN LineStart(text, m + 1) ELSE Len(text)
      BY <1>3, <1>8, <3>1, LineShown
    <3> QED
      BY <1>1, <3>2
  <2>8. k = LineNumber(text, last) /\ k \in Nat
    <3>1. last >= n => LineNumber(text, last) = count
      BY <1>1, <1>2, <1>3, NumbersGrow
    <3> QED
      BY <1>1, <1>2, <2>6, <3>1
  <2>9. ASSUME NEW s \in LineStarts(text), s > last
         PROVE  s \in Nat /\ LineNumber(text, s) \in k+1..count
    <3>1. s \in Nat /\ LineNumber(text, s) \in 1..count
      BY <2>3, <2>4
    <3>2. LineNumber(text, last) < LineNumber(text, s)
      BY <1>2, <2>9, NumbersGrow
    <3> QED
      BY <2>8, <3>1, <3>2
  <2>10. CASE k < count
    <3>1. k + 1 \in 1..count
      BY <2>6, <2>10
    <3>2. PICK s : s = LineStart(text, k + 1) /\ s \in LineStarts(text) /\ LineNumber(text, s) = k + 1
      BY <1>3, <1>8, <3>1, LinesHaveStarts
    <3>3. s \in Nat
      BY <2>3, <3>2
    <3>5. s <= last => LineNumber(text, s) <= LineNumber(text, last)
      BY <1>2, <3>3, NumbersGrow
    <3>6. s > last
      BY <1>2, <2>8, <3>2, <3>3, <3>5
    <3>7. Wrap(text, span).end = s
      BY <2>6, <2>7, <2>10, <3>2
    <3>8. ASSUME NEW r \in LineStarts(text), r > last PROVE r >= s
      <4>1. r \in Nat /\ LineNumber(text, r) \in k+1..count
        BY <2>9, <3>8
      <4>2. r < s => LineNumber(text, r) < LineNumber(text, s)
        BY <3>2, <4>1, NumbersGrow
      <4> QED
        BY <2>8, <3>2, <3>3, <4>1, <4>2
    <3> QED
      BY <1>1, <2>3, <2>5, <3>2, <3>6, <3>7, <3>8
  <2>11. CASE ~(k < count)
    <3>1. Wrap(text, span).end = Len(text)
      BY <1>1, <2>6, <2>7, <2>11
    <3>2. \A s \in LineStarts(text) : ~(s > last)
      BY <2>11, <2>8, <2>9
    <3> QED
      BY <1>1, <2>3, <2>5, <3>1, <3>2
  <2> QED
    BY <2>10, <2>11
<1> QED
  BY <1>7, <1>8

\* What a message of any source shows are the lines it is about, from the first
\* to the last line of the source and behind it, where the way to the last line
\* wraps (SourceSpan::wrap, find, line).
THEOREM MessagesAlwaysShowTheirLine == Spec => []MessagesShowTheirLine
<1>1. ASSUME ScanInv PROVE \A span \in Spans : InText(span)
  <2> SUFFICES ASSUME NEW span \in Spans PROVE InText(span)
    OBVIOUS
  <2>1. CASE span \in reported
    BY <1>1, <2>1 DEF ScanInv
  <2>2. CASE span \notin reported
    <3>1. PICK n \in DOMAIN sink : span = [begin |-> sink[n].begin, end |-> sink[n].end]
      BY <2>2 DEF Spans
    <3>2. sink[n] \in Tokens
      <4>1. sink \in Seq(Tokens)
        BY <1>1 DEF ScanInv
      <4>2. DOMAIN sink = 1..Len(sink)
        BY <4>1, LenProperties
      <4> QED
        BY <3>1, <4>1, <4>2, ElementOfSeq
    <3>3. sink[n].begin <= sink[n].end /\ sink[n].end <= offset /\ offset \in 0..Len(text)
      BY <1>1, <3>1 DEF ScanInv, Ordered
    <3>4. Len(text) \in Nat
      BY <1>1, TextPlaces DEF ScanInv
    <3> QED
      BY <3>1, <3>2, <3>3, <3>4 DEF InText, Tokens
  <2> QED
    BY <2>1, <2>2
<1>2. ASSUME ScanInv PROVE MessagesShowTheirLine
  <2>1. IsText(text)
    BY <1>2 DEF ScanInv
  <2>2. ASSUME NEW span \in Spans PROVE ShowsLines(span)
    <3>1. InText(span)
      BY <1>1, <1>2, <2>2
    <3> QED
      BY <2>1, <3>1, SpanShown
  <2>3. \A span \in Spans : ShowsLines(span)
    BY <2>2
  <2> QED
    BY <2>3 DEF MessagesShowTheirLine, ShowsLines
<1>3. TextInv => MessagesShowTheirLine
  BY <1>2 DEF TextInv
<1> QED
  BY <1>3, TextInit, TextStep, PTL DEF Spec

(***************************************************************************)
(* Recursion over the places of a sequence.                                *)
(***************************************************************************)

\* A function that starts with a and goes on by a step of its own at each place.
Recursion(n, V, a, step) ==
  \E f \in [0..n -> V] : f[0] = a /\ \A p \in 1..n : f[p] = step[p][f[p - 1]]

\* What is told of each place by the one before is told of all of them.
LEMMA RecursionExists ==
  ASSUME NEW n \in Nat, NEW V, NEW a \in V, NEW step \in [1..n -> [V -> V]]
  PROVE  Recursion(n, V, a, step)
<1> DEFINE Told(k) ==
      \E f \in [0..k -> V] : f[0] = a /\ \A p \in 1..k : f[p] = step[p][f[p - 1]]
    T == {k \in 0..n : ~Told(k)}
<1>1. Told(0)
  <2>1. PICK f : f = [p \in 0..0 |-> a]
    OBVIOUS
  <2>2. f \in [0..0 -> V] /\ f[0] = a /\ 1..0 = {}
    BY <2>1
  <2> QED
    BY <2>2
<1>2. ASSUME NEW k \in Nat, k < n, Told(k)
      PROVE  Told(k + 1)
  <2>1. PICK f \in [0..k -> V] : f[0] = a /\ \A p \in 1..k : f[p] = step[p][f[p - 1]]
    BY <1>2
  <2>2. PICK v : v = step[k + 1][f[k]]
    OBVIOUS
  <2>3. v \in V
    BY <1>2, <2>1, <2>2
  <2>4. PICK g : g = [p \in 0..k+1 |-> IF p = k + 1 THEN v ELSE f[p]]
    OBVIOUS
  <2>5. g \in [0..k+1 -> V] /\ g[0] = a
    BY <1>2, <2>1, <2>3, <2>4
  <2>6. ASSUME NEW p \in 1..k+1 PROVE g[p] = step[p][g[p - 1]]
    <3>1. g[p - 1] = f[p - 1]
      BY <1>2, <2>4
    <3>2. CASE p = k + 1
      BY <1>2, <2>2, <2>4, <3>1, <3>2
    <3>3. CASE p # k + 1
      BY <1>2, <2>1, <2>4, <3>1, <3>3
    <3> QED
      BY <3>2, <3>3
  <2> QED
    BY <2>5, <2>6
<1>3. T = {}
  <2> SUFFICES ASSUME T # {} PROVE FALSE
    OBVIOUS
  <2>1. PICK k \in T : \A y \in T : k <= y
    <3>1. T \in SUBSET Nat
      OBVIOUS
    <3> HIDE DEF T
    <3> QED
      BY <3>1, FirstPlace
  <2>2. k \in 0..n /\ ~Told(k)
    BY <2>1
  <2>3. k # 0
    BY <1>1, <2>2
  <2>4. PICK j \in Nat : k = j + 1 /\ j < n
    <3>1. k - 1 \in Nat /\ k = (k - 1) + 1 /\ k - 1 < n
      BY <2>2, <2>3
    <3> QED
      BY <3>1
  <2>5. Told(j)
    <3>1. j \in 0..n
      BY <2>4
    <3>2. j \notin T
      <4> HIDE DEF T
      <4> QED
        BY <2>1, <2>4
    <3> HIDE DEF Told
    <3> QED
      BY <3>1, <3>2
  <2> QED
    BY <1>2, <2>2, <2>4, <2>5
<1>4. Told(n)
  BY <1>3
<1> QED
  BY <1>4 DEF Recursion

(***************************************************************************)
(* Words of a command line.                                                *)
(***************************************************************************)
Spelling == Seq(STRING)

\* What the properties say of a command line, with the words as a parameter.
FlagFunction(ws) ==
  CHOOSE flag : flag = [p \in 0..Len(ws) |->
                          /\ p > 0
                          /\ Dashed(ws[p])
                          /\ flag[p - 1] => \A option \in valued : ~Opens(ws[p - 1], option)]

Flags(ws) == {p \in DOMAIN ws : FlagFunction(ws)[p]}

\* Those of the command line at hand.
LEMMA FlagsAreThose == FlagWords = Flags(words)
  BY Zenon DEF FlagWords, Flags, FlagFunction

\* A word is a flag by its dash and the word before it.
LEMMA FlagsStep ==
  ASSUME NEW ws \in Seq(Spelling), NEW p \in 1..Len(ws)
  PROVE  p \in Flags(ws) <=>
           /\ Dashed(ws[p])
           /\ p > 1 /\ p - 1 \in Flags(ws) => \A option \in valued : ~Opens(ws[p - 1], option)
<1>1. PICK n \in Nat : n = Len(ws) /\ DOMAIN ws = 1..n
  BY LenProperties
<1> DEFINE body(q, before) ==
      Dashed(ws[q]) /\ (before => \A option \in valued : ~Opens(ws[q - 1], option))
<1>2. PICK step : step = [q \in 1..n |-> [before \in BOOLEAN |-> body(q, before)]]
  OBVIOUS
<1>3. step \in [1..n -> [BOOLEAN -> BOOLEAN]]
  BY <1>2
<1>4. PICK f \in [0..n -> BOOLEAN] : f[0] = FALSE /\ \A q \in 1..n : f[q] = step[q][f[q - 1]]
  <2>1. Recursion(n, BOOLEAN, FALSE, step)
    BY <1>1, <1>3, RecursionExists
  <2> QED
    BY <2>1, Zenon DEF Recursion
<1>5. f = [q \in 0..n |->
             /\ q > 0
             /\ Dashed(ws[q])
             /\ f[q - 1] => \A option \in valued : ~Opens(ws[q - 1], option)]
  <2> SUFFICES ASSUME NEW q \in 0..n
               PROVE  f[q] = (/\ q > 0
                              /\ Dashed(ws[q])
                              /\ f[q - 1] => \A option \in valued : ~Opens(ws[q - 1], option))
    BY <1>4, Zenon
  <2>1. CASE q = 0
    <3>1. ~(q > 0)
      BY <2>1
    <3> QED
      BY <1>4, <2>1, <3>1, Zenon
  <2>2. CASE q # 0
    <3>1. q > 0 /\ q \in 1..n /\ q - 1 \in 0..n
      BY <1>1, <2>2
    <3>2. f[q - 1] \in BOOLEAN
      BY <1>4, <3>1, Zenon
    <3>3. step[q][f[q - 1]] = body(q, f[q - 1])
      BY <1>2, <3>1, <3>2, Zenon
    <3> QED
      BY <1>4, <3>1, <3>3, Zenon
  <2> QED
    BY <2>1, <2>2
<1>6. FlagFunction(ws) = [q \in 0..n |->
        /\ q > 0
        /\ Dashed(ws[q])
        /\ FlagFunction(ws)[q - 1] => \A option \in valued : ~Opens(ws[q - 1], option)]
  BY <1>1, <1>5, Zenon DEF FlagFunction
<1>7. PICK g : g = FlagFunction(ws)
  OBVIOUS
<1>8. \A q \in 0..n : g[q] = (/\ q > 0
                              /\ Dashed(ws[q])
                              /\ g[q - 1] => \A option \in valued : ~Opens(ws[q - 1], option))
  BY <1>6, <1>7, Zenon
<1>9. ~g[0]
  <2>1. 0 \in 0..n /\ ~(0 > 0)
    BY <1>1
  <2> QED
    BY <1>8, <2>1, Zenon
<1>10. p - 1 \in Flags(ws) <=> p > 1 /\ g[p - 1]
  <2>1. p - 1 \in 1..n <=> p > 1
    BY <1>1
  <2> QED
    BY <1>1, <1>7, <2>1, Zenon DEF Flags
<1>11. p \in Flags(ws) <=> g[p]
  BY <1>1, <1>7, Zenon DEF Flags
<1>12. p > 1 \/ p - 1 = 0
  BY <1>1
<1>13. p \in 0..n /\ p > 0
  BY <1>1
<1>14. g[p - 1] => p > 1
  BY <1>9, <1>12, Zenon
<1> QED
  BY <1>8, <1>10, <1>11, <1>13, <1>14, Zenon

\* The options, one by one.
LEMMA Options ==
  /\ options = {"help", "hex", "output", "input", "assemble", "disassemble", "run"}
  /\ valued \subseteq options /\ "none" \notin options
  /\ \A x, y \in options : shortName[x] = shortName[y] => x = y
<1>1. options = {"help", "hex", "output", "input", "assemble", "disassemble", "run"}
  BY DEF options, shortName
<1>2. /\ shortName["help"] = "h" /\ shortName["hex"] = "x" /\ shortName["output"] = "O"
      /\ shortName["input"] = "I" /\ shortName["assemble"] = "a"
      /\ shortName["disassemble"] = "d" /\ shortName["run"] = "r"
  BY DEF shortName
<1>3. valued \subseteq options /\ "none" \notin options
  BY <1>1 DEF valued
<1>4. \A x, y \in options : shortName[x] = shortName[y] => x = y
  BY <1>1, <1>2
<1> QED
  BY <1>1, <1>3, <1>4

\* The two sides of a word's equal sign.
LEMMA FlagParts ==
  ASSUME NEW word \in Spelling
  PROVE  /\ Flag(word) \in Spelling /\ Inline(word) \in Spelling
         /\ Len(Flag(word)) <= Len(word)
         /\ \A i \in 1..Len(Flag(word)) : Flag(word)[i] = word[i]
<1>1. PICK n \in Nat : n = Len(word) /\ DOMAIN word = 1..n /\ \A i \in 1..n : word[i] \in STRING
  BY LenProperties, ElementOfSeq DEF Spelling
<1>2. CASE EqualSigns(word) = {}
  <2>1. Flag(word) = word /\ Inline(word) = <<>>
    BY <1>2 DEF Flag, Inline
  <2> QED
    BY <1>1, <2>1 DEF Spelling
<1>3. CASE EqualSigns(word) # {}
  <2>1. PICK k \in Nat : k = FirstEqual(word) /\ k \in 1..n
    <3>1. EqualSigns(word) \in SUBSET Nat /\ EqualSigns(word) \subseteq 1..n
      BY <1>1 DEF EqualSigns
    <3>2. \E i \in EqualSigns(word) : \A j \in EqualSigns(word) : i <= j
      BY <1>3, <3>1, FirstPlace
    <3>3. FirstEqual(word) \in EqualSigns(word)
      BY <3>2 DEF FirstEqual
    <3> QED
      BY <3>1, <3>3
  <2>2. Flag(word) = SubSeq(word, 1, k - 1) /\ Inline(word) = SubSeq(word, k + 1, n)
    BY <1>1, <1>3, <2>1 DEF Flag, Inline
  <2>3. PICK m \in Int, l \in Int : m = k - 1 /\ l = k + 1
    BY <2>1
  <2>4. \A i \in 1..m : word[i] \in STRING
    BY <1>1, <2>1, <2>3
  <2>5. SubSeq(word, 1, m) \in Seq(STRING)
    BY <2>4, SubSeqProperties
  <2>6. Len(SubSeq(word, 1, m)) = IF 1 <= m THEN m - 1 + 1 ELSE 0
    BY <2>4, SubSeqProperties
  <2>7. \A i \in 1..m - 1 + 1 : SubSeq(word, 1, m)[i] = word[1 + i - 1]
    BY <2>4, SubSeqProperties
  <2>8. \A i \in l..n : word[i] \in STRING
    BY <1>1, <2>1, <2>3
  <2>9. SubSeq(word, l, n) \in Seq(STRING)
    BY <1>1, <2>8, SubSeqProperties
  <2>10. Len(SubSeq(word, 1, m)) = m
    BY <2>1, <2>3, <2>6
  <2>11. \A i \in 1..m : SubSeq(word, 1, m)[i] = word[i]
    BY <2>3, <2>7
  <2>12. Flag(word) = SubSeq(word, 1, m) /\ Inline(word) = SubSeq(word, l, n)
    BY <2>2, <2>3
  <2>13. m <= n
    BY <2>1, <2>3
  <2> QED
    BY <1>1, <2>5, <2>9, <2>10, <2>11, <2>12, <2>13 DEF Spelling
<1> QED
  BY <1>2, <1>3

\* The letters of a short word, those that name options, and the value behind them.
LEMMA LetterParts ==
  ASSUME NEW word \in Spelling, word # <<>>
  PROVE  /\ Named(word) \in Spelling /\ Attached(word) \in Spelling
         /\ Len(word) > 1 => Len(Named(word)) >= 1
<1>1. PICK letters \in Spelling, n \in Nat : letters = Letters(word) /\ n = Len(letters) /\ (Len(word) > 1 => n >= 1)
  <2>2. Tail(word) \in Spelling /\ Len(Tail(word)) = Len(word) - 1
    BY HeadTailProperties DEF Spelling
  <2>3. Len(word) \in Nat
    BY LenProperties DEF Spelling
  <2>4. Letters(word) \in Spelling /\ Len(Letters(word)) = Len(word) - 1
    BY <2>2 DEF Letters
  <2>5. Len(Letters(word)) \in Nat /\ (Len(word) > 1 => Len(word) - 1 >= 1)
    BY <2>3, <2>4, LenProperties DEF Spelling
  <2> QED
    BY <2>4, <2>5
<1>2. DOMAIN letters = 1..n /\ \A i \in 1..n : letters[i] \in STRING
  BY <1>1, LenProperties, ElementOfSeq DEF Spelling
<1> DEFINE ends == {i \in DOMAIN letters : Valued(letters[i])}
<1>3. PICK m \in 0..n : Named(word) = SubSeq(letters, 1, m) /\ (n >= 1 => m >= 1)
  <2>1. CASE ends = {}
    <3>1. Named(word) = letters
      BY <1>1, <2>1 DEF Named
    <3>2. letters = SubSeq(letters, 1, n)
      BY <1>1, SubSeqFull DEF Spelling
    <3> QED
      BY <1>1, <3>1, <3>2
  <2>2. CASE ends # {}
    <3>1. ends \in SUBSET Nat /\ ends \subseteq 1..n
      BY <1>2
    <3>2. PICK m : m = CHOOSE i \in ends : \A j \in ends : i <= j
      OBVIOUS
    <3>3. m \in ends
      <4> HIDE DEF ends
      <4>1. \E i \in ends : \A j \in ends : i <= j
        BY <2>2, <3>1, FirstPlace
      <4> QED
        BY <3>2, <4>1
    <3>4. Named(word) = SubSeq(letters, 1, m)
      BY <1>1, <2>2, <3>2 DEF Named
    <3> QED
      BY <3>1, <3>3, <3>4
  <2> QED
    BY <2>1, <2>2
<1>4. m \in Int /\ \A i \in 1..m : letters[i] \in STRING
  BY <1>2
<1>5. Named(word) \in Seq(STRING)
  BY <1>3, <1>4, SubSeqProperties
<1>6. Len(SubSeq(letters, 1, m)) = IF 1 <= m THEN m - 1 + 1 ELSE 0
  BY <1>4, SubSeqProperties
<1>7. Len(Named(word)) = m
  BY <1>3, <1>4, <1>6
<1>8. Attached(word) \in Seq(STRING)
  <2>1. Attached(word) = SubSeq(letters, m + 1, n)
    BY <1>1, <1>7 DEF Attached
  <2>2. PICK l \in Int : l = m + 1
    BY <1>4
  <2>3. \A i \in l..n : letters[i] \in STRING
    BY <1>2, <2>2
  <2>4. SubSeq(letters, l, n) \in Seq(STRING)
    BY <1>1, <2>3, SubSeqProperties
  <2> QED
    BY <2>1, <2>2, <2>4
<1> QED
  BY <1>1, <1>3, <1>5, <1>7, <1>8 DEF Spelling

\* A word whose flag begins with a dash does.
LEMMA FlagsHaveDashes ==
  ASSUME NEW word \in Spelling, Long(word) \/ Short(word)
  PROVE  Dashed(word) /\ word # <<>> /\ Len(word) > 1
<1>1. PICK m \in Nat, n \in Nat : m = Len(Flag(word)) /\ n = Len(word) /\ m <= n
  BY FlagParts, LenProperties DEF Spelling
<1>2. m > 1 /\ Flag(word)[1] = "-"
  BY <1>1 DEF Long, Short
<1>3. word[1] = "-"
  BY <1>1, <1>2, FlagParts
<1>4. word # <<>>
  BY <1>1, <1>2
<1> QED
  BY <1>1, <1>2, <1>3, <1>4 DEF Dashed

\* The option of a long word (builder::parse).
LEMMA LongMeaning ==
  ASSUME NEW word \in Spelling, Long(word), NEW o \in options,
         SubSeq(Flag(word), 3, Len(Flag(word))) = <<o>>
  PROVE  /\ Holder(word) = o /\ Held(word) = Inline(word)
         /\ \A x \in options : Mentions(word, x) <=> x = o
<1>1. PICK f \in Spelling, m \in Nat : f = Flag(word) /\ m = Len(f)
  BY FlagParts, LenProperties DEF Spelling
<1>2. m > 2 /\ f[1] = "-" /\ f[2] = "-"
  BY <1>1 DEF Long
<1>3. DOMAIN f = 1..m /\ \A i \in 1..m : f[i] \in STRING
  BY <1>1, LenProperties, ElementOfSeq DEF Spelling
<1>4. SubSeq(f, 3, m) = <<o>>
  BY <1>1
<1>5. \A i \in 3..m : f[i] \in STRING
  BY <1>3
<1>6. Len(SubSeq(f, 3, m)) = IF 3 <= m THEN m - 3 + 1 ELSE 0
  BY <1>5, SubSeqProperties
<1>7. \A i \in 1..m-3+1 : SubSeq(f, 3, m)[i] = f[3 + i - 1]
  BY <1>5, SubSeqProperties
<1>8. m = 3
  <2>1. Len(<<o>>) = 1
    OBVIOUS
  <2>2. Len(SubSeq(f, 3, m)) = 1
    BY <1>4, <2>1
  <2>3. 1 = m - 3 + 1
    BY <1>2, <1>6, <2>2
  <2> QED
    BY <2>3
<1>9. f[3] = o
  <2>1. 1 \in 1..m-3+1 /\ 3 + 1 - 1 = 3
    BY <1>8
  <2>2. SubSeq(f, 3, m)[1] = f[3]
    BY <1>7, <2>1
  <2>3. <<o>>[1] = o
    OBVIOUS
  <2> QED
    BY <1>4, <2>2, <2>3
<1>10. f = <<"-", "-", o>>
  BY <1>1, <1>2, <1>3, <1>8, <1>9 DEF Spelling
<1>11. {option \in options : f = <<"-", "-", option>>} = {o}
  BY <1>10
<1>12. Holder(word) = o
  <2>1. (CHOOSE option \in {o} : TRUE) = o
    OBVIOUS
  <2> QED
    BY <1>1, <1>11, <2>1 DEF Holder
<1> QED
  BY <1>12 DEF Held, Mentions

\* The option of a short word: the last of its letters (builder::parse).
LEMMA ShortMeaning ==
  ASSUME NEW word \in Spelling, Short(word), NEW o \in options,
         shortName[o] = Named(word)[Len(Named(word))]
  PROVE  /\ Holder(word) = o /\ Held(word) = Attached(word)
         /\ \A x \in options :
              Mentions(word, x) <=> \E i \in DOMAIN Named(word) : Named(word)[i] = shortName[x]
<1>1. ~Long(word)
  BY DEF Short
<1>2. PICK letters : letters = Named(word) /\ letters # <<>>
  <2>1. Len(Named(word)) >= 1
    BY FlagsHaveDashes, LetterParts
  <2> QED
    BY <2>1
<1>3. {option \in options : letters # <<>> /\ shortName[option] = letters[Len(letters)]} = {o}
  BY <1>2, Options
<1>4. Holder(word) = o
  <2>1. (CHOOSE option \in {o} : TRUE) = o
    OBVIOUS
  <2> QED
    BY <1>1, <1>2, <1>3, <2>1 DEF Holder
<1> QED
  BY <1>1, <1>4 DEF Held, Mentions

\* What a flag has for a value is a word.
LEMMA HeldIsSpelling ==
  ASSUME NEW word \in Spelling, Dashed(word)
  PROVE  Held(word) \in Spelling
BY FlagParts, LetterParts DEF Held, Dashed

(***************************************************************************)
(* What is given on a command line.                                        *)
(***************************************************************************)
\* The last flag before a word.
LastIn(ws, p) ==
  CHOOSE q \in Flags(ws) : q < p /\ \A r \in Flags(ws) : r < p => r <= q

\* A word gives an option a value.
GivesIn(ws, p, option) ==
  IF p \in Flags(ws)
  THEN option \in valued /\ Holder(ws[p]) = option /\ Held(ws[p]) # <<>>
  ELSE (\E q \in Flags(ws) : q < p) /\ Opens(ws[LastIn(ws, p)], option)

\* For each number of words, the values of an option among them.
GivenIn(ws, option) ==
  CHOOSE given : given = [p \in 0..Len(ws) |->
    CASE p = 0 -> <<>>
      [] p > 0 /\ ~GivesIn(ws, p, option) -> given[p - 1]
      [] OTHER -> Append(given[p - 1], IF p \in Flags(ws) THEN Held(ws[p]) ELSE ws[p])]

\* ArgumentsKept, of any words, usages and values.
Kept(ws, uses, held) ==
  /\ \A p \in DOMAIN ws \ Flags(ws) : \E option \in valued : GivesIn(ws, p, option)
  /\ \A option \in options :
       LET mentioned == \E p \in Flags(ws) : Mentions(ws[p], option)
       IN  /\ uses[option] > 0 <=> mentioned
           /\ held[option] = IF ~mentioned /\ fallback[option] # <<>>
                             THEN <<fallback[option]>> ELSE GivenIn(ws, option)[Len(ws)]

\* That is the property of the command line at hand.
LEMMA KeptIsArgumentsKept ==
  ArgumentsKept <=> (parse = "parsed" => Kept(words, usages, values))
BY Zenon DEF ArgumentsKept, Kept, GivenIn, GivesIn, Gives, LastIn, LastFlag, Flags,
  FlagFunction, FlagWords

\* Values gather word by word.
LEMMA GivenStep ==
  ASSUME NEW ws \in Seq(Spelling), NEW option
  PROVE  /\ GivenIn(ws, option)[0] = <<>>
         /\ \A p \in 1..Len(ws) :
              GivenIn(ws, option)[p] =
                IF GivesIn(ws, p, option)
                THEN Append(GivenIn(ws, option)[p - 1], IF p \in Flags(ws) THEN Held(ws[p]) ELSE ws[p])
                ELSE GivenIn(ws, option)[p - 1]
<1>1. PICK n \in Nat : n = Len(ws) /\ DOMAIN ws = 1..n /\ \A q \in 1..n : ws[q] \in Spelling
  BY LenProperties, ElementOfSeq
<1> DEFINE value(q) == IF q \in Flags(ws) THEN Held(ws[q]) ELSE ws[q]
           gives(q) == GivesIn(ws, q, option)
<1>2. \A q \in 1..n : value(q) \in Spelling
  <2> SUFFICES ASSUME NEW q \in 1..n PROVE value(q) \in Spelling
    OBVIOUS
  <2>1. q \in Flags(ws) => Dashed(ws[q])
    BY <1>1, FlagsStep
  <2> QED
    BY <1>1, <2>1, HeldIsSpelling
<1> HIDE DEF value, gives
<1>3. PICK step : step = [q \in 1..n |-> [before \in Seq(Spelling) |->
                            IF gives(q) THEN Append(before, value(q)) ELSE before]]
  OBVIOUS
<1>4. step \in [1..n -> [Seq(Spelling) -> Seq(Spelling)]]
  <2>1. \A q \in 1..n, before \in Seq(Spelling) : Append(before, value(q)) \in Seq(Spelling)
    BY <1>2, AppendProperties
  <2> QED
    BY <1>3, <2>1
<1>5. PICK f \in [0..n -> Seq(Spelling)] : f[0] = <<>> /\ \A q \in 1..n : f[q] = step[q][f[q - 1]]
  <2>1. <<>> \in Seq(Spelling)
    OBVIOUS
  <2>2. Recursion(n, Seq(Spelling), <<>>, step)
    BY <1>1, <1>4, <2>1, RecursionExists
  <2> QED
    BY <2>2, Zenon DEF Recursion
<1>6. f = [q \in 0..n |-> CASE q = 0 -> <<>>
                            [] q > 0 /\ ~gives(q) -> f[q - 1]
                            [] OTHER -> Append(f[q - 1], value(q))]
  <2> SUFFICES ASSUME NEW q \in 0..n
               PROVE  f[q] = CASE q = 0 -> <<>>
                               [] q > 0 /\ ~gives(q) -> f[q - 1]
                               [] OTHER -> Append(f[q - 1], value(q))
    BY <1>5, Zenon
  <2>1. CASE q = 0
    BY <1>5, <2>1
  <2>2. CASE q # 0
    <3>1. q > 0 /\ q \in 1..n /\ q - 1 \in 0..n
      BY <1>1, <2>2
    <3>2. f[q] = IF gives(q) THEN Append(f[q - 1], value(q)) ELSE f[q - 1]
      BY <1>3, <1>5, <3>1
    <3> QED
      BY <2>2, <3>1, <3>2
  <2> QED
    BY <2>1, <2>2
<1>7. GivenIn(ws, option) = [q \in 0..n |-> CASE q = 0 -> <<>>
                              [] q > 0 /\ ~gives(q) -> GivenIn(ws, option)[q - 1]
                              [] OTHER -> Append(GivenIn(ws, option)[q - 1], value(q))]
  BY <1>1, <1>6, Zenon DEF GivenIn, gives, value
<1>8. PICK g : g = GivenIn(ws, option)
  OBVIOUS
<1>9. g = [q \in 0..n |-> CASE q = 0 -> <<>>
                            [] q > 0 /\ ~gives(q) -> g[q - 1]
                            [] OTHER -> Append(g[q - 1], value(q))]
  BY <1>7, <1>8
<1>10. g[0] = <<>>
  BY <1>1, <1>9
<1>11. ASSUME NEW p \in 1..n
       PROVE  g[p] = IF gives(p) THEN Append(g[p - 1], value(p)) ELSE g[p - 1]
  <2>1. p \in 0..n /\ p # 0 /\ p > 0
    BY <1>1
  <2>2. g[p] = CASE p = 0 -> <<>>
                 [] p > 0 /\ ~gives(p) -> g[p - 1]
                 [] OTHER -> Append(g[p - 1], value(p))
    BY <1>9, <2>1
  <2>3. CASE gives(p)
    BY <2>1, <2>2, <2>3
  <2>4. CASE ~gives(p)
    BY <2>1, <2>2, <2>4
  <2> QED
    BY <2>3, <2>4
<1> QED
  BY <1>1, <1>8, <1>10, <1>11, Zenon DEF gives, value

(***************************************************************************)
(* The command line, word by word.                                         *)
(***************************************************************************)

\* The last flag among the first words opens an option.
OpenAmong(ws, k, option) ==
  \E q \in Flags(ws) : /\ q <= k /\ \A r \in Flags(ws) : r <= k => r <= q
                       /\ Opens(ws[q], option)

\* Who collects after the first words, and whether a value is due.
Collects(ws, k, expect, who) ==
  /\ expect \in BOOLEAN /\ who \in valued \cup {"none"}
  /\ who # "none" => OpenAmong(ws, k, who)
  /\ ~expect => who # "none" /\ k \in Flags(ws)
  /\ expect /\ k \in Flags(ws) => \A option \in valued : ~Opens(ws[k], option)

\* What the first words have used and given.
Counted(ws, k, uses, held) ==
  /\ uses \in [options -> Nat] /\ held \in [options -> Seq(Spelling)]
  /\ \A option \in options :
       uses[option] > 0 <=> \E q \in Flags(ws) : q <= k /\ Mentions(ws[q], option)
  /\ \A option \in options : held[option] = GivenIn(ws, option)[k]
  /\ \A q \in 1..k : q \in Flags(ws) \/ \E option \in valued : GivesIn(ws, q, option)

\* The first words are read and no more.
WordsRead(ws, k, expect, who, uses, held) ==
  /\ ws \in Seq(Spelling) /\ k \in 0..Len(ws)
  /\ Collects(ws, k, expect, who)
  /\ Counted(ws, k, uses, held)

\* Flags are places of words.
LEMMA FlagPlaces ==
  ASSUME NEW ws \in Seq(Spelling)
  PROVE  Len(ws) \in Nat /\ Flags(ws) \subseteq 1..Len(ws)
BY LenProperties DEF Flags

\* The next word is a flag if it has a dash and no value is due.
LEMMA NextFlag ==
  ASSUME NEW ws \in Seq(Spelling), NEW k \in Nat, NEW p \in 1..Len(ws), p = k + 1,
         NEW expect, NEW who, Collects(ws, k, expect, who)
  PROVE  p \in Flags(ws) <=> Dashed(ws[p]) /\ expect
<1>1. Flags(ws) \subseteq Nat /\ Len(ws) \in Nat /\ p - 1 = k /\ (k \in Flags(ws) => p > 1)
  BY FlagPlaces
<1>2. expect \in BOOLEAN
  BY DEF Collects
<1>3. p \in Flags(ws) <=>
        /\ Dashed(ws[p])
        /\ k \in Flags(ws) => \A option \in valued : ~Opens(ws[k], option)
  BY <1>1, FlagsStep
<1>4. CASE expect
  <2>1. k \in Flags(ws) => \A option \in valued : ~Opens(ws[k], option)
    BY <1>4 DEF Collects
  <2> QED
    BY <1>3, <1>4, <2>1, Zenon
<1>5. CASE ~expect
  <2>1. who \in valued /\ k \in Flags(ws) /\ OpenAmong(ws, k, who)
    BY <1>5 DEF Collects
  <2>2. PICK q \in Flags(ws) : /\ q <= k /\ \A r \in Flags(ws) : r <= k => r <= q
                               /\ Opens(ws[q], who)
    BY <2>1 DEF OpenAmong
  <2>3. q = k
    BY <1>1, <2>1, <2>2
  <2>4. Opens(ws[k], who)
    BY <2>2, <2>3
  <2> QED
    BY <1>3, <1>5, <2>1, <2>4, Zenon
<1> QED
  BY <1>2, <1>4, <1>5

\* A word that is a value of the option that collects (builder::parse).
LEMMA CollectStep ==
  ASSUME NEW ws, NEW k, NEW expect, NEW who, NEW uses, NEW held,
         WordsRead(ws, k, expect, who, uses, held),
         NEW p \in Nat, p = k + 1, p <= Len(ws),
         who # "none", ~expect \/ ~Dashed(ws[p]),
         NEW due \in BOOLEAN, due, NEW new, new = [held EXCEPT ![who] = Append(@, ws[p])]
  PROVE  WordsRead(ws, p, due, who, uses, new)
<1>1. /\ ws \in Seq(Spelling) /\ k \in Nat /\ p \in 1..Len(ws) /\ Len(ws) \in Nat
      /\ p - 1 = k /\ p \in 0..Len(ws) /\ Flags(ws) \subseteq 1..Len(ws)
  BY FlagPlaces DEF WordsRead
<1>2. Collects(ws, k, expect, who) /\ Counted(ws, k, uses, held) /\ who \in valued
  BY DEF WordsRead, Collects
<1>3. p \notin Flags(ws)
  <2>1. p \in Flags(ws) <=> Dashed(ws[p]) /\ expect
    BY <1>1, <1>2, NextFlag
  <2> QED
    BY <2>1, Zenon
<1>4. PICK q \in Flags(ws) : /\ q <= k /\ \A r \in Flags(ws) : r <= k => r <= q
                             /\ Opens(ws[q], who)
  BY <1>2 DEF Collects, OpenAmong
<1>5. \A r \in Flags(ws) : (r <= p <=> r <= k) /\ (r < p <=> r <= k)
  BY <1>1, <1>3
<1>6. LastIn(ws, p) = q
  BY <1>1, <1>4, <1>5 DEF LastIn
<1>7. \A option : GivesIn(ws, p, option) <=> option = who
  BY <1>3, <1>4, <1>5, <1>6 DEF GivesIn, Opens
<1>8. Collects(ws, p, due, who)
  <2>1. OpenAmong(ws, p, who)
    BY <1>4, <1>5 DEF OpenAmong
  <2> QED
    BY <1>2, <1>3, <2>1 DEF Collects
<1>9. ws[p] \in Spelling /\ who \in options
  BY <1>1, <1>2, ElementOfSeq, Options
<1>10. /\ new \in [options -> Seq(Spelling)] /\ new[who] = Append(held[who], ws[p])
       /\ \A option \in options : option # who => new[option] = held[option]
  BY <1>2, <1>9, AppendProperties DEF Counted
<1>11. ASSUME NEW option \in options
       PROVE  new[option] = GivenIn(ws, option)[p]
  <2>1. held[option] = GivenIn(ws, option)[k]
    BY <1>2 DEF Counted
  <2>2. GivenIn(ws, option)[p] =
          IF GivesIn(ws, p, option)
          THEN Append(GivenIn(ws, option)[k], IF p \in Flags(ws) THEN Held(ws[p]) ELSE ws[p])
          ELSE GivenIn(ws, option)[k]
    BY <1>1, GivenStep
  <2> QED
    BY <1>3, <1>7, <1>10, <2>1, <2>2
<1>12. ASSUME NEW r \in 1..p
       PROVE  r \in Flags(ws) \/ \E option \in valued : GivesIn(ws, r, option)
  <2>1. r = p \/ r \in 1..k
    BY <1>1
  <2> QED
    BY <1>2, <1>7, <2>1 DEF Counted
<1>13. ASSUME NEW option \in options
       PROVE  uses[option] > 0 <=> \E r \in Flags(ws) : r <= p /\ Mentions(ws[r], option)
  BY <1>2, <1>5 DEF Counted
<1>14. Counted(ws, p, uses, new)
  BY <1>2, <1>10, <1>11, <1>12, <1>13 DEF Counted
<1> QED
  BY <1>1, <1>8, <1>14 DEF WordsRead

\* A word that is a flag (builder::parse).
LEMMA FlagStep ==
  ASSUME NEW ws, NEW k, NEW expect, NEW who, NEW uses, NEW held,
         WordsRead(ws, k, expect, who, uses, held),
         NEW p \in Nat, p = k + 1, p <= Len(ws),
         who = "none" \/ (expect /\ Dashed(ws[p])), Dashed(ws[p]),
         NEW o \in options, Holder(ws[p]) = o, NEW now \in [options -> Nat],
         \A option \in options : now[option] > 0 <=> uses[option] > 0 \/ Mentions(ws[p], option),
         NEW due \in BOOLEAN, NEW next, NEW new,
         IF o \in valued /\ Held(ws[p]) = <<>>
         THEN next = o /\ ~due /\ new = held
         ELSE /\ next = "none" /\ due = expect
              /\ new = IF o \in valued THEN [held EXCEPT ![o] = Append(@, Held(ws[p]))] ELSE held
  PROVE  WordsRead(ws, p, due, next, now, new)
<1>1. /\ ws \in Seq(Spelling) /\ k \in Nat /\ p \in 1..Len(ws) /\ Len(ws) \in Nat
      /\ p - 1 = k /\ p \in 0..Len(ws) /\ Flags(ws) \subseteq 1..Len(ws)
  BY FlagPlaces DEF WordsRead
<1>2. Collects(ws, k, expect, who) /\ Counted(ws, k, uses, held) /\ expect
  BY DEF WordsRead, Collects
<1>3. p \in Flags(ws)
  BY <1>1, <1>2, NextFlag, Zenon
<1>4. \A option : GivesIn(ws, p, option) <=> option \in valued /\ option = o /\ Held(ws[p]) # <<>>
  BY <1>3 DEF GivesIn
<1>5. \A option : Opens(ws[p], option) <=> option \in valued /\ option = o /\ Held(ws[p]) = <<>>
  BY DEF Opens
<1>6. ASSUME NEW option \in options
      PROVE  now[option] > 0 <=> \E r \in Flags(ws) : r <= p /\ Mentions(ws[r], option)
  <2>1. \A r \in Flags(ws) : r <= p <=> r <= k \/ r = p
    BY <1>1
  <2>2. uses[option] > 0 <=> \E r \in Flags(ws) : r <= k /\ Mentions(ws[r], option)
    BY <1>2 DEF Counted
  <2>3. now[option] > 0 <=> uses[option] > 0 \/ Mentions(ws[p], option)
    OBVIOUS
  <2> QED
    BY <1>3, <2>1, <2>2, <2>3
<1>7. ASSUME NEW r \in 1..p
      PROVE  r \in Flags(ws) \/ \E option \in valued : GivesIn(ws, r, option)
  <2>1. r = p \/ r \in 1..k
    BY <1>1
  <2> QED
    BY <1>2, <1>3, <2>1 DEF Counted
<1>8. ASSUME NEW option \in options
      PROVE  /\ held[option] = GivenIn(ws, option)[k]
             /\ GivenIn(ws, option)[p] =
                  IF option \in valued /\ option = o /\ Held(ws[p]) # <<>>
                  THEN Append(GivenIn(ws, option)[k], Held(ws[p]))
                  ELSE GivenIn(ws, option)[k]
  <2>1. held[option] = GivenIn(ws, option)[k]
    BY <1>2 DEF Counted
  <2>2. GivenIn(ws, option)[p] =
          IF GivesIn(ws, p, option)
          THEN Append(GivenIn(ws, option)[k], IF p \in Flags(ws) THEN Held(ws[p]) ELSE ws[p])
          ELSE GivenIn(ws, option)[k]
    BY <1>1, GivenStep
  <2> QED
    BY <1>3, <1>4, <2>1, <2>2
<1>9. held \in [options -> Seq(Spelling)]
  BY <1>2 DEF Counted
<1>10. CASE o \in valued /\ Held(ws[p]) = <<>>
  <2>1. next = o /\ ~due /\ new = held
    BY <1>10
  <2>2. OpenAmong(ws, p, o)
    <3>1. Opens(ws[p], o) /\ p <= p /\ \A r \in Flags(ws) : r <= p => r <= p
      BY <1>1, <1>5, <1>10
    <3> QED
      BY <1>3, <3>1 DEF OpenAmong
  <2>3. Collects(ws, p, due, next)
    BY <1>3, <1>10, <2>1, <2>2, Options DEF Collects
  <2>4. \A option \in options : new[option] = GivenIn(ws, option)[p]
    BY <1>8, <1>10, <2>1
  <2>5. Counted(ws, p, now, new)
    BY <1>6, <1>7, <1>9, <2>1, <2>4 DEF Counted
  <2> QED
    BY <1>1, <2>3, <2>5 DEF WordsRead
<1>11. CASE ~(o \in valued /\ Held(ws[p]) = <<>>)
  <2>1. next = "none" /\ due = expect /\
        new = IF o \in valued THEN [held EXCEPT ![o] = Append(@, Held(ws[p]))] ELSE held
    BY <1>11
  <2>2. due
    BY <1>2, <2>1
  <2>3. \A option \in valued : ~Opens(ws[p], option)
    BY <1>5, <1>11
  <2>4. Collects(ws, p, due, next)
    BY <2>1, <2>2, <2>3 DEF Collects
  <2>5. Held(ws[p]) \in Spelling
    BY <1>1, ElementOfSeq, HeldIsSpelling
  <2>6. /\ new \in [options -> Seq(Spelling)]
        /\ o \in valued => new[o] = Append(held[o], Held(ws[p]))
        /\ \A option \in options : option # o \/ o \notin valued => new[option] = held[option]
    BY <1>9, <2>1, <2>5, AppendProperties
  <2>7. \A option \in options : new[option] = GivenIn(ws, option)[p]
    BY <1>8, <1>11, <2>6
  <2>8. Counted(ws, p, now, new)
    BY <1>6, <1>7, <2>6, <2>7 DEF Counted
  <2> QED
    BY <1>1, <2>4, <2>8 DEF WordsRead
<1> QED
  BY <1>10, <1>11

\* The end of the words (verify).
LEMMA EndStep ==
  ASSUME NEW ws, NEW k, NEW expect, NEW who, NEW uses, NEW held,
         WordsRead(ws, k, expect, who, uses, held), k = Len(ws), NEW new,
         new = [option \in options |-> IF uses[option] = 0 /\ fallback[option] # <<>>
                                       THEN <<fallback[option]>> ELSE held[option]]
  PROVE  Kept(ws, uses, new)
<1>1. /\ ws \in Seq(Spelling) /\ Flags(ws) \subseteq 1..k
      /\ k \in Nat /\ DOMAIN ws = 1..k
  BY FlagPlaces, LenProperties DEF WordsRead
<1>2. Counted(ws, k, uses, held)
  BY DEF WordsRead
<1>3. \A r \in Flags(ws) : r <= k
  BY <1>1
<1>4. ASSUME NEW option \in options
      PROVE  /\ uses[option] > 0 <=> \E r \in Flags(ws) : Mentions(ws[r], option)
             /\ uses[option] = 0 <=> ~(uses[option] > 0)
             /\ held[option] = GivenIn(ws, option)[k]
  BY <1>2, <1>3 DEF Counted
<1>5. \A r \in DOMAIN ws \ Flags(ws) : \E option \in valued : GivesIn(ws, r, option)
  BY <1>1, <1>2 DEF Counted
<1> QED
  BY <1>4, <1>5 DEF Kept

(***************************************************************************)
(* The steps of the command line.                                          *)
(***************************************************************************)

\* Reading goes on after the words before the position; an accepted invocation
\* is kept.
ArgumentsRead ==
  /\ parse = "parsing" =>
       \E k \in Nat : /\ position = k + 1
                      /\ WordsRead(words, k, expect_flag, collector, usages, values)
  /\ parse = "parsed" => Kept(words, usages, values)

\* A flag that names an option is taken (builder::parse).
LEMMA TakeStep ==
  ASSUME NEW k \in Nat, position = k + 1,
         WordsRead(words, k, expect_flag, collector, usages, values),
         Reading, ~Collecting, Dashed(Argument),
         NEW o \in options, Holder(Argument) = o, NEW now \in [options -> Nat],
         \A option \in options :
           now[option] > 0 <=> usages[option] > 0 \/ Mentions(Argument, option),
         Take(o, Held(Argument), now)
  PROVE  ArgumentsRead'
<1>1. CASE UsedTooOften(now)
  <2>1. parse' = "rejected"
    BY <1>1 DEF Take, Reject
  <2> QED
    BY <2>1 DEF ArgumentsRead
<1>2. CASE ~UsedTooOften(now)
  <2>1. /\ usages' = now /\ position' = position + 1 /\ words' = words /\ parse' = parse
        /\ IF o \in valued /\ Held(Argument) = <<>>
           THEN collector' = o /\ expect_flag' = FALSE /\ values' = values
           ELSE /\ collector' = "none"
                /\ values' = IF o \in valued
                             THEN [values EXCEPT ![o] = Append(@, Held(Argument))]
                             ELSE values
                /\ expect_flag' = expect_flag
    BY <1>2 DEF Take
  <2>2. PICK p \in Nat : p = position /\ p = k + 1 /\ p <= Len(words) /\ Argument = words[p]
    BY DEF Reading, Argument
  <2>3. collector = "none" \/ (expect_flag /\ Dashed(Argument))
    BY Zenon DEF Collecting
  <2>4. expect_flag \in BOOLEAN
    BY DEF WordsRead, Collects
  <2>5. PICK due \in BOOLEAN : due = expect_flag'
    BY <2>1, <2>4
  <2>6. PICK next, new : next = collector' /\ new = values'
    OBVIOUS
  <2>7. IF o \in valued /\ Held(words[p]) = <<>>
        THEN next = o /\ ~due /\ new = values
        ELSE /\ next = "none" /\ due = expect_flag
             /\ new = IF o \in valued
                      THEN [values EXCEPT ![o] = Append(@, Held(words[p]))] ELSE values
    BY <2>1, <2>2, <2>5, <2>6
  <2>8. WordsRead(words, p, due, next, now, new)
    BY <2>2, <2>3, <2>7, FlagStep
  <2>9. position' = p + 1 /\ parse' = "parsing"
    BY <2>1, <2>2 DEF Reading
  <2> QED
    BY <2>1, <2>2, <2>5, <2>6, <2>8, <2>9 DEF ArgumentsRead
<1> QED
  BY <1>1, <1>2

\* Every step of reading the command line (builder::parse, verify).
LEMMA ParseStep ==
  ASSUME ArgumentsRead, ParseArguments
  PROVE  ArgumentsRead'
<1>1. parse = "parsing"
  BY Zenon DEF ParseArguments, Collect, Collecting, ReadLong, ReadShort, ReadsFlag, RejectWord,
     Reading, Verify
<1>2. PICK k \in Nat : /\ position = k + 1
                       /\ WordsRead(words, k, expect_flag, collector, usages, values)
  BY <1>1 DEF ArgumentsRead
<1>3. ASSUME Reject PROVE ArgumentsRead'
  BY <1>3 DEF Reject, ArgumentsRead
<1>4. usages \in [options -> Nat] /\ words \in Seq(Spelling)
  BY <1>2 DEF WordsRead, Counted
<1>5. ASSUME Reading PROVE Argument \in Spelling
  <2>1. position \in 1..Len(words)
    <3>1. Len(words) \in Nat
      BY <1>4, LenProperties
    <3> QED
      BY <1>2, <1>5, <3>1 DEF Reading
  <2> QED
    BY <1>4, <2>1, ElementOfSeq DEF Argument
<1>6. CASE Collect
  <2>1. /\ Reading /\ collector # "none" /\ (~expect_flag \/ ~Dashed(Argument))
        /\ values' = [values EXCEPT ![collector] = Append(@, Argument)]
        /\ expect_flag' = TRUE /\ position' = position + 1
        /\ words' = words /\ collector' = collector /\ usages' = usages /\ parse' = parse
    BY <1>6, Zenon DEF Collect, Collecting
  <2>2. PICK p \in Nat : p = position /\ p = k + 1 /\ p <= Len(words) /\ Argument = words[p]
    BY <1>2, <2>1 DEF Reading, Argument
  <2>3. PICK due \in BOOLEAN : due /\ due = expect_flag'
    BY <2>1
  <2>4. PICK new : new = values' /\ new = [values EXCEPT ![collector] = Append(@, words[p])]
    BY <2>1, <2>2
  <2>5. collector # "none" /\ (~expect_flag \/ ~Dashed(words[p]))
    BY <2>1, <2>2
  <2>6. WordsRead(words, p, due, collector, usages, new)
    BY <1>2, <2>2, <2>3, <2>4, <2>5, CollectStep
  <2>7. position' = p + 1 /\ parse' = "parsing"
    BY <1>1, <2>1, <2>2
  <2> QED
    BY <2>1, <2>2, <2>3, <2>4, <2>6, <2>7 DEF ArgumentsRead
<1>7. CASE ReadLong
  <2> DEFINE name == SubSeq(Flag(Argument), 3, Len(Flag(Argument)))
  <2>1. Reading /\ ~Collecting /\ Long(Argument)
    BY <1>7 DEF ReadLong, ReadsFlag
  <2>2. CASE ~\E option \in options : name = <<option>>
    <3>1. Reject
      BY <1>7, <2>2, Zenon DEF ReadLong
    <3> QED
      BY <1>3, <3>1
  <2>3. CASE \E option \in options : name = <<option>>
    <3>1. PICK o \in options : name = <<o>>
      BY <2>3
    <3>2. name[1] = o
      <4>1. <<o>>[1] = o
        OBVIOUS
      <4> HIDE DEF name
      <4> QED
        BY <3>1, <4>1
    <3>3. Take(name[1], Inline(Argument), [usages EXCEPT ![name[1]] = @ + 1])
      BY <1>7, <2>3, Zenon DEF ReadLong
    <3>4. /\ Holder(Argument) = o /\ Held(Argument) = Inline(Argument)
          /\ \A x \in options : Mentions(Argument, x) <=> x = o
      BY <1>5, <2>1, <3>1, LongMeaning
    <3>5. PICK now : now = [usages EXCEPT ![o] = @ + 1]
      OBVIOUS
    <3>6. /\ now \in [options -> Nat]
          /\ \A x \in options : now[x] > 0 <=> usages[x] > 0 \/ x = o
      BY <1>4, <3>5
    <3>7. \A x \in options : now[x] > 0 <=> usages[x] > 0 \/ Mentions(Argument, x)
      BY <3>4, <3>6
    <3>8. Take(o, Held(Argument), now)
      BY <3>2, <3>3, <3>4, <3>5
    <3>9. Dashed(Argument)
      BY <1>5, <2>1, FlagsHaveDashes
    <3> QED
      BY <1>2, <2>1, <3>4, <3>6, <3>7, <3>8, <3>9, TakeStep
  <2> QED
    BY <2>2, <2>3
<1>8. CASE ReadShort
  <2> DEFINE times(option) ==
        Cardinality({i \in DOMAIN Named(Argument) : Named(Argument)[i] = shortName[option]})
  <2>1. Reading /\ ~Collecting /\ Short(Argument)
    BY <1>8 DEF ReadShort, ReadsFlag
  <2>2. CASE ~\A i \in DOMAIN Named(Argument) :
               \E option \in options : Named(Argument)[i] = shortName[option]
    <3>1. Reject
      BY <1>8, <2>2, Zenon DEF ReadShort
    <3> QED
      BY <1>3, <3>1
  <2>3. CASE \A i \in DOMAIN Named(Argument) :
               \E option \in options : Named(Argument)[i] = shortName[option]
    <3>1. PICK n \in Nat : n = Len(Named(Argument)) /\ n >= 1 /\ DOMAIN Named(Argument) = 1..n
      BY <1>5, <2>1, FlagsHaveDashes, LetterParts, LenProperties DEF Spelling
    <3>2. PICK o : o = CHOOSE option \in options :
                         shortName[option] = Named(Argument)[Len(Named(Argument))]
      OBVIOUS
    <3>3. o \in options /\ shortName[o] = Named(Argument)[Len(Named(Argument))]
      <4>1. \E option \in options : shortName[option] = Named(Argument)[Len(Named(Argument))]
        BY <2>3, <3>1
      <4> QED
        BY <3>2, <4>1
    <3>4. PICK now : now = [option \in options |-> usages[option] + times(option)]
      OBVIOUS
    <3>5. Take(o, Attached(Argument), now)
      BY <1>8, <2>3, <3>2, <3>4, Zenon DEF ReadShort
    <3>6. /\ Holder(Argument) = o /\ Held(Argument) = Attached(Argument)
          /\ \A x \in options :
               Mentions(Argument, x) <=>
                 \E i \in DOMAIN Named(Argument) : Named(Argument)[i] = shortName[x]
      BY <1>5, <2>1, <3>3, ShortMeaning
    <3>7. ASSUME NEW x \in options
          PROVE  times(x) \in Nat /\ (times(x) > 0 <=> Mentions(Argument, x))
      <4> DEFINE places == {i \in DOMAIN Named(Argument) : Named(Argument)[i] = shortName[x]}
      <4>1. places \subseteq 1..n /\ IsFiniteSet(1..n)
        BY <3>1, FS_Interval
      <4>2. IsFiniteSet(places)
        BY <4>1, FS_Subset
      <4>3. Cardinality(places) \in Nat /\ (Cardinality(places) = 0 <=> places = {})
        BY <4>2, FS_CardinalityType, FS_EmptySet
      <4>4. places # {} <=> Mentions(Argument, x)
        BY <3>6
      <4> HIDE DEF places
      <4>5. Cardinality(places) > 0 <=> Mentions(Argument, x)
        BY <4>3, <4>4
      <4> QED
        BY <4>3, <4>5, Zenon DEF places
    <3> HIDE DEF times
    <3>8. now \in [options -> Nat]
      BY <1>4, <3>4, <3>7
    <3>9. ASSUME NEW x \in options
          PROVE  now[x] > 0 <=> usages[x] > 0 \/ Mentions(Argument, x)
      <4>1. usages[x] \in Nat /\ now[x] = usages[x] + times(x)
        BY <1>4, <3>4
      <4>2. now[x] > 0 <=> usages[x] > 0 \/ times(x) > 0
        BY <3>7, <4>1
      <4> QED
        BY <3>7, <4>2
    <3>10. Dashed(Argument)
      BY <1>5, <2>1, FlagsHaveDashes
    <3>11. Take(o, Held(Argument), now)
      BY <3>5, <3>6
    <3> QED
      BY <1>2, <2>1, <3>3, <3>6, <3>8, <3>9, <3>10, <3>11, TakeStep
  <2> QED
    BY <2>2, <2>3
<1>9. CASE RejectWord
  <2>1. Reject
    BY <1>9 DEF RejectWord
  <2> QED
    BY <1>3, <2>1
<1>10. CASE Verify
  <2>1. CASE Reject
    BY <1>3, <2>1
  <2>2. CASE ~Reject
    <3>1. /\ parse' \in {"help", "parsed"} /\ words' = words /\ usages' = usages
          /\ position > Len(words)
          /\ values' = [option \in options |->
                          IF usages[option] = 0 /\ fallback[option] # <<>>
                          THEN <<fallback[option]>> ELSE values[option]]
      BY <1>10, <2>2 DEF Verify
    <3>2. k = Len(words)
      <4>1. Len(words) \in Nat /\ k <= Len(words)
        BY <1>2, <1>4, LenProperties DEF WordsRead
      <4> QED
        BY <1>2, <3>1, <4>1
    <3>3. Kept(words, usages, values')
      BY <1>2, <3>1, <3>2, EndStep
    <3> QED
      BY <3>1, <3>3 DEF ArgumentsRead
  <2> QED
    BY <2>1, <2>2
<1> QED
  BY <1>6, <1>7, <1>8, <1>9, <1>10 DEF ParseArguments

\* A new invocation has none of its words read.
LEMMA InvokeStep ==
  ASSUME NEW ws \in Seq(Spelling), NEW due \in BOOLEAN, due
  PROVE  WordsRead(ws, 0, due, "none", NoUsage, NoValues)
<1>1. Len(ws) \in Nat /\ Flags(ws) \subseteq 1..Len(ws)
  BY FlagPlaces
<1>2. 0 \notin Flags(ws) /\ \A r \in Flags(ws) : ~(r <= 0)
  BY <1>1
<1>3. Collects(ws, 0, due, "none")
  BY <1>2 DEF Collects
<1>4. \A option \in options : GivenIn(ws, option)[0] = <<>>
  BY GivenStep
<1>5. Counted(ws, 0, NoUsage, NoValues)
  BY <1>2, <1>4 DEF Counted, NoUsage, NoValues
<1>6. 0 \in 0..Len(ws)
  BY <1>1
<1> QED
  BY <1>3, <1>5, <1>6, Zenon DEF WordsRead

(***************************************************************************)
(* The command lines of every process.                                     *)
(***************************************************************************)
\* The words to come and the words at hand.
CommandInv ==
  /\ pending \in Seq(Seq(Spelling))
  /\ ArgumentsRead

\* No process has been given its words yet.
LEMMA CommandInit == Init => CommandInv
<1> SUFFICES ASSUME Init PROVE CommandInv
  OBVIOUS
<1>1. parse = "rejected" /\ \E scenario \in Scenarios : pending = scenario.invocations
  BY DEF Init
<1>2. pending \in Seq(Seq(Spelling))
  BY <1>1, InvocationsAssumption DEF Spelling
<1> QED
  BY <1>1, <1>2 DEF CommandInv, ArgumentsRead

\* Only a new process and its reading touch the command line.
LEMMA CommandStays ==
  ASSUME CommandInv, UNCHANGED <<argumentVars, pending>>
  PROVE  CommandInv'
BY DEF CommandInv, ArgumentsRead, argumentVars, collectorVars

\* Every step of every process.
LEMMA CommandStep == CommandInv /\ [Next]_vars => CommandInv'
<1> SUFFICES ASSUME CommandInv, [Next]_vars PROVE CommandInv'
  OBVIOUS
<1>1. CASE Invoke
  <2>1. /\ pending # <<>> /\ words' = Head(pending) /\ pending' = Tail(pending)
        /\ position' = 1 /\ expect_flag' = TRUE /\ collector' = "none"
        /\ usages' = NoUsage /\ values' = NoValues /\ parse' = "parsing"
    BY <1>1 DEF Invoke
  <2>2. pending \in Seq(Seq(Spelling))
    BY DEF CommandInv
  <2>3. words' \in Seq(Spelling) /\ pending' \in Seq(Seq(Spelling))
    BY <2>1, <2>2, HeadTailProperties
  <2>4. PICK ws \in Seq(Spelling) : ws = words'
    BY <2>3
  <2>5. PICK due \in BOOLEAN : due /\ due = expect_flag'
    BY <2>1
  <2>6. WordsRead(ws, 0, due, "none", NoUsage, NoValues)
    BY <2>5, InvokeStep
  <2>7. position' = 0 + 1 /\ 0 \in Nat
    BY <2>1
  <2> QED
    BY <2>1, <2>3, <2>4, <2>5, <2>6, <2>7 DEF CommandInv, ArgumentsRead
<1>2. CASE ReadArguments
  <2>1. ArgumentsRead /\ ParseArguments /\ pending' = pending
    BY <1>2 DEF ReadArguments, worldVars, CommandInv
  <2>2. ArgumentsRead'
    BY <2>1, ParseStep
  <2> QED
    BY <2>1, <2>2 DEF CommandInv
<1>3. CASE UNCHANGED vars
  BY <1>3, CommandStays DEF vars, worldVars
<1>4. CASE RefuseArguments \/ NoTask \/ StartAssembling \/ ReadText \/ Abort \/ StartParsing
  BY <1>4, CommandStays DEF RefuseArguments, NoTask, StartAssembling, ReadText, Abort,
     StartParsing, worldVars, processVars
<1>5. CASE Assemble \/ WriteFile \/ RunAssembled
  BY <1>5, CommandStays DEF Assemble, WriteFile, RunAssembled, worldVars
<1>6. CASE MissingFile \/ Disassemble \/ RunLoaded \/ Quit
  BY <1>6, CommandStays DEF MissingFile, Disassemble, RunLoaded, Quit, worldVars
<1> QED
  BY <1>1, <1>2, <1>3, <1>4, <1>5, <1>6 DEF Next, Process

\* Of every command line of any words that is accepted, no word is lost, taken
\* twice or given to another option, and each option holds its own values in
\* their order or its fallback (builder::parse).
THEOREM ArgumentsAlwaysKept == Spec => []ArgumentsKept
<1>1. CommandInv => ArgumentsKept
  BY KeptIsArgumentsKept DEF CommandInv, ArgumentsRead
<1> QED
  BY <1>1, CommandInit, CommandStep, PTL DEF Spec

(***************************************************************************)
(* Recursion from place to place.                                          *)
(***************************************************************************)

\* A function that goes from each place to another until it stops.
Jumping(D, stop, jump, V, base) ==
  \E f \in [D -> V] : \A x \in D : f[x] = IF x \in stop THEN base[x] ELSE f[jump[x]]

\* There is one if each place is nearer to the end than the one before.
LEMMA JumpsExist ==
  ASSUME NEW D, NEW stop \in SUBSET D, NEW n \in Nat, NEW left \in [D -> 0..n],
         NEW jump \in [D \ stop -> D], \A x \in D \ stop : left[jump[x]] < left[x],
         NEW V, NEW base \in [stop -> V]
  PROVE  Jumping(D, stop, jump, V, base)
<1> DEFINE Near(k) == {x \in D : left[x] < k}
           Told(k) == \E f \in [Near(k) -> V] :
                        \A x \in Near(k) : f[x] = IF x \in stop THEN base[x] ELSE f[jump[x]]
           T == {k \in 0..n+1 : ~Told(k)}
<1>1. Told(0)
  <2>1. Near(0) = {}
    OBVIOUS
  <2>2. [x \in {} |-> 0] \in [{} -> V]
    OBVIOUS
  <2> QED
    BY <2>1, <2>2
<1>2. ASSUME NEW k \in Nat, Told(k)
      PROVE  Told(k + 1)
  <2>1. PICK f \in [Near(k) -> V] :
               \A x \in Near(k) : f[x] = IF x \in stop THEN base[x] ELSE f[jump[x]]
    BY <1>2
  <2>2. PICK m \in Nat : m = k + 1
    OBVIOUS
  <2>3. \A x \in Near(m) \ stop : jump[x] \in Near(k)
    BY <2>2
  <2>4. \A x \in Near(k) : x \in Near(m)
    BY <2>2
  <2>5. \A x \in Near(m) : x \in D
    OBVIOUS
  <2> HIDE DEF Near
  <2>6. PICK g : g = [x \in Near(m) |-> IF x \in stop THEN base[x] ELSE f[jump[x]]]
    OBVIOUS
  <2>7. g \in [Near(m) -> V]
    BY <2>1, <2>3, <2>6
  <2>8. ASSUME NEW x \in Near(m)
        PROVE  g[x] = IF x \in stop THEN base[x] ELSE g[jump[x]]
    <3>1. CASE x \in stop
      BY <2>6, <3>1
    <3>2. CASE x \notin stop
      <4>1. jump[x] \in Near(k) /\ jump[x] \in Near(m)
        BY <2>3, <2>4, <3>2
      <4>2. g[jump[x]] = f[jump[x]]
        BY <2>1, <2>6, <4>1
      <4> QED
        BY <2>6, <3>2, <4>2
    <3> QED
      BY <3>1, <3>2
  <2> QED
    BY <2>2, <2>7, <2>8
<1>3. Near(n + 1) = D
  OBVIOUS
<1> HIDE DEF Told
<1>4. T = {}
  <2> SUFFICES ASSUME T # {} PROVE FALSE
    OBVIOUS
  <2>1. PICK k \in T : \A y \in T : k <= y
    <3>1. T \in SUBSET Nat
      OBVIOUS
    <3> HIDE DEF T
    <3> QED
      BY <3>1, FirstPlace
  <2>2. k \in 0..n+1 /\ ~Told(k) /\ k # 0
    BY <1>1, <2>1
  <2>3. PICK j \in Nat : k = j + 1 /\ j \in 0..n+1 /\ ~(k <= j)
    <3>1. k - 1 \in Nat /\ k = (k - 1) + 1 /\ k - 1 \in 0..n+1 /\ ~(k <= k - 1)
      BY <2>2
    <3> QED
      BY <3>1
  <2>4. Told(j)
    <3>1. j \notin T
      <4> HIDE DEF T
      <4> QED
        BY <2>1, <2>3
    <3> QED
      BY <2>3, <3>1
  <2> QED
    BY <1>2, <2>2, <2>3, <2>4
<1>5. Told(n + 1)
  BY <1>4
<1> QED
  BY <1>3, <1>5, Zenon DEF Told, Jumping

(***************************************************************************)
(* What lies between tokens, with the source as a parameter.               *)
(***************************************************************************)
CharacterAt(s, p) == IF p < Len(s) THEN s[p + 1] ELSE "NUL"
Pair(s, p, first, second) == CharacterAt(s, p) = first /\ CharacterAt(s, p + 1) = second
Opening(s, p) == Pair(s, p, "/", "*")
Closing(s, p) == Pair(s, p, "*", "/")
Slashes(s, p) == Pair(s, p, "/", "/")
Blank(s, p) == CharacterAt(s, p) \in whitespace \ {"\n"}
Breaks(s, p) == CharacterAt(s, p) \in {"\n", "NUL"}

\* For each place behind p and each depth, where the outermost comment ends.
NestedEnds(s, p) ==
  CHOOSE end : end = [place \in (p..Len(s)+1) \X Nat |->
    CASE place[2] = 0 \/ place[1] >= Len(s) -> place[1]
      [] place[2] > 0 /\ place[1] < Len(s) /\ Opening(s, place[1]) -> end[<<place[1] + 2, place[2] + 1>>]
      [] place[2] > 0 /\ place[1] < Len(s) /\ Closing(s, place[1]) -> end[<<place[1] + 2, place[2] - 1>>]
      [] OTHER -> end[<<place[1] + 1, place[2]>>]]

NestedEnd(s, p) == NestedEnds(s, p)[<<p + 2, 1>>]

\* Behind an inline comment.
InlineEnd(s, p) ==
  LET closed == {q \in p+2..Len(s) : Slashes(s, q) \/ Breaks(s, q)}
      q == CHOOSE q \in closed : \A r \in closed : q <= r
  IN  IF CharacterAt(s, q) = "/" THEN q + 2 ELSE q

\* For each place from p on, whether only blanks and comments lie from there to q.
Gaps(s, p, q) ==
  CHOOSE blank : blank = [i \in p..Len(s)+2 |->
    \/ i = q
    \/ /\ i < q
       /\ CASE Blank(s, i) -> blank[i + 1]
            [] Opening(s, i) -> blank[NestedEnd(s, i)]
            [] Slashes(s, i) -> blank[InlineEnd(s, i)]
            [] OTHER -> FALSE]

\* That is what AssemblyText says of the source at hand.
LEMMA GapsAreThose == \A p, q : Gap(p, q) = Gaps(text, p, q)[p]
  BY Zenon DEF Gap, Gaps, BehindNested, NestedEnd, NestedEnds, BehindInline, InlineEnd, CommentStart,
    CommentEnd, Accepts, At, Opening, Closing, Slashes, Blank, Breaks, Pair, CharacterAt

\* What one or two characters tell.
LEMMA PlaceFacts ==
  ASSUME NEW s, IsText(s), NEW n \in Nat, n = Len(s), NEW i \in Nat
  PROVE  /\ Blank(s, i) => i < n /\ ~Opening(s, i) /\ ~Slashes(s, i)
         /\ Opening(s, i) \/ Closing(s, i) \/ Slashes(s, i) => i + 2 <= n
         /\ Opening(s, i) => ~Closing(s, i) /\ ~Slashes(s, i)
         /\ Breaks(s, i) => ~Slashes(s, i) /\ CharacterAt(s, i) # "/"
         /\ i >= n => Breaks(s, i)
<1>1. \A j \in Nat : CharacterAt(s, j) = "NUL" <=> j >= n
  <2> SUFFICES ASSUME NEW j \in Nat PROVE CharacterAt(s, j) = "NUL" <=> j >= n
    OBVIOUS
  <2>1. CASE j >= n
    BY <2>1 DEF CharacterAt
  <2>2. CASE j < n
    <3>1. j + 1 \in 1..n /\ DOMAIN s = 1..n
      BY <2>2, LenProperties DEF IsText
    <3>2. s[j + 1] # "NUL"
      BY <3>1 DEF IsText
    <3> QED
      BY <2>2, <3>2 DEF CharacterAt
  <2> QED
    BY <2>1, <2>2
<1>2. "NUL" \notin whitespace /\ "/" \notin whitespace
  BY Zenon DEF whitespace
<1>3. i + 1 \in Nat /\ (~(i + 1 >= n) => i + 2 <= n /\ i < n)
  OBVIOUS
<1>4. "NUL" # "/" /\ "NUL" # "*" /\ "/" # "*" /\ "\n" # "/"
  BY Zenon
<1>5. Blank(s, i) => i < n /\ ~Opening(s, i) /\ ~Slashes(s, i)
  BY <1>1, <1>2 DEF Blank, Opening, Slashes, Pair
<1>6. Opening(s, i) \/ Closing(s, i) \/ Slashes(s, i) => CharacterAt(s, i + 1) # "NUL"
  BY <1>4, Zenon DEF Opening, Closing, Slashes, Pair
<1>7. Opening(s, i) \/ Closing(s, i) \/ Slashes(s, i) => i + 2 <= n
  BY <1>1, <1>3, <1>6
<1>8. Opening(s, i) => ~Closing(s, i) /\ ~Slashes(s, i)
  BY <1>4, Zenon DEF Opening, Closing, Slashes, Pair
<1>9. Breaks(s, i) => ~Slashes(s, i) /\ CharacterAt(s, i) # "/"
  BY <1>4, Zenon DEF Breaks, Slashes, Pair
<1>10. i >= n => Breaks(s, i)
  BY <1>1 DEF Breaks
<1> QED
  BY <1>5, <1>7, <1>8, <1>9, <1>10

\* Nesting, character by character.
NestedTurns(s, e, i, open) ==
  /\ open = 0 \/ i >= Len(s) => e[<<i, open>>] = i
  /\ open > 0 /\ Opening(s, i) => e[<<i, open>>] = e[<<i + 2, open + 1>>]
  /\ open > 0 /\ Closing(s, i) => e[<<i, open>>] = e[<<i + 2, open - 1>>]
  /\ open > 0 /\ i < Len(s) /\ ~Opening(s, i) /\ ~Closing(s, i) =>
       e[<<i, open>>] = e[<<i + 1, open>>]

\* Every place's end is told by a later one's.
LEMMA NestedStep ==
  ASSUME NEW s, IsText(s), NEW n \in Nat, n = Len(s), NEW p \in Nat, NEW e, e = NestedEnds(s, p)
  PROVE  \A i \in p..n, open \in Nat : NestedTurns(s, e, i, open)
<1> DEFINE D == (p..Len(s)+1) \X Nat
           stop == {x \in D : x[2] = 0 \/ x[1] >= n}
           jump == [x \in D \ stop |->
                      IF Opening(s, x[1]) THEN <<x[1] + 2, x[2] + 1>>
                      ELSE IF Closing(s, x[1]) THEN <<x[1] + 2, x[2] - 1>>
                      ELSE <<x[1] + 1, x[2]>>]
           left == [x \in D |-> n + 1 - x[1]]
           base == [x \in stop |-> x[1]]
<1>1. \A x \in D \ stop : /\ x[1] \in Nat /\ x[2] \in Nat /\ x[1] >= p /\ x[1] < n /\ x[2] > 0
  OBVIOUS
<1>2. \A x \in D \ stop : Opening(s, x[1]) \/ Closing(s, x[1]) => x[1] + 2 <= n
  BY <1>1, PlaceFacts
<1>3. \A x \in D \ stop : jump[x] \in D /\ jump[x][1] > x[1]
  BY <1>1, <1>2
<1>4. PICK m \in Nat : m = n + 1
  OBVIOUS
<1>5. jump \in [D \ stop -> D] /\ left \in [D -> 0..m] /\ stop \in SUBSET D /\ base \in [stop -> Nat]
  BY <1>3, <1>4
<1>6. \A x \in D : left[x] = n + 1 - x[1] /\ x[1] \in Nat
  OBVIOUS
<1> HIDE DEF D, stop, jump, left, base
<1>7. ASSUME NEW x \in D \ stop PROVE left[jump[x]] < left[x]
  <2>1. PICK y \in D : y = jump[x] /\ y[1] > x[1]
    BY <1>3
  <2>2. left[y] = n + 1 - y[1] /\ left[x] = n + 1 - x[1] /\ x[1] \in Nat /\ y[1] \in Nat
    BY <1>6, <2>1
  <2> QED
    BY <2>1, <2>2
<1>8. PICK f \in [D -> Nat] : \A x \in D : f[x] = IF x \in stop THEN base[x] ELSE f[jump[x]]
  <2>1. Jumping(D, stop, jump, Nat, base)
    BY <1>4, <1>5, <1>7, JumpsExist
  <2> QED
    BY <2>1, Zenon DEF Jumping
<1>9. f = [x \in D |->
    CASE x[2] = 0 \/ x[1] >= Len(s) -> x[1]
      [] x[2] > 0 /\ x[1] < Len(s) /\ Opening(s, x[1]) -> f[<<x[1] + 2, x[2] + 1>>]
      [] x[2] > 0 /\ x[1] < Len(s) /\ Closing(s, x[1]) -> f[<<x[1] + 2, x[2] - 1>>]
      [] OTHER -> f[<<x[1] + 1, x[2]>>]]
  <2> SUFFICES ASSUME NEW x \in D
               PROVE  f[x] =
    CASE x[2] = 0 \/ x[1] >= Len(s) -> x[1]
      [] x[2] > 0 /\ x[1] < Len(s) /\ Opening(s, x[1]) -> f[<<x[1] + 2, x[2] + 1>>]
      [] x[2] > 0 /\ x[1] < Len(s) /\ Closing(s, x[1]) -> f[<<x[1] + 2, x[2] - 1>>]
      [] OTHER -> f[<<x[1] + 1, x[2]>>]
    BY <1>8, Zenon
  <2>1. PICK i \in Nat, open \in Nat : i = x[1] /\ open = x[2]
    BY DEF D
  <2>2. x \in stop <=> open = 0 \/ i >= n
    BY <2>1 DEF stop
  <2>3. f[x] = IF x \in stop THEN base[x] ELSE f[jump[x]]
    BY <1>8
  <2>4. CASE open = 0 \/ i >= n
    <3>1. base[x] = i
      BY <2>1, <2>2, <2>4 DEF base
    <3>2. f[x] = i /\ ~(open > 0 /\ i < n)
      BY <2>1, <2>2, <2>3, <2>4, <3>1
    <3> QED
      BY <2>1, <2>4, <3>2
  <2>5. CASE ~(open = 0 \/ i >= n)
    <3>1. open > 0 /\ i < n /\ f[x] = f[jump[x]]
      BY <2>1, <2>2, <2>3, <2>5
    <3>2. Opening(s, i) => ~Closing(s, i)
      BY <2>1, PlaceFacts
    <3>3. jump[x] = IF Opening(s, i) THEN <<i + 2, open + 1>>
                    ELSE IF Closing(s, i) THEN <<i + 2, open - 1>>
                    ELSE <<i + 1, open>>
      BY <2>1, <2>2, <2>5 DEF jump
    <3> QED
      BY <2>1, <2>5, <3>1, <3>2, <3>3
  <2> QED
    BY <2>4, <2>5
<1>10. NestedEnds(s, p) = [x \in D |->
    CASE x[2] = 0 \/ x[1] >= Len(s) -> x[1]
      [] x[2] > 0 /\ x[1] < Len(s) /\ Opening(s, x[1]) -> NestedEnds(s, p)[<<x[1] + 2, x[2] + 1>>]
      [] x[2] > 0 /\ x[1] < Len(s) /\ Closing(s, x[1]) -> NestedEnds(s, p)[<<x[1] + 2, x[2] - 1>>]
      [] OTHER -> NestedEnds(s, p)[<<x[1] + 1, x[2]>>]]
  BY <1>9, Zenon DEF NestedEnds, D
<1>11. \A x \in D : e[x] =
    CASE x[2] = 0 \/ x[1] >= Len(s) -> x[1]
      [] x[2] > 0 /\ x[1] < Len(s) /\ Opening(s, x[1]) -> e[<<x[1] + 2, x[2] + 1>>]
      [] x[2] > 0 /\ x[1] < Len(s) /\ Closing(s, x[1]) -> e[<<x[1] + 2, x[2] - 1>>]
      [] OTHER -> e[<<x[1] + 1, x[2]>>]
  BY <1>10, Zenon
<1> SUFFICES ASSUME NEW i \in p..n, NEW open \in Nat
             PROVE  NestedTurns(s, e, i, open)
  OBVIOUS
<1>12. PICK x \in D : x = <<i, open>> /\ x[1] = i /\ x[2] = open
  <2>1. <<i, open>> \in D
    BY DEF D
  <2>2. <<i, open>>[1] = i /\ <<i, open>>[2] = open
    OBVIOUS
  <2> QED
    BY <2>1, <2>2
<1>13. i \in Nat /\ (Opening(s, i) \/ Closing(s, i) => i < n) /\ (Opening(s, i) => ~Closing(s, i))
  BY PlaceFacts
<1>14. e[x] =
    CASE open = 0 \/ i >= n -> i
      [] open > 0 /\ i < n /\ Opening(s, i) -> e[<<i + 2, open + 1>>]
      [] open > 0 /\ i < n /\ Closing(s, i) -> e[<<i + 2, open - 1>>]
      [] OTHER -> e[<<i + 1, open>>]
  BY <1>11, <1>12
<1>15. CASE open = 0 \/ i >= n
  BY <1>12, <1>13, <1>14, <1>15 DEF NestedTurns
<1>16. CASE ~(open = 0 \/ i >= n) /\ Opening(s, i)
  BY <1>12, <1>13, <1>14, <1>16 DEF NestedTurns
<1>17. CASE ~(open = 0 \/ i >= n) /\ Closing(s, i)
  BY <1>12, <1>13, <1>14, <1>17 DEF NestedTurns
<1>18. CASE ~(open = 0 \/ i >= n) /\ ~Opening(s, i) /\ ~Closing(s, i)
  BY <1>12, <1>13, <1>14, <1>18 DEF NestedTurns
<1> QED
  BY <1>13, <1>15, <1>16, <1>17, <1>18

\* A nested comment ends behind its start, in the source.
LEMMA NestedRange ==
  ASSUME NEW s, IsText(s), NEW n \in Nat, n = Len(s), NEW p \in Nat, Opening(s, p)
  PROVE  NestedEnd(s, p) \in p+2..n
<1>1. PICK e : e = NestedEnds(s, p)
  OBVIOUS
<1> DEFINE Good(i, open) == e[<<i, open>>] \in i..n
           T == {k \in 0..n : \E i \in p..n, open \in Nat : i + k = n /\ ~Good(i, open)}
<1>2. T = {}
  <2> SUFFICES ASSUME T # {} PROVE FALSE
    OBVIOUS
  <2>1. PICK k \in T : \A y \in T : k <= y
    <3>1. T \in SUBSET Nat
      OBVIOUS
    <3> HIDE DEF T
    <3> QED
      BY <3>1, FirstPlace
  <2>2. PICK i \in p..n, open \in Nat : i + k = n /\ ~Good(i, open)
    BY <2>1
  <2>3. \A j \in p..n, more \in Nat : j > i => Good(j, more)
    <3> SUFFICES ASSUME NEW j \in p..n, NEW more \in Nat, j > i, ~Good(j, more) PROVE FALSE
      OBVIOUS
    <3>1. PICK l \in 0..n : j + l = n /\ l < k
      <4>1. n - j \in 0..n /\ j + (n - j) = n /\ n - j < k
        BY <2>2
      <4> QED
        BY <4>1
    <3>2. l \in T
      BY <3>1
    <3> HIDE DEF T
    <3> QED
      BY <2>1, <3>1, <3>2
  <2>4. i \in Nat /\ (Opening(s, i) \/ Closing(s, i) => i + 2 <= n)
    BY PlaceFacts
  <2>5. /\ open = 0 \/ i >= n => e[<<i, open>>] = i
        /\ open > 0 /\ Opening(s, i) => e[<<i, open>>] = e[<<i + 2, open + 1>>]
        /\ open > 0 /\ Closing(s, i) => e[<<i, open>>] = e[<<i + 2, open - 1>>]
        /\ open > 0 /\ i < n /\ ~Opening(s, i) /\ ~Closing(s, i) =>
             e[<<i, open>>] = e[<<i + 1, open>>]
    <3>1. \A j \in p..n, more \in Nat : NestedTurns(s, e, j, more)
      BY <1>1, NestedStep
    <3> QED
      BY <3>1 DEF NestedTurns
  <2>6. CASE open = 0 \/ i >= n
    BY <2>2, <2>4, <2>5, <2>6
  <2>7. CASE open > 0 /\ Opening(s, i)
    <3>1. Good(i + 2, open + 1)
      BY <2>3, <2>4, <2>7
    <3> QED
      BY <2>2, <2>4, <2>5, <2>7, <3>1
  <2>8. CASE open > 0 /\ Closing(s, i)
    <3>1. Good(i + 2, open - 1)
      BY <2>3, <2>4, <2>8
    <3> QED
      BY <2>2, <2>4, <2>5, <2>8, <3>1
  <2>9. CASE open > 0 /\ i < n /\ ~Opening(s, i) /\ ~Closing(s, i)
    <3>1. i + 1 \in p..n /\ i + 1 > i
      BY <2>4, <2>9
    <3>2. Good(i + 1, open)
      BY <2>3, <3>1
    <3> QED
      BY <2>2, <2>4, <2>5, <2>9, <3>1, <3>2
  <2> QED
    BY <2>4, <2>6, <2>7, <2>8, <2>9
<1>3. PICK k \in 0..n : (p + 2) + k = n
  <2>1. p + 2 <= n
    BY PlaceFacts
  <2>2. n - (p + 2) \in 0..n /\ (p + 2) + (n - (p + 2)) = n
    BY <2>1
  <2> QED
    BY <2>2
<1>4. Good(p + 2, 1)
  <2>1. p + 2 \in p..n /\ 1 \in Nat
    BY <1>3
  <2>2. k \notin T
    BY <1>2
  <2> QED
    BY <1>3, <2>1, <2>2
<1> QED
  BY <1>1, <1>4 DEF NestedEnd

\* An inline comment ends behind its slashes: before what breaks the line, or
\* behind other slashes.
LEMMA InlineStep ==
  ASSUME NEW s, IsText(s), NEW n \in Nat, n = Len(s), NEW p \in Nat, Slashes(s, p),
         NEW q \in p+2..n, Slashes(s, q) \/ Breaks(s, q),
         \A r \in p+2..q-1 : ~Slashes(s, r) /\ ~Breaks(s, r)
  PROVE  InlineEnd(s, p) = IF Slashes(s, q) THEN q + 2 ELSE q
<1> DEFINE closed == {r \in p+2..Len(s) : Slashes(s, r) \/ Breaks(s, r)}
<1>1. q \in closed /\ \A r \in closed : q <= r
  OBVIOUS
<1>2. (CHOOSE r \in closed : \A t \in closed : r <= t) = q
  BY <1>1
<1>3. Slashes(s, q) => CharacterAt(s, q) = "/"
  BY DEF Slashes, Pair
<1>4. Breaks(s, q) => CharacterAt(s, q) # "/"
  BY PlaceFacts
<1> QED
  BY <1>2, <1>3, <1>4 DEF InlineEnd

\* It lies within the source.
LEMMA InlineRange ==
  ASSUME NEW s, IsText(s), NEW n \in Nat, n = Len(s), NEW p \in Nat, Slashes(s, p)
  PROVE  InlineEnd(s, p) \in p+2..n
<1> DEFINE closed == {r \in p+2..n : Slashes(s, r) \/ Breaks(s, r)}
<1>1. n \in closed /\ closed \in SUBSET Nat
  BY PlaceFacts
<1>2. PICK q \in closed : \A r \in closed : q <= r
  <2> HIDE DEF closed
  <2> QED
    BY <1>1, FirstPlace
<1>3. \A r \in p+2..q-1 : ~Slashes(s, r) /\ ~Breaks(s, r)
  BY <1>2
<1>4. InlineEnd(s, p) = IF Slashes(s, q) THEN q + 2 ELSE q
  BY <1>2, <1>3, InlineStep
<1>5. Slashes(s, q) => q + 2 <= n
  BY <1>2, PlaceFacts
<1> QED
  BY <1>2, <1>4, <1>5

\* A blank or a whole comment lies between two places.
Bridges(s, i, j) ==
  \/ Blank(s, i) /\ j = i + 1
  \/ Opening(s, i) /\ j = NestedEnd(s, i)
  \/ Slashes(s, i) /\ j = InlineEnd(s, i)

\* Such a step goes on, within the source.
LEMMA PassRange ==
  ASSUME NEW s, IsText(s), NEW n \in Nat, n = Len(s), NEW i \in Nat, NEW j, Bridges(s, i, j)
  PROVE  i < n /\ j \in i+1..n
<1>1. CASE Blank(s, i) /\ j = i + 1
  BY <1>1, PlaceFacts
<1>2. CASE Opening(s, i) /\ j = NestedEnd(s, i)
  BY <1>2, PlaceFacts, NestedRange
<1>3. CASE Slashes(s, i) /\ j = InlineEnd(s, i)
  BY <1>3, PlaceFacts, InlineRange
<1> QED
  BY <1>1, <1>2, <1>3 DEF Bridges

\* Only blanks and comments lie from i, behind p, to q.
GapFrom(s, p, q, i) == Gaps(s, p, q)[i]

\* Gaps, step by step.
LEMMA GapStep ==
  ASSUME NEW s, IsText(s), NEW n \in Nat, n = Len(s), NEW p \in Nat, NEW q \in Nat,
         NEW i \in p..n
  PROVE  GapFrom(s, p, q, i) <=>
           \/ i = q
           \/ i < q /\ \E j \in i+1..n : Bridges(s, i, j) /\ GapFrom(s, p, q, j)
<1> DEFINE D == p..Len(s)+2
           target(k) == IF Blank(s, k) THEN k + 1
                        ELSE IF Opening(s, k) THEN NestedEnd(s, k) ELSE InlineEnd(s, k)
           stop == {k \in D : ~(k < q /\ (Blank(s, k) \/ Opening(s, k) \/ Slashes(s, k)))}
           jump == [k \in D \ stop |-> target(k)]
           left == [k \in D |-> n + 2 - k]
           base == [k \in stop |-> k = q]
<1>1. ASSUME NEW k \in Nat, Blank(s, k) \/ Opening(s, k) \/ Slashes(s, k)
      PROVE  Bridges(s, k, target(k)) /\ \A j : Bridges(s, k, j) => j = target(k)
  BY <1>1, PlaceFacts DEF Bridges
<1>2. \A k \in D \ stop : target(k) \in k+1..n
  <2> SUFFICES ASSUME NEW k \in D \ stop PROVE target(k) \in k+1..n
    OBVIOUS
  <2>1. k \in Nat /\ (Blank(s, k) \/ Opening(s, k) \/ Slashes(s, k))
    OBVIOUS
  <2>2. Bridges(s, k, target(k))
    BY <1>1, <2>1
  <2> HIDE DEF target, stop, D
  <2> QED
    BY <2>1, <2>2, PassRange
<1>3. PICK m \in Nat : m = n + 2
  OBVIOUS
<1> HIDE DEF target
<1>4. jump \in [D \ stop -> D] /\ left \in [D -> 0..m] /\ stop \in SUBSET D /\ base \in [stop -> BOOLEAN]
  BY <1>2, <1>3
<1>5. \A k \in D \ stop : jump[k] = target(k) /\ target(k) \in D /\ target(k) > k
  BY <1>2
<1>6. \A k \in D : k \in Nat /\ left[k] = n + 2 - k
  OBVIOUS
<1>7. \A k \in stop : base[k] = (k = q)
  BY Zenon
<1>8. \A k \in D : k \notin stop <=> k < q /\ (Blank(s, k) \/ Opening(s, k) \/ Slashes(s, k))
  OBVIOUS
<1>9. \A k \in D : k \in p..Len(s)+2
  OBVIOUS
<1> HIDE DEF stop, jump, left, base
<1>10. \A k \in D \ stop : left[jump[k]] < left[k]
  <2> SUFFICES ASSUME NEW k \in D \ stop PROVE left[jump[k]] < left[k]
    OBVIOUS
  <2> HIDE DEF D
  <2>1. PICK l \in D : l = jump[k] /\ l > k
    BY <1>5
  <2> QED
    BY <1>6, <2>1
<1> HIDE DEF D
<1>11. PICK f \in [D -> BOOLEAN] : \A k \in D : f[k] = IF k \in stop THEN base[k] ELSE f[jump[k]]
  <2>1. Jumping(D, stop, jump, BOOLEAN, base)
    BY <1>3, <1>4, <1>10, JumpsExist
  <2> QED
    BY <2>1, Zenon DEF Jumping
<1> DEFINE body(g, k) ==
      \/ k = q
      \/ /\ k < q
         /\ CASE Blank(s, k) -> g[k + 1]
              [] Opening(s, k) -> g[NestedEnd(s, k)]
              [] Slashes(s, k) -> g[InlineEnd(s, k)]
              [] OTHER -> FALSE
<1>12. ASSUME NEW k \in D
       PROVE  f[k] = body(f, k)
  <2>1. CASE k \in stop
    <3>1. f[k] = (k = q)
      BY <1>7, <1>11, <2>1, Zenon
    <3>2. CASE ~(k < q)
      BY <3>1, <3>2, Zenon
    <3>3. CASE k < q
      <4>1. ~Blank(s, k) /\ ~Opening(s, k) /\ ~Slashes(s, k)
        BY <1>8, <2>1, <3>3, Zenon
      <4>2. ~(CASE Blank(s, k) -> f[k + 1]
                [] Opening(s, k) -> f[NestedEnd(s, k)]
                [] Slashes(s, k) -> f[InlineEnd(s, k)]
                [] OTHER -> FALSE)
        BY <4>1, Zenon
      <4> QED
        BY <3>1, <4>2, Zenon
    <3> QED
      BY <3>2, <3>3, Zenon
  <2>2. CASE k \notin stop
    <3>1. k < q /\ (Blank(s, k) \/ Opening(s, k) \/ Slashes(s, k))
      BY <1>8, <2>2, Zenon
    <3>2. k \in Nat /\ k # q
      BY <1>6, <3>1
    <3>3. /\ Blank(s, k) => ~Opening(s, k) /\ ~Slashes(s, k)
          /\ Opening(s, k) => ~Slashes(s, k)
      BY <3>2, PlaceFacts
    <3>4. f[k] = f[target(k)]
      BY <1>5, <1>11, <2>2, Zenon
    <3>5. (CASE Blank(s, k) -> f[k + 1]
             [] Opening(s, k) -> f[NestedEnd(s, k)]
             [] Slashes(s, k) -> f[InlineEnd(s, k)]
             [] OTHER -> FALSE) = f[target(k)]
      <4>1. CASE Blank(s, k)
        BY <3>3, <4>1, Zenon DEF target
      <4>2. CASE Opening(s, k)
        BY <3>3, <4>2, Zenon DEF target
      <4>3. CASE Slashes(s, k)
        BY <3>3, <4>3, Zenon DEF target
      <4> QED
        BY <3>1, <4>1, <4>2, <4>3, Zenon
    <3>6. target(k) \in D
      BY <1>5, <2>2, Zenon
    <3>7. f[k] \in BOOLEAN
      BY <1>11, Zenon
    <3> QED
      BY <3>1, <3>2, <3>4, <3>5, <3>7, Zenon
  <2> QED
    BY <2>1, <2>2, Zenon
<1>13. f = [k \in D |-> body(f, k)]
  <2> HIDE DEF body
  <2>1. f \in [D -> BOOLEAN]
    BY <1>11
  <2>2. \A k \in D : f[k] = body(f, k)
    BY <1>12
  <2> QED
    BY <2>1, <2>2, Zenon
<1>14. Gaps(s, p, q) = [k \in D |-> body(Gaps(s, p, q), k)]
  BY <1>13, Zenon DEF Gaps, D
<1>15. PICK g : g = Gaps(s, p, q)
  OBVIOUS
<1>16. \A k \in D : g[k] = body(g, k)
  BY <1>14, <1>15, Zenon
<1>17. i \in D /\ i \in Nat
  BY DEF D
<1>18. g[i] = body(g, i)
  BY <1>16, <1>17, Zenon
<1>19. CASE ~(Blank(s, i) \/ Opening(s, i) \/ Slashes(s, i))
  <2>1. g[i] = (i = q)
    <3>1. ~(CASE Blank(s, i) -> g[i + 1]
             [] Opening(s, i) -> g[NestedEnd(s, i)]
             [] Slashes(s, i) -> g[InlineEnd(s, i)]
             [] OTHER -> FALSE)
      BY <1>19, Zenon
    <3> QED
      BY <1>18, <3>1, Zenon
  <2>2. ~\E j : Bridges(s, i, j)
    BY <1>19, Zenon DEF Bridges
  <2> QED
    BY <1>15, <2>1, <2>2, Zenon DEF GapFrom
<1>20. CASE Blank(s, i) \/ Opening(s, i) \/ Slashes(s, i)
  <2>1. Bridges(s, i, target(i)) /\ \A j : Bridges(s, i, j) => j = target(i)
    BY <1>1, <1>17, <1>20
  <2>2. target(i) \in i+1..n
    BY <1>17, <2>1, PassRange
  <2>3. /\ Blank(s, i) => ~Opening(s, i) /\ ~Slashes(s, i)
        /\ Opening(s, i) => ~Slashes(s, i)
    BY <1>17, PlaceFacts
  <2>4. (CASE Blank(s, i) -> g[i + 1]
           [] Opening(s, i) -> g[NestedEnd(s, i)]
           [] Slashes(s, i) -> g[InlineEnd(s, i)]
           [] OTHER -> FALSE) = g[target(i)]
    <3>1. CASE Blank(s, i)
      BY <2>3, <3>1, Zenon DEF target
    <3>2. CASE Opening(s, i)
      BY <2>3, <3>2, Zenon DEF target
    <3>3. CASE Slashes(s, i)
      BY <2>3, <3>3, Zenon DEF target
    <3> QED
      BY <1>20, <3>1, <3>2, <3>3, Zenon
  <2>5. g[i] = (i = q \/ (i < q /\ g[target(i)]))
    BY <1>18, <2>4, Zenon
  <2> QED
    BY <1>15, <2>1, <2>2, <2>5, Zenon DEF GapFrom
<1> QED
  BY <1>19, <1>20

\* Only blanks and comments lie between p and q.
GapIn(s, p, q) == GapFrom(s, p, q, p)

\* A gap of the source at hand.
LEMMA GapIsIn == \A p, q : Gap(p, q) <=> GapIn(text, p, q)
  BY GapsAreThose, Zenon DEF GapIn, GapFrom

\* No characters are a gap.
LEMMA GapEmpty ==
  ASSUME NEW s, IsText(s), NEW p \in 0..Len(s)
  PROVE  GapIn(s, p, p)
<1>1. PICK n \in Nat : n = Len(s)
  BY LenProperties DEF IsText
<1>2. p \in Nat /\ p \in p..n
  BY <1>1
<1> QED
  BY <1>1, <1>2, GapStep DEF GapIn

\* A blank or a comment makes a gap longer.
LEMMA GapGrows ==
  ASSUME NEW s, IsText(s), NEW p \in 0..Len(s), NEW q \in p..Len(s), GapIn(s, p, q),
         NEW r, Bridges(s, q, r)
  PROVE  GapIn(s, p, r) /\ r \in q+1..Len(s)
<1>1. PICK n \in Nat : n = Len(s)
  BY LenProperties DEF IsText
<1>2. p \in Nat /\ q \in Nat /\ p <= q /\ q <= n
  BY <1>1
<1>3. r \in q+1..n /\ r \in Nat
  <2>1. r \in q+1..n
    BY <1>1, <1>2, PassRange
  <2> QED
    BY <1>2, <2>1
<1>4. \A i \in p..n : /\ GapFrom(s, p, q, i) <=>
                           \/ i = q
                           \/ i < q /\ \E j \in i+1..n : Bridges(s, i, j) /\ GapFrom(s, p, q, j)
                      /\ GapFrom(s, p, r, i) <=>
                           \/ i = r
                           \/ i < r /\ \E j \in i+1..n : Bridges(s, i, j) /\ GapFrom(s, p, r, j)
  BY <1>1, <1>2, <1>3, GapStep
<1> DEFINE T == {k \in 0..n : \E i \in p..q : i + k = q /\ GapFrom(s, p, q, i) /\ ~GapFrom(s, p, r, i)}
<1>5. GapFrom(s, p, r, r) /\ GapFrom(s, p, r, q)
  <2>1. r \in p..n /\ q \in p..n /\ q < r
    BY <1>2, <1>3
  <2> QED
    BY <1>3, <1>4, <2>1
<1>6. T = {}
  <2> SUFFICES ASSUME T # {} PROVE FALSE
    OBVIOUS
  <2>1. PICK k \in T : \A y \in T : k <= y
    <3>1. T \in SUBSET Nat
      OBVIOUS
    <3> HIDE DEF T
    <3> QED
      BY <3>1, FirstPlace
  <2>2. PICK i \in p..q : i + k = q /\ GapFrom(s, p, q, i) /\ ~GapFrom(s, p, r, i)
    BY <2>1
  <2>3. i \in Nat /\ i \in p..n /\ i # q /\ i < r
    BY <1>2, <1>3, <1>5, <2>2
  <2>4. PICK j \in i+1..n : Bridges(s, i, j) /\ GapFrom(s, p, q, j)
    BY <1>4, <2>2, <2>3
  <2>5. ~GapFrom(s, p, r, j)
    BY <1>4, <2>2, <2>3, <2>4
  <2>6. j \in p..q
    <3>1. j \in p..n /\ j \in Nat
      BY <1>2, <2>3, <2>4
    <3>2. j = q \/ j < q
      BY <1>4, <2>4, <3>1
    <3> QED
      BY <1>2, <3>1, <3>2
  <2>7. PICK l \in 0..n : j + l = q /\ l < k
    <3>1. q - j \in 0..n /\ j + (q - j) = q /\ q - j < k
      BY <1>2, <2>2, <2>3, <2>4, <2>6
    <3> QED
      BY <3>1
  <2>8. l \in T
    BY <2>4, <2>5, <2>6, <2>7
  <2> HIDE DEF T
  <2> QED
    BY <2>1, <2>7, <2>8
<1>7. GapFrom(s, p, r, p)
  <2>1. q - p \in 0..n /\ p + (q - p) = q /\ p \in p..q
    BY <1>2
  <2>2. q - p \notin T
    BY <1>6
  <2>3. GapFrom(s, p, q, p)
    BY DEF GapIn
  <2> QED
    BY <2>1, <2>2, <2>3
<1> QED
  BY <1>1, <1>3, <1>7 DEF GapIn

(***************************************************************************)
(* The scan loses nothing.                                                 *)
(***************************************************************************)
\* Where the last token ends.
LastEnd(ts) == IF ts = <<>> THEN 0 ELSE ts[Len(ts)].end

\* Before each token there is a gap.
Separated(s, ts) ==
  \A n \in DOMAIN ts : GapIn(s, IF n = 1 THEN 0 ELSE ts[n - 1].end, ts[n].begin)

\* An inline comment is open at a place.
InlineOpen(s, e, o) ==
  \E p \in e..o : /\ GapIn(s, e, p) /\ Slashes(s, p) /\ p + 2 <= o
                  /\ \A r \in p+2..o-1 : ~Slashes(s, r) /\ ~Breaks(s, r)

\* Comments are open at a place, one in the other.
NestedOpen(s, e, o, open) ==
  /\ open \in Nat /\ open > 0
  /\ \E p \in e..o : /\ GapIn(s, e, p) /\ Opening(s, p) /\ p + 2 <= o
                     /\ NestedEnd(s, p) = NestedEnds(s, p)[<<o, open>>]

\* What lies behind the last token up to where the scan stands.
ReadOn(s, e, loop, o, open, begin) ==
  /\ loop \in {"root", "inline", "comment", "string"}
  /\ loop = "root" => GapIn(s, e, o)
  /\ loop = "inline" => InlineOpen(s, e, o)
  /\ loop = "comment" => NestedOpen(s, e, o, open)
  /\ loop = "string" => GapIn(s, e, begin)

\* Tokens have gaps between them, and what was read behind them is a gap so far.
GapInv ==
  /\ Separated(text, sink)
  /\ scan = "scanning" => ReadOn(text, LastEnd(sink), mode, offset, depth, previous)
  /\ scan = "done" =>
       sink # <<>> /\ sink[Len(sink)] = Token("BREAK", Len(text), Len(text))

\* The scanner looks at the same characters.
LEMMA CharactersAt ==
  /\ \A p : At(p) = CharacterAt(text, p)
  /\ \A p : /\ Accepts(p, "/", "*") = Opening(text, p)
            /\ Accepts(p, "*", "/") = Closing(text, p)
            /\ Accepts(p, "/", "/") = Slashes(text, p)
  BY Zenon DEF At, CharacterAt, Accepts, Opening, Closing, Slashes, Pair

\* The last token ends where the scan stands or before.
LEMMA LastEndPlace ==
  ASSUME ScanInv
  PROVE  /\ LastEnd(sink) \in 0..offset
         /\ scan = "scanning" /\ mode = "string" => LastEnd(sink) \in 0..previous
<1>1. PICK k \in Nat : k = Len(sink) /\ DOMAIN sink = 1..k /\ sink \in Seq(Tokens)
  BY LenProperties DEF ScanInv
<1>2. offset \in Nat
  BY TextPlaces DEF ScanInv
<1>3. ASSUME NEW o \in Nat, Ordered(sink, o) PROVE LastEnd(sink) \in 0..o
  <2>1. CASE sink = <<>>
    BY <2>1 DEF LastEnd
  <2>2. CASE sink # <<>>
    <3>1. k \in 1..k /\ sink[k] \in Tokens
      BY <1>1, <2>2, ElementOfSeq, EmptySeq
    <3>2. sink[k].end \in Nat /\ sink[k].end <= o
      BY <1>1, <1>3, <3>1 DEF Ordered, Tokens
    <3> QED
      BY <1>1, <2>2, <3>2 DEF LastEnd
  <2> QED
    BY <2>1, <2>2
<1>4. scan = "scanning" /\ mode = "string" => previous \in Nat /\ Ordered(sink, previous)
  BY <1>2 DEF ScanInv
<1> QED
  BY <1>2, <1>3, <1>4 DEF ScanInv

\* A token behind a gap.
LEMMA SeparatedAppend ==
  ASSUME NEW s, NEW ts \in Seq(Tokens), Separated(s, ts), NEW token \in Tokens,
         GapIn(s, LastEnd(ts), token.begin)
  PROVE  /\ Separated(s, Append(ts, token)) /\ LastEnd(Append(ts, token)) = token.end
         /\ Append(ts, token) \in Seq(Tokens) /\ Append(ts, token) # <<>>
         /\ Append(ts, token)[Len(Append(ts, token))] = token
<1>1. PICK k \in Nat : k = Len(ts) /\ DOMAIN ts = 1..k
  BY LenProperties
<1>2. PICK t : t = Append(ts, token)
  OBVIOUS
<1>3. /\ t \in Seq(Tokens) /\ Len(t) = k + 1 /\ DOMAIN t = 1..k+1 /\ t[k + 1] = token
      /\ \A n \in 1..k : t[n] = ts[n]
  BY <1>1, <1>2, AppendProperties, LenProperties
<1>4. t # <<>>
  BY <1>1, <1>3
<1>5. ASSUME NEW n \in 1..k+1
      PROVE  GapIn(s, IF n = 1 THEN 0 ELSE t[n - 1].end, t[n].begin)
  <2>1. CASE n \in 1..k
    <3>1. GapIn(s, IF n = 1 THEN 0 ELSE ts[n - 1].end, ts[n].begin)
      BY <1>1, <2>1 DEF Separated
    <3>2. t[n] = ts[n] /\ (n # 1 => t[n - 1] = ts[n - 1])
      BY <1>3, <2>1
    <3> QED
      BY <3>1, <3>2
  <2>2. CASE n = k + 1
    <3>1. k = 0 <=> ts = <<>>
      BY <1>1, EmptySeq
    <3>2. LastEnd(ts) = IF n = 1 THEN 0 ELSE t[n - 1].end
      BY <1>1, <1>3, <2>2, <3>1 DEF LastEnd
    <3> QED
      BY <1>3, <2>2, <3>2
  <2> QED
    BY <1>1, <2>1, <2>2
<1>6. Separated(s, t)
  BY <1>3, <1>5 DEF Separated
<1> QED
  BY <1>2, <1>3, <1>4, <1>6 DEF LastEnd

\* A turn that takes a token.
LEMMA GapTake ==
  ASSUME ScanInv, GapInv, ScanInv', NEW token \in Tokens, token.end = offset',
         GapIn(text, LastEnd(sink), token.begin), text' = text, sink' = Append(sink, token),
         mode' = "root", scan' = "scanning"
  PROVE  GapInv'
<1>1. sink \in Seq(Tokens) /\ Separated(text, sink)
  BY DEF ScanInv, GapInv
<1>2. PICK s, t, o : s = text /\ t = sink' /\ o = offset'
  OBVIOUS
<1>3. Separated(s, t) /\ LastEnd(t) = o
  BY <1>1, <1>2, SeparatedAppend
<1>4. IsText(s) /\ o \in 0..Len(s)
  BY <1>2 DEF ScanInv
<1>5. GapIn(s, o, o)
  BY <1>4, GapEmpty
<1>6. ReadOn(s, LastEnd(t), "root", o, depth', previous')
  BY <1>3, <1>5 DEF ReadOn
<1> QED
  BY <1>2, <1>3, <1>6 DEF GapInv

\* A turn that throws.
LEMMA GapRaise ==
  ASSUME GapInv, NEW warned, NEW span, RaiseWith(warned, span)
  PROVE  GapInv'
BY DEF GapInv, RaiseWith

\* What turns of the main loop that look for tokens do.
LEMMA RootOutcomes ==
  ASSUME \/ ScanBreak \/ ScanSymbol \/ Unreachable
         \/ ScanIdentifierOrLabel \/ ScanInteger \/ ScanRegisterSet
  PROVE  Root /\ \/ \E type \in ScannedTypes : \E end : Emit(type, end)
                 \/ \E span : RaiseWith({}, span)
<1>1. {"BREAK", "SYMBOL", "LABEL", "IDENTIFIER", "REGSET", "INTEGER"} = ScannedTypes
  BY Zenon DEF ScannedTypes
<1>2. CASE ScanBreak
  BY <1>1, <1>2, Zenon DEF ScanBreak
<1>3. CASE ScanSymbol
  BY <1>1, <1>3, Zenon DEF ScanSymbol
<1>4. CASE Unreachable
  BY <1>4, Zenon DEF Unreachable, RaiseAt
<1>5. CASE ScanIdentifierOrLabel
  BY <1>1, <1>5, Zenon DEF ScanIdentifierOrLabel
<1>6. CASE ScanInteger
  BY <1>1, <1>6, Zenon DEF ScanInteger, RaiseAt
<1>7. CASE ScanRegisterSet
  BY <1>1, <1>7, Zenon DEF ScanRegisterSet, RaiseAt
<1> QED
  BY <1>2, <1>3, <1>4, <1>5, <1>6, <1>7

\* Every such turn keeps the gaps.
LEMMA GapRoot ==
  ASSUME ScanInv, GapInv, ScanInv',
         \/ ScanBreak \/ ScanSymbol \/ Unreachable
         \/ ScanIdentifierOrLabel \/ ScanInteger \/ ScanRegisterSet
  PROVE  GapInv'
<1>1. Root
  BY RootOutcomes
<1>2. CASE \E span : RaiseWith({}, span)
  BY <1>2, GapRaise
<1>3. CASE \E type \in ScannedTypes : \E end : Emit(type, end)
  <2>1. PICK type \in ScannedTypes : \E end : Emit(type, end)
    BY <1>3
  <2>2. PICK end : Emit(type, end)
    BY <2>1
  <2>3. /\ text' = text /\ offset' = end /\ sink' = Append(sink, Token(type, offset, end))
        /\ mode' = "root" /\ scan' = "scanning"
    BY <1>1, <2>2 DEF Emit, Root, Scanning
  <2>4. offset \in Nat /\ end \in Nat
    <3>1. offset \in Nat /\ Len(text) \in Nat
      BY TextPlaces DEF ScanInv
    <3>2. offset' \in 0..Len(text)
      BY <2>3 DEF ScanInv
    <3> QED
      BY <2>3, <3>1, <3>2
  <2>5. PICK token : token = Token(type, offset, end)
    OBVIOUS
  <2>6. token \in Tokens /\ token.begin = offset /\ token.end = end
    BY <2>4, <2>5 DEF Token, Tokens
  <2>7. GapIn(text, LastEnd(sink), offset)
    BY <1>1 DEF GapInv, ReadOn, Root, Scanning
  <2> QED
    BY <2>3, <2>5, <2>6, <2>7, GapTake
<1> QED
  BY <1>2, <1>3, RootOutcomes

\* A turn that goes on without a token.
LEMMA GapSkip ==
  ASSUME GapInv, text' = text, sink' = sink, scan' = "scanning",
         ReadOn(text, LastEnd(sink), mode', offset', depth', previous')
  PROVE  GapInv'
<1>1. PICK s, t : s = text /\ t = sink
  OBVIOUS
<1>2. Separated(s, t) /\ ReadOn(s, LastEnd(t), mode', offset', depth', previous')
  BY <1>1 DEF GapInv
<1>3. s = text' /\ t = sink'
  BY <1>1
<1> QED
  BY <1>2, <1>3 DEF GapInv

\* Blanks, and where comments and strings begin.
LEMMA GapEnter ==
  ASSUME ScanInv, GapInv, SkipWhitespace \/ EnterComment \/ EnterString
  PROVE  GapInv'
<1> DEFINE e == LastEnd(sink)
<1>1. Root /\ scan = "scanning" /\ mode = "root"
  BY Zenon DEF SkipWhitespace, EnterComment, EnterString, Root, Scanning
<1>2. PICK n \in Nat, o \in Nat : n = Len(text) /\ o = offset /\ o < n /\ IsText(text)
  BY <1>1, RootPlace DEF Root
<1>3. e \in 0..o /\ e \in 0..n /\ o \in e..n
  BY <1>2, LastEndPlace
<1> HIDE DEF e
<1>4. GapIn(text, e, o)
  BY <1>1, <1>2 DEF GapInv, ReadOn, e
<1>5. CASE SkipWhitespace
  <2>1. Blank(text, o)
    BY <1>2, <1>5, CharactersAt, Zenon DEF SkipWhitespace, Blank
  <2>2. /\ text' = text /\ sink' = sink /\ offset' = o + 1 /\ mode' = "root" /\ scan' = "scanning"
    BY <1>1, <1>2, <1>5, Zenon DEF SkipWhitespace, SkipTo
  <2>3. PICK r : r = o + 1 /\ Bridges(text, o, r)
    BY <2>1 DEF Bridges
  <2>4. GapIn(text, e, r)
    BY <1>2, <1>3, <1>4, <2>3, GapGrows
  <2>5. ReadOn(text, e, "root", r, depth', previous')
    BY <2>4 DEF ReadOn
  <2> QED
    BY <2>2, <2>3, <2>5, GapSkip DEF e
<1>6. CASE EnterComment
  <2>1. /\ text' = text /\ sink' = sink /\ scan' = "scanning" /\ offset' = o + 2
        /\ \/ Slashes(text, o) /\ mode' = "inline"
           \/ Opening(text, o) /\ mode' = "comment" /\ depth' = 1
    BY <1>1, <1>2, <1>6, CharactersAt, Zenon DEF EnterComment
  <2>2. PICK r \in Nat : r = o + 2
    BY <1>2
  <2>3. o \in e..r /\ r <= r /\ \A i \in o+2..r-1 : FALSE
    BY <1>3, <2>2
  <2>4. CASE Slashes(text, o) /\ mode' = "inline"
    <3>1. InlineOpen(text, e, r)
      BY <1>4, <2>2, <2>3, <2>4 DEF InlineOpen
    <3>2. ReadOn(text, e, "inline", r, depth', previous')
      BY <3>1 DEF ReadOn
    <3> QED
      BY <2>1, <2>2, <2>4, <3>2, GapSkip DEF e
  <2>5. CASE Opening(text, o) /\ mode' = "comment" /\ depth' = 1
    <3>1. NestedEnd(text, o) = NestedEnds(text, o)[<<r, 1>>]
      BY <2>2 DEF NestedEnd
    <3>2. NestedOpen(text, e, r, 1)
      BY <1>4, <2>2, <2>3, <2>5, <3>1 DEF NestedOpen
    <3>3. ReadOn(text, e, "comment", r, 1, previous')
      BY <3>2 DEF ReadOn
    <3> QED
      BY <2>1, <2>2, <2>5, <3>3, GapSkip DEF e
  <2> QED
    BY <2>1, <2>4, <2>5
<1>7. CASE EnterString
  <2>1. /\ text' = text /\ sink' = sink /\ scan' = "scanning" /\ mode' = "string" /\ previous' = o
    BY <1>1, <1>2, <1>7, Zenon DEF EnterString
  <2>2. ReadOn(text, e, "string", offset', depth', o)
    BY <1>4 DEF ReadOn
  <2> QED
    BY <2>1, <2>2, GapSkip DEF e
<1> QED
  BY <1>5, <1>6, <1>7

\* Inside an inline comment (scanInlineComment).
LEMMA GapInline ==
  ASSUME ScanInv, GapInv, ScanInv', TurnInline
  PROVE  GapInv'
<1> DEFINE e == LastEnd(sink)
<1>1. Scanning /\ mode = "inline" /\ scan = "scanning"
  BY Zenon DEF TurnInline, Scanning
<1>2. PICK n \in Nat, o \in Nat : n = Len(text) /\ o = offset /\ o < n /\ IsText(text)
  BY <1>1, RootPlace
<1>3. e \in 0..o /\ e \in 0..n
  BY <1>2, LastEndPlace
<1> HIDE DEF e
<1>4. PICK p \in e..o : /\ GapIn(text, e, p) /\ Slashes(text, p) /\ p + 2 <= o
                        /\ \A r \in p+2..o-1 : ~Slashes(text, r) /\ ~Breaks(text, r)
  BY <1>1, <1>2 DEF GapInv, ReadOn, InlineOpen, e
<1>5. p \in Nat /\ o \in p+2..n /\ p \in e..n
  BY <1>2, <1>3, <1>4
<1>6. ASSUME NEW r, Slashes(text, o) \/ Breaks(text, o),
             r = IF Slashes(text, o) THEN o + 2 ELSE o
      PROVE  GapIn(text, e, r)
  <2>1. r = InlineEnd(text, p)
    BY <1>2, <1>4, <1>5, <1>6, InlineStep
  <2>2. Bridges(text, p, r)
    BY <1>4, <2>1 DEF Bridges
  <2> QED
    BY <1>2, <1>3, <1>4, <1>5, <2>2, GapGrows
<1>7. CASE At(offset) = "\n"
  <2>1. Breaks(text, o)
    BY <1>2, <1>7, CharactersAt, Zenon DEF Breaks
  <2>2. ~Slashes(text, o)
    BY <1>2, <2>1, PlaceFacts
  <2>3. /\ text' = text /\ sink' = Append(sink, Token("BREAK", o, o + 1)) /\ offset' = o + 1
        /\ mode' = "root" /\ scan' = "scanning"
    BY <1>1, <1>2, <1>7, <2>2, CharactersAt, Zenon DEF TurnInline, LeaveComment
  <2>4. GapIn(text, e, o)
    BY <1>6, <2>1, <2>2
  <2>5. PICK token : token = Token("BREAK", o, o + 1)
    OBVIOUS
  <2>6. token \in Tokens /\ token.begin = o /\ token.end = o + 1
    BY <2>5 DEF Token, Tokens, ScannedTypes
  <2> QED
    BY <2>3, <2>4, <2>5, <2>6, GapTake DEF e
<1>8. CASE At(offset) # "\n" /\ Slashes(text, o)
  <2>1. /\ text' = text /\ sink' = sink /\ offset' = o + 2 /\ mode' = "root" /\ scan' = "scanning"
    BY <1>1, <1>2, <1>8, CharactersAt, Zenon DEF TurnInline, LeaveComment
  <2>2. PICK r : r = o + 2
    OBVIOUS
  <2>3. GapIn(text, e, r)
    BY <1>6, <1>8, <2>2
  <2>4. ReadOn(text, e, "root", r, depth', previous')
    BY <2>3 DEF ReadOn
  <2> QED
    BY <2>1, <2>2, <2>4, GapSkip DEF e
<1>9. CASE At(offset) # "\n" /\ ~Slashes(text, o)
  <2>1. /\ text' = text /\ sink' = sink /\ offset' = o + 1 /\ mode' = "inline" /\ scan' = "scanning"
    BY <1>1, <1>2, <1>9, CharactersAt, Zenon DEF TurnInline, SkipTo
  <2>2. ~Breaks(text, o)
    <3>1. At(o) # "NUL"
      BY <1>2, TextPlaces
    <3> QED
      BY <1>2, <1>9, <3>1, CharactersAt, Zenon DEF Breaks
  <2>3. PICK r \in Nat : r = o + 1
    BY <1>2
  <2>4. p \in e..r /\ p + 2 <= r /\ \A i \in p+2..r-1 : i \in p+2..o-1 \/ i = o
    BY <1>3, <1>4, <1>5, <2>3
  <2>5. InlineOpen(text, e, r)
    BY <1>4, <1>9, <2>2, <2>4 DEF InlineOpen
  <2>6. ReadOn(text, e, "inline", r, depth', previous')
    BY <2>5 DEF ReadOn
  <2> QED
    BY <2>1, <2>3, <2>6, GapSkip DEF e
<1> QED
  BY <1>7, <1>8, <1>9

\* Inside nested comments (scanMultilineComment).
LEMMA GapNested ==
  ASSUME ScanInv, GapInv, TurnComment
  PROVE  GapInv'
<1> DEFINE e == LastEnd(sink)
<1>1. Scanning /\ mode = "comment" /\ scan = "scanning"
  BY Zenon DEF TurnComment, Scanning
<1>2. PICK n \in Nat, o \in Nat : n = Len(text) /\ o = offset /\ o < n /\ IsText(text)
  BY <1>1, RootPlace
<1>3. e \in 0..o /\ e \in 0..n
  BY <1>2, LastEndPlace
<1> HIDE DEF e
<1>4. NestedOpen(text, e, o, depth)
  BY <1>1, <1>2 DEF GapInv, ReadOn, e
<1>5. PICK open \in Nat : open = depth /\ open > 0
  BY <1>4 DEF NestedOpen
<1>6. PICK p \in e..o : /\ GapIn(text, e, p) /\ Opening(text, p) /\ p + 2 <= o
                        /\ NestedEnd(text, p) = NestedEnds(text, p)[<<o, open>>]
  BY <1>4, <1>5 DEF NestedOpen
<1>7. p \in Nat /\ o \in p..n /\ p \in e..n
  BY <1>2, <1>3, <1>6
<1>8. PICK end : end = NestedEnds(text, p)
  OBVIOUS
<1>9. \A i \in p..n, more \in Nat : NestedTurns(text, end, i, more)
  BY <1>2, <1>7, <1>8, NestedStep
<1>10. NestedTurns(text, end, o, open)
  BY <1>7, <1>9
<1>11. CASE Opening(text, o)
  <2>1. ~Closing(text, o)
    BY <1>2, <1>11, PlaceFacts
  <2>2. /\ text' = text /\ sink' = sink /\ offset' = o + 2 /\ mode' = "comment"
        /\ scan' = "scanning" /\ depth' = open + 1
    BY <1>1, <1>2, <1>5, <1>11, <2>1, CharactersAt, Zenon DEF TurnComment
  <2>3. PICK r \in Nat, more \in Nat : r = o + 2 /\ more = open + 1 /\ more > 0
    BY <1>2, <1>5
  <2>4. end[<<o, open>>] = end[<<r, more>>]
    BY <1>5, <1>10, <1>11, <2>3 DEF NestedTurns
  <2>5. p \in e..r /\ p + 2 <= r
    BY <1>3, <1>6, <1>7, <2>3
  <2>6. NestedOpen(text, e, r, more)
    BY <1>6, <1>8, <2>3, <2>4, <2>5 DEF NestedOpen
  <2>7. ReadOn(text, e, "comment", r, more, previous')
    BY <2>6 DEF ReadOn
  <2> QED
    BY <2>2, <2>3, <2>7, GapSkip DEF e
<1>12. CASE Closing(text, o)
  <2>1. ~Opening(text, o)
    BY <1>2, <1>12, PlaceFacts
  <2>2. /\ text' = text /\ sink' = sink /\ offset' = o + 2
        /\ mode' = (IF depth = 1 THEN "root" ELSE "comment")
        /\ scan' = "scanning" /\ depth' = open - 1
    BY <1>1, <1>2, <1>5, <1>12, <2>1, CharactersAt, Zenon DEF TurnComment
  <2>3. PICK r \in Nat, less \in Nat : r = o + 2 /\ less = open - 1
    <3>1. o + 2 \in Nat /\ open - 1 \in Nat
      BY <1>2, <1>5
    <3> QED
      BY <3>1
  <2>4. NestedEnd(text, p) = end[<<r, less>>]
    BY <1>5, <1>6, <1>8, <1>10, <1>12, <2>3 DEF NestedTurns
  <2>5. r <= n
    BY <1>2, <1>12, <2>3, PlaceFacts
  <2>6. p \in e..r /\ p + 2 <= r /\ r \in p..n
    BY <1>3, <1>6, <1>7, <2>3, <2>5
  <2>7. CASE open = 1
    <3>1. less = 0
      BY <2>3, <2>7
    <3>2. NestedTurns(text, end, r, less)
      BY <1>9, <2>6
    <3>3. end[<<r, less>>] = r
      BY <3>1, <3>2 DEF NestedTurns
    <3>4. Bridges(text, p, r)
      BY <1>6, <2>4, <3>3 DEF Bridges
    <3>5. GapIn(text, e, r)
      BY <1>2, <1>3, <1>6, <1>7, <3>4, GapGrows
    <3>6. ReadOn(text, e, "root", r, depth', previous')
      BY <3>5 DEF ReadOn
    <3>7. mode' = "root"
      BY <1>5, <2>2, <2>7
    <3> QED
      BY <2>2, <2>3, <3>6, <3>7, GapSkip DEF e
  <2>8. CASE open # 1
    <3>1. less > 0
      BY <1>5, <2>3, <2>8
    <3>2. NestedOpen(text, e, r, less)
      BY <1>6, <1>8, <2>4, <2>6, <3>1 DEF NestedOpen
    <3>3. ReadOn(text, e, "comment", r, less, previous')
      BY <3>2 DEF ReadOn
    <3>4. mode' = "comment"
      BY <1>5, <2>2, <2>8
    <3> QED
      BY <2>2, <2>3, <3>3, <3>4, GapSkip DEF e
  <2> QED
    BY <2>7, <2>8
<1>13. CASE ~Opening(text, o) /\ ~Closing(text, o)
  <2>1. /\ text' = text /\ sink' = sink /\ offset' = o + 1 /\ mode' = "comment"
        /\ scan' = "scanning" /\ depth' = open
    BY <1>1, <1>2, <1>5, <1>13, CharactersAt, Zenon DEF TurnComment, SkipTo
  <2>2. PICK r \in Nat : r = o + 1
    BY <1>2
  <2>3. end[<<o, open>>] = end[<<r, open>>]
    BY <1>2, <1>5, <1>10, <1>13, <2>2 DEF NestedTurns
  <2>4. p \in e..r /\ p + 2 <= r
    BY <1>3, <1>6, <1>7, <2>2
  <2>5. NestedOpen(text, e, r, open)
    BY <1>5, <1>6, <1>8, <2>3, <2>4 DEF NestedOpen
  <2>6. ReadOn(text, e, "comment", r, open, previous')
    BY <2>5 DEF ReadOn
  <2> QED
    BY <2>1, <2>2, <2>6, GapSkip DEF e
<1> QED
  BY <1>11, <1>12, <1>13

\* Inside a string (scanString).
LEMMA GapString ==
  ASSUME ScanInv, GapInv, ScanInv', TurnString
  PROVE  GapInv'
<1>1. PICK p, warned :
        /\ p = IF At(offset) = "\\" THEN BehindEscape(offset + 1) ELSE offset
        /\ warned = IF At(offset) = "\\" /\ UnknownEscape(offset + 1)
                    THEN {Character(offset + 1)} ELSE {}
  OBVIOUS
<1>2. /\ Scanning /\ mode = "string"
      /\ \/ RaiseWith({}, Character(offset))
         \/ /\ At(p) = quote
            /\ sink' = Append(sink, Token("STRING", previous, p + 1))
            /\ reported' = reported \cup warned /\ mode' = "root" /\ offset' = p + 1
            /\ UNCHANGED <<text, scan>>
         \/ At(p) = "NUL" /\ RaiseWith(warned, Character(p - 1))
         \/ /\ At(p) # "NUL"
            /\ reported' = reported \cup warned /\ offset' = p + 1
            /\ UNCHANGED <<text, previous, mode, sink, scan>>
  BY <1>1, StringOutcomes
<1>3. scan = "scanning" /\ GapIn(text, LastEnd(sink), previous)
  BY <1>2 DEF Scanning, GapInv, ReadOn
<1>4. CASE \E w, span : RaiseWith(w, span)
  BY <1>4, GapRaise
<1>5. CASE UNCHANGED <<text, previous, mode, sink, scan>>
  <2>1. /\ text' = text /\ sink' = sink /\ scan' = "scanning" /\ mode' = "string"
        /\ previous' = previous
    BY <1>2, <1>3, <1>5
  <2>2. ReadOn(text, LastEnd(sink), "string", offset', depth', previous)
    BY <1>3 DEF ReadOn
  <2> QED
    BY <2>1, <2>2, GapSkip
<1>6. ASSUME sink' = Append(sink, Token("STRING", previous, p + 1)),
             mode' = "root", offset' = p + 1, UNCHANGED <<text, scan>>
      PROVE  GapInv'
  <2>1. previous \in Nat
    <3>1. offset \in Nat
      BY TextPlaces DEF ScanInv
    <3> QED
      BY <1>2, <1>3, <3>1 DEF ScanInv
  <2>2. PICK q \in Nat : q = p + 1
    <3>1. offset' \in 0..Len(text) /\ Len(text) \in Nat
      BY <1>6, TextPlaces DEF ScanInv
    <3> QED
      BY <1>6, <3>1
  <2>3. PICK token : token = Token("STRING", previous, q)
    OBVIOUS
  <2>4. token \in Tokens /\ token.begin = previous /\ token.end = q
    BY <2>1, <2>3 DEF Token, Tokens
  <2> QED
    BY <1>3, <1>6, <2>2, <2>3, <2>4, GapTake
<1> QED
  BY <1>2, <1>4, <1>5, <1>6

\* At the end, what is open is a comment up to there, or becomes a string.
LEMMA GapEnd ==
  ASSUME ScanInv, GapInv, EndOfText
  PROVE  GapInv'
<1> DEFINE e == LastEnd(sink)
<1>1. PICK n \in Nat : n = Len(text) /\ n = offset /\ IsText(text)
  BY TextPlaces DEF ScanInv, EndOfText
<1>2. /\ text' = text /\ scan = "scanning" /\ scan' = "done"
      /\ sink' = sink \o (IF mode = "string" THEN <<Token("STRING", previous, n)>> ELSE <<>>)
                      \o <<Token("BREAK", n, n)>>
  BY <1>1 DEF EndOfText
<1>3. /\ e \in 0..n /\ e \in Nat /\ sink \in Seq(Tokens) /\ Separated(text, sink)
      /\ ReadOn(text, e, mode, n, depth, previous)
  BY <1>1, <1>2, LastEndPlace DEF ScanInv, GapInv
<1>4. PICK last : last = Token("BREAK", n, n)
  OBVIOUS
<1>5. last \in Tokens /\ last.begin = n /\ last.end = n
  BY <1>1, <1>4 DEF Token, Tokens, ScannedTypes
<1>6. GapIn(text, n, n)
  <2>1. n \in 0..Len(text)
    BY <1>1
  <2> QED
    BY <1>1, <2>1, GapEmpty
<1>7. PICK s \in Seq(Tokens) : /\ sink' = s \o <<last>> /\ Separated(text, s)
                               /\ GapIn(text, LastEnd(s), n)
  <2>1. CASE mode = "string"
    <3>1. previous \in Nat /\ GapIn(text, e, previous)
      BY <1>1, <1>2, <1>3, <2>1 DEF ScanInv, ReadOn
    <3>2. PICK token : token = Token("STRING", previous, n)
      OBVIOUS
    <3>3. token \in Tokens /\ token.begin = previous /\ token.end = n
      BY <3>1, <3>2 DEF Token, Tokens
    <3>4. /\ Separated(text, Append(sink, token)) /\ LastEnd(Append(sink, token)) = n
          /\ Append(sink, token) \in Seq(Tokens)
      BY <1>3, <3>1, <3>3, SeparatedAppend
    <3>5. sink \o <<token>> = Append(sink, token)
      BY <1>3, <3>3, AppendIsConcat
    <3>6. sink' = (sink \o <<token>>) \o <<last>>
      BY <1>2, <1>4, <2>1, <3>2
    <3> QED
      BY <1>6, <3>4, <3>5, <3>6
  <2>2. CASE mode # "string"
    <3>1. sink' = sink \o <<last>>
      <4>1. sink \o <<>> = sink
        BY <1>3, ConcatEmptySeq
      <4> QED
        BY <1>2, <1>4, <2>2, <4>1
    <3>2. CASE mode = "root"
      BY <1>3, <3>1, <3>2 DEF ReadOn
    <3>3. CASE mode = "inline"
      <4> HIDE DEF e
      <4>1. PICK p \in e..n : /\ GapIn(text, e, p) /\ Slashes(text, p) /\ p + 2 <= n
                              /\ \A r \in p+2..n-1 : ~Slashes(text, r) /\ ~Breaks(text, r)
        BY <1>3, <3>3 DEF ReadOn, InlineOpen
      <4>2. p \in Nat /\ n \in p+2..n
        BY <1>3, <4>1
      <4>3. Breaks(text, n) /\ ~Slashes(text, n)
        <5>1. n >= n
          BY <1>1
        <5>2. n >= n => Breaks(text, n)
          BY <1>1, PlaceFacts
        <5>3. Breaks(text, n) => ~Slashes(text, n)
          BY <1>1, PlaceFacts
        <5> QED
          BY <5>1, <5>2, <5>3
      <4>4. InlineEnd(text, p) = n
        BY <1>1, <4>1, <4>2, <4>3, InlineStep
      <4>5. Bridges(text, p, n)
        BY <4>1, <4>4 DEF Bridges
      <4>6. GapIn(text, e, n)
        BY <1>1, <1>3, <4>1, <4>5, GapGrows
      <4> QED
        BY <1>3, <3>1, <4>6 DEF e
    <3>4. CASE mode = "comment"
      <4> HIDE DEF e
      <4>1. NestedOpen(text, e, n, depth)
        BY <1>3, <3>4 DEF ReadOn
      <4>2. PICK open \in Nat : open = depth /\ open > 0
        BY <4>1 DEF NestedOpen
      <4>3. PICK p \in e..n : /\ GapIn(text, e, p) /\ Opening(text, p)
                              /\ NestedEnd(text, p) = NestedEnds(text, p)[<<n, open>>]
        BY <4>1, <4>2 DEF NestedOpen
      <4>4. p \in Nat /\ n \in p..n
        BY <1>3, <4>3
      <4>5. PICK end : end = NestedEnds(text, p)
        OBVIOUS
      <4>6. NestedTurns(text, end, n, open)
        BY <1>1, <4>4, <4>5, NestedStep
      <4>7. NestedEnd(text, p) = n
        BY <1>1, <4>3, <4>5, <4>6 DEF NestedTurns
      <4>8. Bridges(text, p, n)
        BY <4>3, <4>7 DEF Bridges
      <4>9. GapIn(text, e, n)
        BY <1>1, <1>3, <4>3, <4>8, GapGrows
      <4> QED
        BY <1>3, <3>1, <4>9 DEF e
    <3> QED
      BY <1>3, <2>2, <3>2, <3>3, <3>4 DEF ReadOn
  <2> QED
    BY <2>1, <2>2
<1>8. sink' = Append(s, last)
  BY <1>5, <1>7, AppendIsConcat
<1>9. PICK t, c : t = sink' /\ c = text
  OBVIOUS
<1>10. Separated(c, t) /\ t # <<>> /\ t[Len(t)] = last
  BY <1>5, <1>7, <1>8, <1>9, SeparatedAppend
<1>11. last = Token("BREAK", Len(c), Len(c))
  BY <1>1, <1>4, <1>9
<1>12. t = sink' /\ c = text' /\ scan' = "done"
  BY <1>2, <1>9
<1> QED
  BY <1>10, <1>11, <1>12 DEF GapInv, Token

\* Nothing else touches what is read.
LEMMA GapStays ==
  ASSUME GapInv, UNCHANGED <<text, scannerVars>>
  PROVE  GapInv'
BY DEF GapInv, scannerVars

\* Reading a source begins with no token (assemble).
LEMMA GapStart ==
  ASSUME TextInv, GapInv, StartAssembling
  PROVE  GapInv'
<1>1. CASE Value("input") \in DOMAIN texts
  <2>1. PICK c : c = texts[Value("input")] /\ text' = c
    BY <1>1 DEF StartAssembling
  <2>2. /\ offset' = 0 /\ mode' = "root" /\ sink' = <<>> /\ scan' = "scanning"
    BY <1>1 DEF StartAssembling
  <2>3. IsText(c) /\ 0 \in 0..Len(c)
    BY <1>1, <2>1, LenProperties DEF TextInv, IsText
  <2>4. GapIn(c, 0, 0)
    BY <2>3, GapEmpty
  <2>5. Separated(c, <<>>) /\ LastEnd(<<>>) = 0
    BY DEF Separated, LastEnd
  <2>6. ReadOn(c, LastEnd(<<>>), "root", 0, depth', previous')
    BY <2>4, <2>5 DEF ReadOn
  <2> QED
    BY <2>1, <2>2, <2>5, <2>6 DEF GapInv
<1>2. CASE Value("input") \notin DOMAIN texts
  <2>1. UNCHANGED <<text, scannerVars>>
    BY <1>2 DEF StartAssembling, tokenizerVars
  <2> QED
    BY <2>1, GapStays
<1> QED
  BY <1>1, <1>2

\* Every turn of the scanning loops (tokenize).
LEMMA GapTurn ==
  ASSUME ScanInv, GapInv, ScanInv', Tokenize
  PROVE  GapInv'
<1>1. CASE \/ ScanBreak \/ ScanSymbol \/ Unreachable
           \/ ScanIdentifierOrLabel \/ ScanInteger \/ ScanRegisterSet
  BY <1>1, GapRoot
<1>2. CASE SkipWhitespace \/ EnterComment \/ EnterString
  BY <1>2, GapEnter
<1>3. CASE TurnInline
  BY <1>3, GapInline
<1>4. CASE TurnComment
  BY <1>4, GapNested
<1>5. CASE TurnString
  BY <1>5, GapString
<1>6. CASE EndOfText
  BY <1>6, GapEnd
<1> QED
  BY <1>1, <1>2, <1>3, <1>4, <1>5, <1>6 DEF Tokenize

\* The empty source is its last break.
LEMMA GapInit == Init => GapInv
<1> SUFFICES ASSUME Init PROVE GapInv
  OBVIOUS
<1>1. text = <<>> /\ scan = "done" /\ sink = <<Token("BREAK", 0, 0)>>
  BY DEF Init
<1>2. TextInv
  BY TextInit
<1>3. IsText(text) /\ 0 \in 0..Len(text) /\ Len(text) = 0
  BY <1>1, <1>2 DEF TextInv, ScanInv
<1>4. GapIn(text, 0, 0)
  BY <1>3, GapEmpty
<1>5. PICK last : last = Token("BREAK", 0, 0)
  OBVIOUS
<1>6. last.begin = 0 /\ sink = <<last>> /\ DOMAIN sink = {1} /\ sink[1] = last /\ Len(sink) = 1
  BY <1>1, <1>5 DEF Token
<1>7. Separated(text, sink)
  BY <1>4, <1>6 DEF Separated
<1> QED
  BY <1>1, <1>3, <1>5, <1>6, <1>7 DEF GapInv

\* Every step of every process.
LEMMA GapStepNext == TextInv /\ GapInv /\ TextInv' /\ [Next]_vars => GapInv'
<1> SUFFICES ASSUME TextInv, GapInv, TextInv', [Next]_vars PROVE GapInv'
  OBVIOUS
<1>1. CASE StartAssembling
  BY <1>1, GapStart
<1>2. CASE ReadText
  BY <1>2, GapTurn DEF TextInv, ReadText
<1>3. CASE Invoke \/ ReadArguments \/ RefuseArguments \/ NoTask
  BY <1>3, GapStays DEF Invoke, ReadArguments, RefuseArguments, NoTask, tokenizerVars
<1>4. CASE Abort \/ StartParsing \/ Assemble \/ WriteFile
  BY <1>4, GapStays DEF Abort, StartParsing, Assemble, WriteFile, tokenizerVars
<1>5. CASE RunAssembled \/ MissingFile \/ Disassemble \/ RunLoaded \/ Quit
  BY <1>5, GapStays DEF RunAssembled, MissingFile, Disassemble, RunLoaded, Quit, tokenizerVars
<1>6. CASE UNCHANGED vars
  BY <1>6, GapStays DEF vars, tokenizerVars
<1> QED
  BY <1>1, <1>2, <1>3, <1>4, <1>5, <1>6 DEF Next, Process

\* Of every source that is read to its end, nothing but blanks and comments is
\* left out between the tokens, a new line behind a comment is a break, and the
\* last token is the break behind the source (scanInlineComment,
\* scanMultilineComment, tokenize).
THEOREM ScanLosesNothing == Spec => []NothingLost
<1>1. ASSUME GapInv PROVE NothingLost
  <2>1. ASSUME scan = "done"
        PROVE  /\ Len(sink) > 0 /\ sink[Len(sink)] = Token("BREAK", Len(text), Len(text))
               /\ Separated(text, sink)
    BY <1>1, <2>1 DEF GapInv
  <2> QED
    BY <2>1, GapIsIn DEF NothingLost, Separated
<1>2. TextInv /\ GapInv => NothingLost
  BY <1>1
<1> QED
  BY <1>2, TextInit, TextStep, GapInit, GapStepNext, PTL DEF Spec
=============================================================================
