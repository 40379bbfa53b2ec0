-------------------------------- MODULE Image --------------------------------
(***************************************************************************)
(* Programs in three forms: the instructions that the assembler puts       *)
(* (Writer), the bytes of a program file, raw or as hex text, and what the *)
(* reader makes of them and the disassembler prints. Bytes are numbers     *)
(* here, and the lexeme of an operand is the sequence of its characters.   *)
(***************************************************************************)
EXTENDS MicroArch, SourceText

CONSTANTS
  IntMax,       \* the largest int: 2^31 - 1 in the code
  LabelName     \* what a listing calls an address

ASSUME IntAssumption == IntMax \in Nat /\ IntMax >= 255

\* No two addresses have the same name, and none has that of a block word.
ASSUME LabelNamesAssumption ==
  /\ LabelName \in [Address -> STRING]
  /\ Cardinality({LabelName[address] : address \in Address}) = PcMod
  /\ \A address \in Address : LabelName[address] \notin {"begin", "end"}

(***************************************************************************)
(* Operands.                                                               *)
(***************************************************************************)
RegisterSet(lexeme) == {DigitValue(lexeme[n]) : n \in 2..Len(lexeme)}

\* The base of a number and where its digits begin.
NumberForm(lexeme) ==
  CASE Len(lexeme) > 1 /\ lexeme[2] = "x" -> [base |-> 16, from |-> 3]
    [] Len(lexeme) > 1 /\ lexeme[2] = "o" -> [base |-> 8, from |-> 3]
    [] Len(lexeme) > 1 /\ lexeme[2] = "b" -> [base |-> 2, from |-> 3]
    [] OTHER -> [base |-> 10, from |-> 1]

\* The digits up to the first other character; no value, or one beyond int, is 0.
parseIntWithBase(lexeme, from, base) ==
  LET digit(n) == n <= Len(lexeme) /\ lexeme[n] \in DigitsOf(base)
      end == CHOOSE n \in from..Len(lexeme)+1 :
               ~digit(n) /\ \A i \in from..n-1 : digit(i)
      value[n \in from-1..Len(lexeme)] ==
        IF n < from THEN 0
        ELSE base * value[n - 1] + DigitValue(lexeme[n])
  IN  IF value[end - 1] > IntMax THEN 0 ELSE value[end - 1]

\* Cut to a byte.
Immediate(lexeme) ==
  WordOf(parseIntWithBase(lexeme, NumberForm(lexeme).from, NumberForm(lexeme).base))

(***************************************************************************)
(* Instructions as the writer puts them.                                   *)
(***************************************************************************)
Condition(mnemonic) ==
  CASE mnemonic = "f" -> {}
    [] mnemonic = "t" -> FlagValues
    [] mnemonic \in {"nbe", "a"} -> {"ZF_FALSE", "CF_FALSE"}
    [] mnemonic \in {"nc", "nb", "ae"} -> FlagValues \ {"CF_TRUE"}
    [] mnemonic \in {"c", "b", "nae"} -> FlagValues \ {"CF_FALSE"}
    [] mnemonic \in {"ne", "nz"} -> FlagValues \ {"ZF_TRUE"}
    [] mnemonic \in {"e", "z"} -> FlagValues \ {"ZF_FALSE"}

opcodeOf ==
  [nop |-> "NOP", set |-> "SET", ldm |-> "LDM", stm |-> "STM", cid |-> "CID",
   ctr |-> "CTR", nad |-> "NAD", and |-> "AND", xor |-> "XOR", shr |-> "SHR",
   mov |-> "MOV", add |-> "ADD", cmp |-> "CMP"]

\* An instruction is what it is called, its condition, and its operands: values as
\* they are written, or the address that a jump was linked to.
Put(written) ==
  LET args == written.args
      linked == written.op = "jmp" /\ Len(args) = 1
      operands ==
        CASE linked -> <<HighByte(args[1]), LowByte(args[1])>>
          [] written.op = "nop" -> <<Zero, Zero>>
          [] written.op = "cid" -> <<Zero, Immediate(args[1])>>
          [] written.op \in {"set", "ctr", "shr"} ->
               <<RegisterSet(args[1]), Immediate(args[2])>>
          [] OTHER -> <<RegisterSet(args[1]), RegisterSet(args[2])>>
  IN  [op |-> IF written.op # "jmp" THEN opcodeOf[written.op]
              ELSE IF linked THEN "JPI" ELSE "JPR",
       cond |-> Condition(written.cond), a |-> operands[1], b |-> operands[2]]

(***************************************************************************)
(* Bytes.                                                                  *)
(***************************************************************************)
opcodes == <<"NOP", "SET", "LDM", "STM", "JPR", "JPI", "CID", "CTR",
             "NAD", "AND", "XOR", "SHR", "MOV", "EXT", "ADD", "CMP">>
Opcode(op) == (CHOOSE n \in DOMAIN opcodes : opcodes[n] = op) - 1

\* The condition's bits of the first byte, the highest first.
flagBits == <<"ZF_TRUE", "ZF_FALSE", "CF_TRUE", "CF_FALSE">>

Encode(i) ==
  LET bit(n) == IF flagBits[n] \in i.cond THEN 2^(4 - n) ELSE 0
  IN  <<16 * Opcode(i.op) + bit(1) + bit(2) + bit(3) + bit(4), Val(i.a), Val(i.b)>>

Bytes(written) ==
  [n \in 1..3 * Len(written) |-> Encode(Put(written[((n - 1) \div 3) + 1]))[((n - 1) % 3) + 1]]

Aligned(bytes) == Len(bytes) % 3 = 0
OpcodeAt(bytes, n) == opcodes[(bytes[3 * n - 2] \div 16) + 1]

\* Only bytes in threes without the extension point are a program.
Readable(bytes) ==
  Aligned(bytes) /\ \A n \in 1..Len(bytes) \div 3 : OpcodeAt(bytes, n) # "EXT"

\* The reader drops the condition and the operands of a NOP.
toProgram(bytes) ==
  [n \in 1..Len(bytes) \div 3 |->
     LET op == OpcodeAt(bytes, n)
         head == bytes[3 * n - 2]
     IN  IF op = "NOP" THEN [op |-> op, cond |-> FlagValues, a |-> Zero, b |-> Zero]
         ELSE [op |-> op,
               cond |-> {flagBits[k] : k \in {k \in 1..4 : (head \div 2^(4 - k)) % 2 = 1}},
               a |-> WordOf(bytes[3 * n - 1]), b |-> WordOf(bytes[3 * n])]]

(***************************************************************************)
(* Hex text: two digits for a byte, a new line behind each third.          *)
(***************************************************************************)
HexDigit(value) == IF value < 10 THEN 48 + value ELSE 55 + value
IsHexDigit(c) == c \in 48..57 \cup 65..70 \cup 97..102
HexValue(c) == CASE c <= 57 -> c - 48 [] c \in 65..70 -> c - 55 [] OTHER -> c - 87

HexText(bytes) ==
  [n \in 1..7 * (Len(bytes) \div 3) |->
     LET k == (n - 1) % 7
         byte == bytes[3 * ((n - 1) \div 7) + (k \div 2) + 1]
     IN  IF k = 6 THEN 10
         ELSE HexDigit(IF k % 2 = 0 THEN byte \div 16 ELSE byte % 16)]

\* Faulty variant: every two characters are tried, from two to two.
decodeHexByPairs(text) ==
  LET from[n \in 1..Len(text)+2] ==
        IF n >= Len(text) THEN <<>>
        ELSE IF IsHexDigit(text[n]) /\ IsHexDigit(text[n + 1])
        THEN <<16 * HexValue(text[n]) + HexValue(text[n + 1])>> \o from[n + 2]
        ELSE from[n + 2]
  IN  from[1]

\* Two digits in a row are a byte; anything else is skipped.
decodeHexString(text) ==
  LET from[n \in 1..Len(text)+2] ==
        IF n >= Len(text) THEN <<>>
        ELSE IF IsHexDigit(text[n]) /\ IsHexDigit(text[n + 1])
        THEN <<16 * HexValue(text[n]) + HexValue(text[n + 1])>> \o from[n + 2]
        ELSE from[n + 1]
  IN  from[1]

(***************************************************************************)
(* The listing of a program, as the tokens of its lines. Addresses at the  *)
(* front of lines are left out.                                            *)
(***************************************************************************)
\* A condition without a mnemonic is printed as its bits.
Mnemonic(cond) ==
  CASE cond = {} -> "f"
    [] cond = FlagValues -> ""
    [] cond = {"ZF_FALSE", "CF_FALSE"} -> "nbe"
    [] cond = FlagValues \ {"CF_TRUE"} -> "nc"
    [] cond = FlagValues \ {"CF_FALSE"} -> "c"
    [] cond = FlagValues \ {"ZF_TRUE"} -> "ne"
    [] cond = FlagValues \ {"ZF_FALSE"} -> "e"
    [] OTHER -> "bits"

\* The registers of a set in their order.
regset(word) ==
  LET upTo[n \in 0..W] ==
        IF n = 0 THEN <<"$">>
        ELSE upTo[n - 1] \o (IF n - 1 \in word THEN <<Digits[n]>> ELSE <<>>)
  IN  upTo[W]

\* The decimal digits of a byte.
Decimal(byte) ==
  LET digit(unit) == Digits[((byte \div unit) % 10) + 1]
  IN  CASE byte >= 100 -> <<digit(100), digit(10), digit(1)>>
        [] byte \in 10..99 -> <<digit(10), digit(1)>>
        [] byte < 10 -> <<digit(1)>>

Printed(type, lexeme) == [type |-> type, cond |-> "", lexeme |-> lexeme]
Comma == Printed("SYMBOL", <<",">>)

string(i) ==
  LET name == CHOOSE name \in DOMAIN opcodeOf \cup {"jmp"} :
                IF name = "jmp" THEN i.op \in JumpOps ELSE opcodeOf[name] = i.op
      cond == IF i.op = "NOP" THEN "" ELSE Mnemonic(i.cond)
      a == Printed("REGSET", regset(i.a))
      number == Printed("INTEGER", Decimal(Val(i.b)))
      operands ==
        CASE i.op = "NOP" -> <<>>
          [] i.op \in {"CID", "CTR"} -> <<number>>
          [] i.op \in {"SET", "SHR"} -> <<a, Comma, number>>
          [] i.op = "JPI" -> <<Printed("IDENTIFIER", LabelName[JumpAddress(i.a, i.b)])>>
          [] OTHER -> <<a, Comma, Printed("REGSET", regset(i.b))>>
  IN  <<[type |-> "IDENTIFIER", cond |-> cond, lexeme |-> name]>> \o operands
        \o <<Printed("BREAK", <<>>)>>

Targets(program) ==
  {JumpAddress(program[n].a, program[n].b) :
     n \in {n \in DOMAIN program : program[n].op = "JPI"}}

\* Faulty variant: a label is printed behind the instruction it is for.
disassembleLabelsLast(program) ==
  LET upTo[n \in 0..Len(program)] ==
        IF n = 0 THEN <<>>
        ELSE upTo[n - 1] \o string(program[n])
               \o (IF n - 1 \in Targets(program)
                   THEN <<Printed("LABEL", LabelName[n - 1])>> ELSE <<>>)
  IN  upTo[Len(program)] \o <<Printed("BREAK", <<>>)>>

\* A label goes before each instruction that a jump names, and only there.
disassemble(program) ==
  LET upTo[n \in 0..Len(program)] ==
        IF n = 0 THEN <<>>
        ELSE upTo[n - 1]
               \o (IF n - 1 \in Targets(program)
                   THEN <<Printed("LABEL", LabelName[n - 1])>> ELSE <<>>)
               \o string(program[n])
  IN  upTo[Len(program)] \o <<Printed("BREAK", <<>>)>>
=============================================================================
