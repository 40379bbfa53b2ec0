----------------------------- MODULE Assembler -----------------------------
(***************************************************************************)
(* The assembler: one step for each turn of parseRoot, whose recursion is  *)
(* a stack of parsers, one for each open block. A parser is a window on    *)
(* the tokens: the next one and the first one behind.                      *)
(*                                                                         *)
(* An identifier with a dot is a condition and a mnemonic; other tokens    *)
(* have no condition. Only identifiers and labels are compared by name:    *)
(* the one symbol of the tokenizer is the comma, and a lexeme that is an   *)
(* operand is only handed on.                                              *)
(***************************************************************************)
EXTENDS Writer, FiniteSets

CONSTANT Sources                \* token sequences that may be assembled

VARIABLES
  tokens,
  parsers,                      \* the innermost block's last
  defined, used,                \* labels
  failed,                       \* MessageSink::error
  phase,                        \* parsing, raised or done
  result

parserVars == <<parsers, defined, used, failed, phase, result>>
vars == <<tokens, parserVars, writerVars>>

conditions ==
  {"f", "t", "nbe", "a", "nc", "nb", "ae", "c", "b", "nae", "ne", "nz", "e", "z"}

TokenTypes ==
  {"BREAK", "IDENTIFIER", "LABEL", "REGSET", "INTEGER", "STRING", "SYMBOL"}

\* The tokenizer's output: a source ends in the break that the tokenizer adds.
IsSource(source) ==
  /\ source \in Seq({source[n] : n \in DOMAIN source})
  /\ \A n \in DOMAIN source : source[n].type \in TokenTypes
  /\ source # <<>>
  /\ source[Len(source)].type = "BREAK"

ASSUME SourcesAssumption == \A source \in Sources : IsSource(source)

\* What every assembly begins with.
Start ==
  /\ WriterInit
  /\ parsers = <<[offset |-> 1, end |-> Len(tokens) + 1]>>
  /\ defined = {}
  /\ used = {}
  /\ failed = FALSE
  /\ phase = "parsing"
  /\ result = <<>>

Init == tokens \in Sources /\ Start

(***************************************************************************)
(* The parser's cursor.                                                    *)
(***************************************************************************)
Parser == parsers[Len(parsers)]
Empty == Parser.offset >= Parser.end
Token == tokens[Parser.offset]

Name(token) == <<token.cond, token.lexeme>>

Is(token, lexeme) == token.type = "IDENTIFIER" /\ token.cond = "" /\ token.lexeme = lexeme

AdvanceTo(offset) == [parsers EXCEPT ![Len(parsers)].offset = offset]

First(places, otherwise) ==
  IF places = {} THEN otherwise ELSE CHOOSE p \in places : \A q \in places : p <= q

\* Behind the next break, or behind everything.
Until(start, end) ==
  First({p + 1 : p \in {q \in start..end-1 : tokens[q].type = "BREAK"}}, end)

Count(first, last, lexeme) ==
  Cardinality({p \in first..last : Is(tokens[p], lexeme)})

\* Behind the end that balances the block, or behind everything.
Block(start, end) ==
  First({p + 1 : p \in {q \in start..end-1 :
           Count(start, q, "end") > Count(start, q, "begin")}}, end)

(***************************************************************************)
(* Operations: what each mnemonic is followed by.                          *)
(***************************************************************************)
Binary == <<"REGSET", "SYMBOL", "REGSET">>
Immediate == <<"REGSET", "SYMBOL", "INTEGER">>

Operands ==
  [nop |-> <<>>, cid |-> <<"INTEGER">>,
   set |-> Immediate, ctr |-> Immediate, shr |-> Immediate,
   ldm |-> Binary, stm |-> Binary, jmp |-> Binary, nad |-> Binary, and |-> Binary,
   xor |-> Binary, mov |-> Binary, add |-> Binary, cmp |-> Binary]

Follows(rest, kinds) ==
  /\ Len(rest) >= Len(kinds)
  /\ \A i \in DOMAIN kinds : rest[i].type = kinds[i]

\* The values among the operands.
Arguments(rest, kinds) ==
  [n \in 1..((Len(kinds) + 1) \div 2) |-> rest[2 * n - 1].lexeme]

(***************************************************************************)
(* The turns of parseRoot.                                                 *)
(***************************************************************************)
Parsing == phase = "parsing" /\ ~Empty

SkipBreak ==
  /\ Parsing
  /\ Token.type = "BREAK"
  /\ parsers' = AdvanceTo(Parser.offset + 1)
  /\ UNCHANGED <<tokens, defined, used, failed, phase, result, writerVars>>

\* An expectation that nobody catches leaves assemble; guards pop their conditions.
Raise ==
  /\ phase' = "raised"
  /\ failed' = TRUE
  /\ parsers' = <<>>
  /\ stack' = <<"t">>
  /\ UNCHANGED <<tokens, defined, used, result, code, links, labels>>

HasHead ==
  LET o == Parser.offset
  IN  /\ o + 2 < Parser.end
      /\ tokens[o + 1].type = "IDENTIFIER"
      /\ Is(tokens[o + 2], "begin")

\* The condition of the block applies to all that is in it; the block of an
\* unknown condition is skipped.
OpenBlock ==
  LET start == Parser.offset + 3
      after == Block(start, Parser.end)
      cond == tokens[Parser.offset + 1]
  IN  /\ Parsing
      /\ Is(Token, "if")
      /\ HasHead
      /\ IF cond.cond = "" /\ cond.lexeme \in conditions
         THEN /\ PushCondition(cond.lexeme)
              /\ parsers' = Append(AdvanceTo(after), [offset |-> start, end |-> after - 1])
              /\ UNCHANGED failed
         ELSE /\ failed' = TRUE
              /\ parsers' = AdvanceTo(after)
              /\ UNCHANGED stack
      /\ UNCHANGED <<tokens, defined, used, phase, result, code, links, labels>>

BrokenHead ==
  /\ Parsing
  /\ Is(Token, "if")
  /\ ~HasHead
  /\ Raise

\* Faulty variant: the condition stays on the stack.
CloseBlockKeepingCondition ==
  /\ phase = "parsing"
  /\ Empty
  /\ Len(parsers) > 1
  /\ parsers' = SubSeq(parsers, 1, Len(parsers) - 1)
  /\ UNCHANGED <<stack, tokens, defined, used, failed, phase, result, code, links, labels>>

CloseBlock ==
  /\ phase = "parsing"
  /\ Empty
  /\ Len(parsers) > 1
  /\ parsers' = SubSeq(parsers, 1, Len(parsers) - 1)
  /\ PopCondition
  /\ UNCHANGED <<tokens, defined, used, failed, phase, result, code, links, labels>>

\* A label has one definition; a second one is reported and left out.
DefineLabel ==
  /\ Parsing
  /\ Token.type = "LABEL"
  /\ parsers' = AdvanceTo(Parser.offset + 1)
  /\ IF Name(Token) \in defined
     THEN failed' = TRUE /\ UNCHANGED <<defined, labels>>
     ELSE /\ defined' = defined \cup {Name(Token)}
          /\ PutLabel(Name(Token))
          /\ UNCHANGED failed
  /\ UNCHANGED <<tokens, used, phase, result, stack, code, links>>

(***************************************************************************)
(* Statements: the tokens up to the next break, which is left out. At the  *)
(* end of a block without a break the last token is left out instead.      *)
(***************************************************************************)
AtStatement == Parsing /\ Token.type \notin {"BREAK", "LABEL"} /\ ~Is(Token, "if")

Statement == SubSeq(tokens, Parser.offset, Until(Parser.offset, Parser.end) - 2)
Leading == Statement[1]
Rest == SubSeq(Statement, 2, Len(Statement))

Headed == Statement # <<>> /\ Leading.type = "IDENTIFIER"

StatementCondition == IF Leading.cond = "" THEN Top ELSE Leading.cond

BrokenStatement ==
  /\ AtStatement
  /\ ~Headed
  /\ Raise

WellHeaded == AtStatement /\ Headed

KnownStatement == Leading.cond \in conditions \cup {""} /\ Leading.lexeme \in DOMAIN Operands

\* A jump whose first operand is no register set is a jump to a label.
ToLabel == Leading.lexeme = "jmp" /\ Rest # <<>> /\ Rest[1].type # "REGSET"

WriteOperation ==
  /\ WellHeaded
  /\ KnownStatement
  /\ ~ToLabel
  /\ Follows(Rest, Operands[Leading.lexeme])
  /\ PutOp(Leading.lexeme, StatementCondition, Arguments(Rest, Operands[Leading.lexeme]))
  /\ parsers' = AdvanceTo(Until(Parser.offset, Parser.end))
  /\ UNCHANGED <<tokens, defined, used, failed, phase, result, stack, links, labels>>

\* Faulty variant: the label is not recorded among those that are used.
WriteJumpUnrecorded ==
  /\ WellHeaded
  /\ KnownStatement
  /\ ToLabel
  /\ Rest[1].type = "IDENTIFIER"
  /\ PutLink(Name(Rest[1]))
  /\ PutOp("jmp", StatementCondition, <<>>)
  /\ parsers' = AdvanceTo(Until(Parser.offset, Parser.end))
  /\ UNCHANGED <<tokens, used, defined, failed, phase, result, stack, labels>>

WriteJump ==
  /\ WellHeaded
  /\ KnownStatement
  /\ ToLabel
  /\ Rest[1].type = "IDENTIFIER"
  /\ PutLink(Name(Rest[1]))
  /\ PutOp("jmp", StatementCondition, <<>>)
  /\ used' = used \cup {Name(Rest[1])}
  /\ parsers' = AdvanceTo(Until(Parser.offset, Parser.end))
  /\ UNCHANGED <<tokens, defined, failed, phase, result, stack, labels>>

\* Faulty variant: the statement's tokens stay where they are.
RejectStatementInPlace ==
  /\ WellHeaded
  /\ \/ ~KnownStatement
     \/ KnownStatement /\ ToLabel /\ Rest[1].type # "IDENTIFIER"
     \/ KnownStatement /\ ~ToLabel /\ ~Follows(Rest, Operands[Leading.lexeme])
  /\ failed' = TRUE
  /\ UNCHANGED <<tokens, parsers, defined, used, phase, result, writerVars>>

\* Reported, and the next statement is tried.
RejectStatement ==
  /\ WellHeaded
  /\ \/ ~KnownStatement
     \/ KnownStatement /\ ToLabel /\ Rest[1].type # "IDENTIFIER"
     \/ KnownStatement /\ ~ToLabel /\ ~Follows(Rest, Operands[Leading.lexeme])
  /\ failed' = TRUE
  /\ parsers' = AdvanceTo(Until(Parser.offset, Parser.end))
  /\ UNCHANGED <<tokens, defined, used, phase, result, writerVars>>

\* Nothing is baked after an error, and an undefined label is one.
Finish ==
  /\ phase = "parsing"
  /\ Empty
  /\ Len(parsers) = 1
  /\ phase' = "done"
  /\ failed' = (failed \/ ~(used \subseteq defined))
  /\ result' = IF failed' THEN <<>> ELSE Bake
  /\ UNCHANGED <<tokens, parsers, defined, used, writerVars>>

Next ==
  \/ SkipBreak \/ OpenBlock \/ BrokenHead \/ CloseBlock \/ DefineLabel
  \/ BrokenStatement \/ WriteOperation \/ WriteJump \/ RejectStatement
  \/ Finish

\* The assembler runs on until it is done.
Spec == Init /\ [][Next]_vars /\ WF_vars(Next)
=============================================================================
