------------------------------ MODULE Tokenizer ------------------------------
(***************************************************************************)
(* The tokenizer and its lexer: one step for each turn of a scanning loop, *)
(* the main one and those of comments and strings.                         *)
(*                                                                         *)
(* A character is a string of one letter or a member of Names, runs of     *)
(* letters and underscores that no rule looks into; none of them follows a *)
(* zero or a backslash. NUL stands for the byte behind the source, VT for  *)
(* a vertical tab.                                                         *)
(***************************************************************************)
EXTENDS SourceText

CONSTANT Names

VARIABLES
  text,                         \* the characters of the source
  offset,                       \* of the next character
  previous,                     \* where the string that is read began
  mode, depth,                  \* the loop that is under way; open comments
  sink,                         \* the tokens, each its type and span
  scan,                         \* scanning, raised, done
  failed, reported              \* MessageSink: an error; the spans of all messages

scannerVars == <<offset, previous, mode, depth, sink, scan, reported>>
tokenizerVars == <<text, failed, scannerVars>>

(***************************************************************************)
(* Classes of characters.                                                  *)
(***************************************************************************)
decimal == DigitsOf(10)
octal == DigitsOf(8)
hexadecimal == DigitsOf(16)
alphabetic == Names \cup (hexadecimal \ decimal) \cup {"n", "o", "r", "t", "v", "x", "_"}
alphanumeric == alphabetic \cup decimal
whitespace == {" ", "\t", "\r", "\n", "VT", "\f"}
escape == {"a", "b", "e", "f", "n", "r", "t", "v", "\\", "'", "\""}

\* Names have a first letter, and letters are nothing else.
ASSUME NamesAssumption ==
  Names \cap (decimal \cup whitespace \cup {"NUL", ";", ",", ":", ".", "$", "'", "\"", "\\", "/", "*"}) = {}

\* The digits that follow each prefix of a number.
radix == [x |-> hexadecimal, o |-> octal, b |-> DigitsOf(2)]

\* A source has no character that stands for its end, and fewer lines than a line
\* number can count, one behind the last included.
IsText(characters) ==
  /\ characters \in Seq(STRING)
  /\ \A n \in DOMAIN characters : characters[n] # "NUL"
  /\ LineCount(characters) + 1 < LineMod

(***************************************************************************)
(* The lexer.                                                              *)
(***************************************************************************)
At(p) == IF p < Len(text) THEN text[p + 1] ELSE "NUL"

Accepts(p, first, second) == At(p) = first /\ At(p + 1) = second

\* Behind everything that greedily matches a class.
Behind(p, class) ==
  CHOOSE q \in p..Len(text) :
    At(q) \notin class /\ \A i \in p..q-1 : At(i) \in class

Character(p) == [begin |-> p, end |-> p + 1]

Token(type, begin, end) == [type |-> type, begin |-> begin, end |-> end]

Scanning == scan = "scanning" /\ offset < Len(text)
Root == Scanning /\ mode = "root"

\* Faulty variant: every token begins where the last string did.
EmitFromPrevious(type, end) ==
  /\ sink' = Append(sink, Token(type, previous, end))
  /\ offset' = end
  /\ UNCHANGED <<text, previous, mode, depth, scan, failed, reported>>

Emit(type, end) ==
  /\ sink' = Append(sink, Token(type, offset, end))
  /\ offset' = end
  /\ UNCHANGED <<text, previous, mode, depth, scan, failed, reported>>

SkipTo(end) ==
  /\ offset' = end
  /\ UNCHANGED <<text, previous, mode, depth, sink, scan, failed, reported>>

\* Reported, with the warnings of the turn, and thrown; nobody catches it.
RaiseWith(warned, span) ==
  /\ scan' = "raised"
  /\ failed' = TRUE
  /\ reported' = reported \cup warned \cup {span}
  /\ UNCHANGED <<text, offset, previous, mode, depth, sink>>

RaiseAt(span) == RaiseWith({}, span)

(***************************************************************************)
(* Turns of the main loop that look at one or two characters.              *)
(***************************************************************************)
ScanBreak == Root /\ At(offset) \in {"\n", ";"} /\ Emit("BREAK", offset + 1)

SkipWhitespace == Root /\ At(offset) \in whitespace \ {"\n"} /\ SkipTo(offset + 1)

ScanSymbol == Root /\ At(offset) = "," /\ Emit("SYMBOL", offset + 1)

EnterComment ==
  /\ Root
  /\ \/ Accepts(offset, "/", "/") /\ mode' = "inline" /\ UNCHANGED depth
     \/ Accepts(offset, "/", "*") /\ mode' = "comment" /\ depth' = 1
  /\ offset' = offset + 2
  /\ UNCHANGED <<text, previous, sink, scan, failed, reported>>

EnterString ==
  /\ Root
  /\ At(offset) = "\""
  /\ mode' = "string"
  /\ previous' = offset
  /\ offset' = offset + 1
  /\ UNCHANGED <<text, depth, sink, scan, failed, reported>>

Unreachable ==
  /\ Root
  /\ At(offset) \notin whitespace \cup alphanumeric \cup {";", "\"", "$", ","}
  /\ ~Accepts(offset, "/", "/")
  /\ ~Accepts(offset, "/", "*")
  /\ RaiseAt(Character(offset))

(***************************************************************************)
(* Identifiers, labels, numbers and register sets.                         *)
(***************************************************************************)
ScanIdentifierOrLabel ==
  LET end == Behind(offset, alphanumeric)
  IN  /\ Root
      /\ At(offset) \in alphabetic
      /\ CASE At(end) = ":" -> Emit("LABEL", end + 1)
           [] At(end) = "." -> Emit("IDENTIFIER", Behind(end + 1, alphanumeric))
           [] OTHER -> Emit("IDENTIFIER", end)

\* Groups of digits with one separator behind each that another may follow.
BehindDigits(p, class) ==
  LET goes(q) == At(q) \in class \/ (q > p /\ At(q) = "'" /\ At(q - 1) \in class)
  IN  CHOOSE q \in p..Len(text) : ~goes(q) /\ \A i \in p..q-1 : goes(i)

Prefixed == At(offset) = "0" /\ At(offset + 1) \in DOMAIN radix

\* Without a prefix a digit is expected behind a separator, and another one looked
\* for behind that: where there is none the number ends, at a separator too.
BehindGroups(p) ==
  LET alone(q) == q > p + 1 /\ At(q - 2) = "'"
      goes(q) == \/ At(q) \in decimal
                 \/ q > p /\ At(q) = "'" /\ At(q - 1) \in decimal /\ ~alone(q)
  IN  CHOOSE q \in p..Len(text) : ~goes(q) /\ \A i \in p..q-1 : goes(i)

\* Faulty variant: a prefix is no part of a number.
NumberEndUnprefixed == BehindGroups(offset)

NumberEnd ==
  IF Prefixed
  THEN BehindDigits(offset + 2, radix[At(offset + 1)])
  ELSE BehindGroups(offset)

\* Only a number without a prefix insists on a digit behind its separator.
ScanInteger ==
  LET end == NumberEnd
      cut == ~Prefixed /\ At(end - 1) = "'"
  IN  /\ Root
      /\ At(offset) \in decimal
      /\ CASE cut -> RaiseAt(Character(IF end = Len(text) THEN end - 1 ELSE end))
           [] ~cut /\ At(end) \in alphanumeric -> RaiseAt(Character(end))
           [] OTHER -> Emit("INTEGER", end)

\* Faulty variant: a register may be named twice.
RegistersEndRepeating ==
  LET goes(q) == /\ At(q) \in octal
                 /\ q > offset + 1 => DigitValue(At(q - 1)) <= DigitValue(At(q))
  IN  CHOOSE q \in offset+1..Len(text) : ~goes(q) /\ \A i \in offset+1..q-1 : goes(i)

\* Behind the registers that ascend, for as long as they do.
RegistersEnd ==
  LET goes(q) == /\ At(q) \in octal
                 /\ q > offset + 1 => DigitValue(At(q - 1)) < DigitValue(At(q))
  IN  CHOOSE q \in offset+1..Len(text) : ~goes(q) /\ \A i \in offset+1..q-1 : goes(i)

\* The character behind the registers is looked at, so there must be one.
ScanRegisterSet ==
  LET end == RegistersEnd
  IN  /\ Root
      /\ At(offset) = "$"
      /\ CASE end = Len(text) \/ At(end) \in octal -> RaiseAt(Character(end - 1))
           [] At(end) \in alphanumeric \ octal -> RaiseAt(Character(end))
           [] OTHER -> Emit("REGSET", end)

(***************************************************************************)
(* Turns inside comments and strings.                                      *)
(***************************************************************************)
LeaveComment(end) ==
  /\ mode' = "root"
  /\ offset' = end
  /\ UNCHANGED <<text, previous, scan, failed, reported>>

\* The new line behind an inline comment is a break of its own.
TurnInline ==
  /\ Scanning
  /\ mode = "inline"
  /\ CASE At(offset) = "\n" ->
            /\ sink' = Append(sink, Token("BREAK", offset, offset + 1))
            /\ LeaveComment(offset + 1)
            /\ UNCHANGED depth
       [] Accepts(offset, "/", "/") -> LeaveComment(offset + 2) /\ UNCHANGED <<sink, depth>>
       [] OTHER -> SkipTo(offset + 1)

\* Faulty variant: comments do not nest.
TurnCommentFlat ==
  /\ Scanning
  /\ mode = "comment"
  /\ IF Accepts(offset, "*", "/")
     THEN LeaveComment(offset + 2) /\ UNCHANGED <<sink, depth>>
     ELSE SkipTo(offset + 1)

TurnComment ==
  /\ Scanning
  /\ mode = "comment"
  /\ CASE Accepts(offset, "/", "*") ->
            /\ depth' = depth + 1
            /\ offset' = offset + 2
            /\ UNCHANGED <<text, previous, mode, sink, scan, failed, reported>>
       [] Accepts(offset, "*", "/") ->
            /\ depth' = depth - 1
            /\ offset' = offset + 2
            /\ mode' = IF depth = 1 THEN "root" ELSE "comment"
            /\ UNCHANGED <<text, previous, sink, scan, failed, reported>>
       [] OTHER -> SkipTo(offset + 1)

UnknownEscape(p) == At(p) \notin escape \cup {"x", "NUL"}

BehindEscape(p) ==
  CASE At(p) \in escape \/ UnknownEscape(p) -> p + 1
    [] At(p) = "x" -> IF At(p + 1) \notin hexadecimal THEN p + 1
                      ELSE IF At(p + 2) \notin hexadecimal THEN p + 2 ELSE p + 3
    [] OTHER -> p

\* A character is taken unseen behind every escape.
TurnString ==
  LET escaped == At(offset) = "\\"
      p == IF escaped THEN BehindEscape(offset + 1) ELSE offset
      warned == IF escaped /\ UnknownEscape(offset + 1)
                THEN {Character(offset + 1)} ELSE {}
  IN  /\ Scanning
      /\ mode = "string"
      /\ CASE At(offset) = "\n" -> RaiseAt(Character(offset))
           [] At(p) = "\"" ->
                /\ sink' = Append(sink, Token("STRING", previous, p + 1))
                /\ reported' = reported \cup warned
                /\ mode' = "root"
                /\ offset' = p + 1
                /\ UNCHANGED <<text, previous, depth, scan, failed>>
           [] At(p) = "NUL" -> RaiseWith(warned, Character(p - 1))
           [] OTHER ->
                /\ reported' = reported \cup warned
                /\ offset' = p + 1
                /\ UNCHANGED <<text, previous, mode, depth, sink, scan, failed>>

\* Comments and strings that are open at the end are taken as they are.
EndOfText ==
  LET end == Len(text)
      open == IF mode = "string" THEN <<Token("STRING", previous, end)>> ELSE <<>>
  IN  /\ scan = "scanning"
      /\ offset = end
      /\ sink' = sink \o open \o <<Token("BREAK", end, end)>>
      /\ scan' = "done"
      /\ UNCHANGED <<text, offset, previous, mode, depth, failed, reported>>

Tokenize ==
  \/ ScanBreak \/ SkipWhitespace \/ ScanSymbol \/ EnterComment \/ EnterString
  \/ Unreachable
  \/ ScanIdentifierOrLabel \/ ScanInteger \/ ScanRegisterSet
  \/ TurnInline \/ TurnComment \/ TurnString
  \/ EndOfText
=============================================================================
