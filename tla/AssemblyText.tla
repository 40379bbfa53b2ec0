---------------------------- MODULE AssemblyText ----------------------------
(***************************************************************************)
(* What the characters of an assembly source are, told of the source       *)
(* without a scanner, and the tokenizer's properties against it.           *)
(***************************************************************************)
EXTENDS Tokenizer

All(p, q, class) == \A i \in p..q-1 : At(i) \in class

IsNumber(p, q, class) ==
  /\ All(p, q, class \cup {"'"})
  /\ \A i \in p..q-1 : At(i) = "'" => i > p /\ At(i - 1) # "'"

\* A digit that stands alone between two separators.
LoneDigit(i) == i > 0 /\ At(i - 1) = "'" /\ At(i) \in decimal /\ At(i + 1) = "'"

\* The characters from p up to q are one token of a type.
Lexeme(type, p, q) ==
  CASE type = "BREAK" -> q = p + 1 /\ At(p) \in {"\n", ";"}
    [] type = "SYMBOL" -> q = p + 1 /\ At(p) = ","
    [] type = "LABEL" ->
         At(p) \in alphabetic /\ All(p, q - 1, alphanumeric) /\ At(q - 1) = ":"
    [] type = "IDENTIFIER" ->
         /\ At(p) \in alphabetic
         /\ \E dot \in p+1..q : /\ All(p, dot, alphanumeric)
                                /\ All(dot + 1, q, alphanumeric)
                                /\ dot < q => At(dot) = "."
    [] type = "REGSET" ->
         /\ At(p) = "$"
         /\ All(p + 1, q, octal)
         /\ \A i, j \in p+1..q-1 : i < j => DigitValue(At(i)) < DigitValue(At(j))
    [] type = "INTEGER" ->
         \/ q > p /\ IsNumber(p, q, decimal) /\ At(q - 1) # "'"
         \/ /\ q >= p + 2 /\ At(p) = "0" /\ At(p + 1) \in DOMAIN radix
            /\ IsNumber(p + 2, q, radix[At(p + 1)])
    [] type = "STRING" ->
         At(p) = "\"" /\ (q = Len(text) \/ (q > p + 1 /\ At(q - 1) = "\""))

ScannedTypes == {"BREAK", "SYMBOL", "LABEL", "IDENTIFIER", "REGSET", "INTEGER"}

\* Where tokens that begin at p, other than strings, may end.
EndsFrom(p) ==
  {q \in p+1..Len(text) : \E type \in ScannedTypes : Lexeme(type, p, q)}

CommentStart(i) == Accepts(i, "/", "*")
CommentEnd(i) == Accepts(i, "*", "/")

\* Behind the nested comment that starts at p.
BehindNested(p) ==
  LET end[place \in (p..Len(text)+1) \X Nat] ==
        LET i == place[1]
            open == place[2]
        IN  CASE open = 0 \/ i >= Len(text) -> i
              [] open > 0 /\ i < Len(text) /\ CommentStart(i) -> end[<<i + 2, open + 1>>]
              [] open > 0 /\ i < Len(text) /\ CommentEnd(i) -> end[<<i + 2, open - 1>>]
              [] OTHER -> end[<<i + 1, open>>]
  IN  end[<<p + 2, 1>>]

\* Behind the inline comment that starts at p, before its new line.
BehindInline(p) ==
  LET closed == {q \in p+2..Len(text) :
                   Accepts(q, "/", "/") \/ At(q) \in {"\n", "NUL"}}
      q == CHOOSE q \in closed : \A r \in closed : q <= r
  IN  IF At(q) = "/" THEN q + 2 ELSE q

\* Between p and q there are only blanks and whole comments.
Gap(p, q) ==
  LET blank[i \in p..Len(text)+2] ==
        \/ i = q
        \/ /\ i < q
           /\ CASE At(i) \in whitespace \ {"\n"} -> blank[i + 1]
                [] CommentStart(i) -> blank[BehindNested(i)]
                [] Accepts(i, "/", "/") -> blank[BehindInline(i)]
                [] OTHER -> FALSE
  IN  blank[p]

(***************************************************************************)
(* Properties, of a scan that has ended: what it made of its last token is *)
(* what it had made of each before.                                        *)
(***************************************************************************)
Ended == scan \in {"done", "raised"}

\* Every token is a word of the language and, but for strings, the longest that
\* begins there; numbers, register sets and identifiers end before the next
\* character that could go on (the scan functions' greedy matches and tails). But
\* for one case: a number of which a digit stands alone between separators is read
\* only up to there, although one digit is said to be enough (scanInteger).
TokensRead ==
  Ended =>
    \A n \in DOMAIN sink :
      LET t == sink[n]
      IN  t.begin < Len(text) =>
            /\ Lexeme(t.type, t.begin, t.end)
            /\ t.type # "STRING" =>
                 \A q \in EndsFrom(t.begin) : q <= t.end \/ LoneDigit(t.end - 1)
            /\ t.type \in {"INTEGER", "REGSET", "IDENTIFIER"} => At(t.end) \notin alphanumeric

\* A source that is read to its end loses nothing but blanks and comments, each
\* new line behind a comment is still a break, and the last token is the break
\* behind the source (scanInlineComment, scanMultilineComment, tokenize).
NothingLost ==
  scan = "done" =>
    LET last == Len(sink)
    IN  /\ last > 0 /\ sink[last] = Token("BREAK", Len(text), Len(text))
        /\ \A n \in DOMAIN sink : Gap(IF n = 1 THEN 0 ELSE sink[n - 1].end, sink[n].begin)

\* Outside of strings a source is refused only at a place where no word of the
\* language ends before something else, and that is not within a word either. Two
\* kinds of word are refused nevertheless: a register set that nothing follows, and
\* the rest of a number behind a digit that stands alone between separators
\* (scanInteger, scanRegisterSet, unreachable).
RejectsOnlyMalformed ==
  scan = "raised" /\ mode = "root" =>
    /\ \A q \in EndsFrom(offset) :
         \/ At(q) \in alphanumeric \cup {"'"}
         \/ At(offset) = "$" /\ q = Len(text)
    /\ \A n \in DOMAIN sink :
         sink[n].end = offset /\ ~LoneDigit(offset - 1) =>
           \A q \in EndsFrom(sink[n].begin) : q <= offset

Spans == reported \cup {[begin |-> sink[n].begin, end |-> sink[n].end] : n \in DOMAIN sink}

\* What a message about a token or a place of the source shows is all of the lines
\* it is about and no other; behind the source that is the last line, although
\* the arithmetic to get there wraps (SourceSpan::wrap, find, line).
MessagesShowTheirLine ==
  Ended =>
    \A span \in Spans :
      LET last == IF span.end > span.begin THEN span.end - 1 ELSE span.begin
          shown == Wrap(text, span)
          starts == LineStarts(text) \cup {0}
      IN  /\ shown.begin \in {s \in starts : s <= span.begin}
          /\ shown.end \in {s \in starts : s > last} \cup {Len(text)}
          /\ \A s \in starts : /\ s <= span.begin => s <= shown.begin
                               /\ s > last => s >= shown.end
=============================================================================
