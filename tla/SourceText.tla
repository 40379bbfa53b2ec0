----------------------------- MODULE SourceText -----------------------------
(***************************************************************************)
(* A source and its lines (SourceUnit, SourceSpan), as sequences of        *)
(* characters. Offsets count from 0, lines and columns from 1, and a span  *)
(* is its first offset and the one behind its last.                        *)
(***************************************************************************)
EXTENDS Integers, Sequences, FiniteSets

CONSTANT LineMod        \* line numbers: 2^32 in the code

ASSUME LineAssumption == LineMod \in Nat /\ LineMod > 1

Digits ==
  <<"0", "1", "2", "3", "4", "5", "6", "7", "8", "9", "a", "b", "c", "d", "e", "f">>
Capitals == <<"A", "B", "C", "D", "E", "F">>

\* The digits of a base.
DigitsOf(base) ==
  {Digits[n] : n \in 1..base} \cup {Capitals[n] : n \in 1..base-10}

DigitValue(c) ==
  (CHOOSE n \in 1..16 : Digits[n] = c \/ (n > 10 /\ Capitals[n - 10] = c)) - 1

\* A line starts at the front and behind each new line; an empty source has none.
LineStarts(source) ==
  IF source = <<>> THEN {}
  ELSE {0} \cup {i \in DOMAIN source : source[i] = "\n"}

LineCount(source) == Cardinality(LineStarts(source))

\* The number of the line that holds an offset.
LineNumber(source, p) == Cardinality({s \in LineStarts(source) : s <= p})

LineStart(source, n) ==
  CHOOSE s \in LineStarts(source) : LineNumber(source, s) = n

\* Faulty variant: the first offset behind a line still belongs to it.
FindInclusive(source, p) ==
  LET n == IF p > 0 THEN LineNumber(source, p - 1) ELSE 1
  IN  IF p < Len(source)
      THEN [line |-> n, column |-> p - LineStart(source, n) + 1]
      ELSE [line |-> LineCount(source) + 1, column |-> 1]

\* Offsets behind the source are one line past the last.
Find(source, p) ==
  LET n == LineNumber(source, p)
  IN  IF p < Len(source)
      THEN [line |-> n, column |-> p - LineStart(source, n) + 1]
      ELSE [line |-> LineCount(source) + 1, column |-> 1]

\* A line from a column on, both cut to what there is.
LineFrom(source, line, column) ==
  LET count == LineCount(source)
      n == IF line = 0 THEN 1 ELSE IF line > count THEN count ELSE line
      start == LineStart(source, n)
      end == IF n < count THEN LineStart(source, n + 1) ELSE Len(source)
      skipped == IF column = 0 THEN 0 ELSE column - 1
  IN  IF count = 0 THEN [begin |-> 0, end |-> 0]
      ELSE [begin |-> IF start + skipped > end THEN end ELSE start + skipped,
            end |-> end]

SpanFront(source, span) == Find(source, span.begin)

SpanBack(source, span) ==
  IF span.begin = span.end THEN SpanFront(source, span) ELSE Find(source, span.end - 1)

\* The lines of a span. Behind the source the distance to the last line wraps.
Wrap(source, span) ==
  LET last == SpanBack(source, span).line
      count == LineCount(source)
      down == IF last > count THEN (count - last) % LineMod ELSE 0
  IN  [begin |-> LineFrom(source, SpanFront(source, span).line, 1).begin,
       end |-> LineFrom(source, (last + down) % LineMod, 1).end]
=============================================================================
