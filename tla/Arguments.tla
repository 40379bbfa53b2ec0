------------------------------ MODULE Arguments ------------------------------
(***************************************************************************)
(* The command line (argx): one step for each word of an invocation. A     *)
(* word is a sequence of letters; the long name of an option and a value   *)
(* are one letter each, and no value begins with an option's short name.   *)
(***************************************************************************)
EXTENDS Integers, Sequences, FiniteSets

VARIABLES
  words,                        \* of the invocation, without the program's name
  position,                     \* of the next word
  expect_flag,
  collector,                    \* the option that collects values, or none
  usages, values,               \* of each option
  parse                         \* parsing, rejected, help, parsed

collectorVars == <<position, expect_flag, collector, usages, values, parse>>
argumentVars == <<words, collectorVars>>

(***************************************************************************)
(* The options that main declares.                                         *)
(***************************************************************************)
shortName ==
  [help |-> "h", hex |-> "x", output |-> "O", input |-> "I",
   assemble |-> "a", disassemble |-> "d", run |-> "r"]

options == DOMAIN shortName
valued == {"output", "input"}
reusable == {"help"}

conflicts ==
  [option \in options |->
     CASE option = "assemble" -> {"disassemble"}
       [] option = "disassemble" -> {"output", "assemble", "run"}
       [] option = "run" -> {"output", "disassemble"}
       [] OTHER -> {}]

fallback == [option \in options |-> IF option = "output" THEN <<"a.bin">> ELSE <<>>]

NoUsage == [option \in options |-> 0]
NoValues == [option \in options |-> <<>>]

(***************************************************************************)
(* Words.                                                                  *)
(***************************************************************************)
Dashed(word) == word # <<>> /\ word[1] = "-"

\* A word is split at its first equal sign.
EqualSigns(word) == {i \in DOMAIN word : word[i] = "="}
FirstEqual(word) ==
  CHOOSE i \in EqualSigns(word) : \A j \in EqualSigns(word) : i <= j

Flag(word) ==
  IF EqualSigns(word) = {} THEN word ELSE SubSeq(word, 1, FirstEqual(word) - 1)
Inline(word) ==
  IF EqualSigns(word) = {} THEN <<>> ELSE SubSeq(word, FirstEqual(word) + 1, Len(word))

EndsInEqual(word) == word # <<>> /\ word[Len(word)] = "=" /\ Inline(word) = <<>>

Long(word) == Len(Flag(word)) > 2 /\ Flag(word)[1] = "-" /\ Flag(word)[2] = "-"
Short(word) == ~Long(word) /\ Len(Flag(word)) > 1 /\ Flag(word)[1] = "-"

\* The options that the letters of a short word name, up to the first that takes
\* a value: what follows it is its value.
Letters(word) == Tail(word)
Valued(letter) == \E option \in valued : shortName[option] = letter
Named(word) ==
  LET letters == Letters(word)
      ends == {i \in DOMAIN letters : Valued(letters[i])}
  IN  IF ends = {} THEN letters
      ELSE SubSeq(letters, 1, CHOOSE i \in ends : \A j \in ends : i <= j)
Attached(word) == SubSeq(Letters(word), Len(Named(word)) + 1, Len(Letters(word)))

(***************************************************************************)
(* Reading.                                                                *)
(***************************************************************************)
Reading == parse = "parsing" /\ position <= Len(words)
Argument == words[position]

Collecting == Reading /\ collector # "none" /\ (~expect_flag \/ ~Dashed(Argument))

\* Faulty variant: the next word is taken for a value too.
CollectAll ==
  /\ Collecting
  /\ values' = [values EXCEPT ![collector] = Append(@, Argument)]
  /\ position' = position + 1
  /\ UNCHANGED <<words, expect_flag, collector, usages, parse>>

\* The collector goes on: words without a dash are its values as well.
Collect ==
  /\ Collecting
  /\ values' = [values EXCEPT ![collector] = Append(@, Argument)]
  /\ expect_flag' = TRUE
  /\ position' = position + 1
  /\ UNCHANGED <<words, collector, usages, parse>>

Reject ==
  /\ parse' = "rejected"
  /\ UNCHANGED <<words, position, expect_flag, collector, usages, values>>

UsedTooOften(used) == \E option \in options \ reusable : used[option] > 1

\* An option takes the value its word has for it, if it takes any, and collects
\* the words behind if there is none.
Take(option, value, used) ==
  IF UsedTooOften(used)
  THEN Reject
  ELSE /\ usages' = used
       /\ position' = position + 1
       /\ IF option \in valued /\ value = <<>>
          THEN collector' = option /\ expect_flag' = FALSE /\ UNCHANGED values
          ELSE /\ collector' = "none"
               /\ values' = IF option \in valued
                            THEN [values EXCEPT ![option] = Append(@, value)]
                            ELSE values
               /\ UNCHANGED expect_flag
       /\ UNCHANGED <<words, parse>>

ReadsFlag == Reading /\ ~Collecting /\ ~EndsInEqual(Argument)

ReadLong ==
  /\ ReadsFlag
  /\ Long(Argument)
  /\ LET name == SubSeq(Flag(Argument), 3, Len(Flag(Argument)))
     IN  IF \E option \in options : name = <<option>>
         THEN Take(name[1], Inline(Argument), [usages EXCEPT ![name[1]] = @ + 1])
         ELSE Reject

ReadShort ==
  /\ ReadsFlag
  /\ Short(Argument)
  /\ LET named == Named(Argument)
         times(option) ==
           Cardinality({i \in DOMAIN named : named[i] = shortName[option]})
     IN  IF \A i \in DOMAIN named : \E option \in options : named[i] = shortName[option]
         THEN Take(CHOOSE option \in options : shortName[option] = named[Len(named)],
                   Attached(Argument),
                   [option \in options |-> usages[option] + times(option)])
         ELSE Reject

RejectWord ==
  /\ Reading /\ ~Collecting
  /\ EndsInEqual(Argument) \/ (~Long(Argument) /\ ~Short(Argument))
  /\ Reject

\* Options exclude others, unused ones get their fallback, and help comes last.
Verify ==
  /\ parse = "parsing"
  /\ position > Len(words)
  /\ IF \E one, other \in options :
          usages[one] > 0 /\ usages[other] > 0 /\ other \in conflicts[one]
     THEN Reject
     ELSE /\ parse' = IF usages["help"] > 0 THEN "help" ELSE "parsed"
          /\ values' = [option \in options |->
               IF usages[option] = 0 /\ fallback[option] # <<>>
               THEN <<fallback[option]>> ELSE values[option]]
          /\ UNCHANGED <<words, position, expect_flag, collector, usages>>

ParseArguments == Collect \/ ReadLong \/ ReadShort \/ RejectWord \/ Verify

(***************************************************************************)
(* Properties.                                                             *)
(***************************************************************************)

\* The option that a flag names last, and the value the word itself has for it.
Holder(word) ==
  LET letters == Named(word)
      long == {option \in options : Flag(word) = <<"-", "-", option>>}
      short == {option \in options :
                  letters # <<>> /\ shortName[option] = letters[Len(letters)]}
      named == IF Long(word) THEN long ELSE short
  IN  IF named = {} THEN "none" ELSE CHOOSE option \in named : TRUE
Held(word) == IF Long(word) THEN Inline(word) ELSE Attached(word)

Opens(word, option) == option \in valued /\ Holder(word) = option /\ Held(word) = <<>>

\* A word is a flag if it has a dash and is not the value that the flag directly
\* before it waits for.
FlagWords ==
  LET flag[p \in 0..Len(words)] ==
        /\ p > 0
        /\ Dashed(words[p])
        /\ flag[p - 1] => \A option \in valued : ~Opens(words[p - 1], option)
  IN  {p \in DOMAIN words : flag[p]}

LastFlag(p) == CHOOSE q \in FlagWords : q < p /\ \A r \in FlagWords : r < p => r <= q

\* Whether a word is, or has, a value of an option.
Gives(p, option) ==
  IF p \in FlagWords
  THEN option \in valued /\ Holder(words[p]) = option /\ Held(words[p]) # <<>>
  ELSE (\E q \in FlagWords : q < p) /\ Opens(words[LastFlag(p)], option)

Mentions(word, option) ==
  IF Long(word) THEN Holder(word) = option
  ELSE \E i \in DOMAIN Named(word) : Named(word)[i] = shortName[option]

\* No word is lost, taken twice or given to another option: after an accepted
\* invocation the words, read at once, are flags and their values, and each
\* option holds its own in their order or its fallback (builder::parse).
ArgumentsKept ==
  parse = "parsed" =>
    /\ \A p \in DOMAIN words \ FlagWords : \E option \in valued : Gives(p, option)
    /\ \A option \in options :
         LET given[p \in 0..Len(words)] ==
               CASE p = 0 -> <<>>
                 [] p > 0 /\ ~Gives(p, option) -> given[p - 1]
                 [] OTHER -> Append(given[p - 1],
                                    IF p \in FlagWords THEN Held(words[p]) ELSE words[p])
             used == \E p \in FlagWords : Mentions(words[p], option)
         IN  /\ usages[option] > 0 <=> used
             /\ values[option] = IF ~used /\ fallback[option] # <<>>
                                 THEN <<fallback[option]>> ELSE given[Len(words)]
=============================================================================
