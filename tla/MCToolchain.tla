---------------------------- MODULE MCToolchain ----------------------------
(***************************************************************************)
(* Invocations, sources and program files for TLC. Every scenario belongs  *)
(* to one of the groups below; the groups ask different questions.         *)
(***************************************************************************)
EXTENDS Toolchain, SequencesExt

CONSTANTS MaxWords, MaxCharacters, MaxCommentCharacters, MaxNumberCharacters,
          MaxLines, MaxInstructions

MCNames ==
  {"nop", "set", "jmp", "mov", "shr", "cid", "ctr", "nad", "if", "begin", "end",
   "nz", "nbe", "junk", "loop"}

MCLabelName == [address \in Address |-> "l_" \o ToString(address)]

UpTo(n, S) == UNION {[1..k -> S] : k \in 0..n}

NoFiles == [path \in {} |-> <<>>]
Scenario(invocations, sources, images) ==
  [invocations |-> invocations, texts |-> sources, files |-> images]
At1(path, content) == [p \in {path} |-> content]

(***************************************************************************)
(* Command lines of every kind of word, with no file in reach.             *)
(***************************************************************************)
Words ==
  {<<>>, <<"-">>, <<"-", "-">>, <<"p">>, <<"-", "I">>, <<"-", "I", "p">>,
   <<"-", "I", "=", "p">>, <<"-", "x", "I">>, <<"-", "x", "r">>, <<"-", "a">>,
   <<"-", "h">>, <<"-", "O">>, <<"-", "-", "hex">>, <<"-", "-", "output">>,
   <<"-", "-", "output", "=", "p">>, <<"-", "-", "input", "=">>,
   <<"-", "-", "hex", "=", "p">>, <<"-", "-", "p">>, <<"-", "d">>}

CommandLines ==
  {Scenario(<<line>>, NoFiles, NoFiles) : line \in UpTo(MaxWords, Words)}

(***************************************************************************)
(* Short sources of every kind of character, longer ones of comments and   *)
(* of numbers.                                                             *)
(***************************************************************************)
Characters ==
  {"nop", "e", "x", "b", "o", "_", "0", "1", "7", "9", "$", ",", ":", ".", "'",
   "\"", "\\", "/", "*", "\n", " ", ";"}

ShortSources ==
  UpTo(MaxCharacters, Characters) \cup UpTo(MaxCommentCharacters, {"/", "*", "\n", "e"})
    \cup UpTo(MaxNumberCharacters, {"0", "x", "'"})

Tokenizations ==
  {Scenario(<< << <<"-", "a", "I", "s">> >> >>, At1(<<"s">>, source), NoFiles) :
     source \in ShortSources}

(***************************************************************************)
(* Sources of whole lines: assembled over an older file, listed and run.   *)
(***************************************************************************)
Set(number) == <<"set", " ", "$", "0", "3", ",", " ">> \o number \o <<"\n">>

SourceLines ==
  {<<"nop", "//", "e", "\n">>,
   <<"/", "*", "\n", "/", "*", "*", "/", "*", "/", "nop", ";">>,
   <<"/", "*", "/", "*", "*", "/", "e", "\n">>,
   <<"loop", ":">>,
   <<"c", ".", "jmp", " ", "loop", "\n">>,
   <<"junk", "\n">>,
   <<"$", "1", "1", "\n">>,
   <<"\"", "e", "\"", "\n">>,
   <<"if", " ", "nbe", " ", "begin", "\n", "mov", " ", "$", "1", ",", "$", "2", "\n",
     "end", "\n">>,
   <<"nz", ".", "shr", "$", ",", "2", "\n">>,
   <<"cid", " ", "0", "o", "1", "7", ";", "ctr", "$", "1", ",", "3", "\n">>,
   Set(<<"0", "x", "1", "F">>), Set(<<"0", "b", "1", "0">>), Set(<<"2", "5", "6">>),
   Set(<<"7", "7", "7", "7", "7">>), Set(<<"1", "'", "0">>), Set(<<"0", "x">>)}

Old == Bytes(<<[op |-> "nop", cond |-> "t", args |-> <<>>]>>)
OldFiles ==
  [path \in {<<"o">>, <<"o", ".hex">>} |-> IF path = <<"o">> THEN Old ELSE HexText(Old)]

AssembleRaw == << <<"-", "a", "I", "s">>, <<"-", "O", "o">> >>
AssembleHex == << <<"-", "a", "x", "I", "s">>, <<"-", "O", "o">> >>
ListRaw == << <<"-", "d", "I", "o">> >>
ListHex == << <<"-", "d", "x", "I">>, <<"o", ".hex">> >>
RunRaw == << <<"-", "r", "I", "o">> >>
RunHex == << <<"-", "r", "x", "I">>, <<"o", ".hex">> >>
RunSource == << <<"-", "a", "r", "I", "s">> >>

Sessions ==
  {<<AssembleRaw, ListRaw, RunRaw>>, <<AssembleHex, ListHex, RunHex>>,
   <<AssembleHex, RunRaw>>, <<RunSource>>}

Assemblies ==
  {Scenario(session, At1(<<"s">>, FlattenSeq(lines)), OldFiles) :
     session \in Sessions, lines \in UpTo(MaxLines, SourceLines)}

(***************************************************************************)
(* Program files from elsewhere, as bytes and as hex text.                 *)
(***************************************************************************)
Encodings ==
  {<<16 * op + 15, 3, 2>> : op \in 0..15} \cup {<<16 * op, 1, 0>> : op \in {0, 5, 12}}
    \cup {<<85, 0, 1>>, <<84, 0, 1>>, <<93, 0, 0>>, <<82, 0, 1>>}

Images ==
  {FlattenSeq(parts) : parts \in UpTo(MaxInstructions, Encodings)} \cup {<<0>>, <<31, 1, 2, 0>>}

HexTexts ==
  {HexText(Bytes(<<>>)), <<97>>, <<49, 102, 48, 49, 48, 97>>, <<49, 103, 49, 102, 32, 48, 49, 48>>,
   <<32, 49, 70, 48, 51, 10, 48, 50>>}

Loads ==
  {Scenario(<<ListRaw, RunRaw>>, NoFiles, At1(<<"o">>, image)) : image \in Images}
    \cup {Scenario(<<ListHex, RunHex>>, NoFiles, At1(<<"o", ".hex">>, chars)) : chars \in HexTexts}

MCScenarios == CommandLines \cup Tokenizations \cup Assemblies \cup Loads
=============================================================================
