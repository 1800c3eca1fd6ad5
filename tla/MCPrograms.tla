----------------------------- MODULE MCPrograms -----------------------------
(***************************************************************************)
(* Programs for TLC: one directory, and disks on which the two text files  *)
(* differ.  A character, and the name of a program, is one string.         *)
(***************************************************************************)
EXTENDS Programs, SequencesExt

(* Blocks of two characters: of text, and the start of each program.       *)
TextBlocks == <<<<"a", "a">>, <<"a", "nl">>, <<"nl", "a">>, <<"nl", "nl">>,
                <<" ", "a">>, <<"nl", " ">>>>
Codes == <<"shell", "cat", "ls", "grep", "syserr", "hello", "counter",
           "sigtest", "testprint", "fish", "any">>
Blocks == TextBlocks \o [k \in DOMAIN Codes |-> <<"ELF", Codes[k]>>]

NumberOfBlocks == 17
CharAt == [b \in (0 .. NumberOfBlocks - 1) \X {0, 1} |-> Blocks[b[1] + 1][b[2] + 1]]

BlockOf(code) == 5 + (CHOOSE k \in DOMAIN Codes : Codes[k] = code)
File(length, blocks) ==
  [length |-> length,
   data_block_num |-> [k \in 0 .. 2 |-> IF k + 1 <= Len(blocks) THEN blocks[k + 1]
                                                               ELSE 0]]

(* Inode 0 is the directory's, 1 and 2 are texts, 3 is a program that may  *)
(* be damaged; the program "any" is longer than a chunk.                   *)
Image(f, g, second) ==
  [n \in 0 .. 3 + Len(Codes) |->
     CASE n = 0 -> File(0, <<>>)
       [] n = 1 -> f
       [] n = 2 -> g
       [] n = 3 -> File(4, <<BlockOf("any"), second>>)
       [] n > 3 -> IF Codes[n - 3] = "any" THEN File(5, <<BlockOf("any"), 1, 2>>)
                   ELSE File(2, <<BlockOf(Codes[n - 3])>>)]

Named(name, type, n) == [filename |-> name, filetype |-> type, inode_num |-> n]

SmallDirectory ==
  <<Named(<<".">>, 1, 0)>>
  \o [k \in DOMAIN Codes |-> Named(<<Codes[k]>>, 2, 3 + k)]
  \o <<Named(<<"rtc">>, 0, 0), Named(<<"f">>, 2, 1), Named(<<"g">>, 2, 2),
       Named(<<"a", "a", "a">>, 2, 5), Named(<<"bad">>, 2, 3)>>

Standard == Image(File(3, <<1, 0>>), File(2, <<0>>), 1)
GrepImages ==
  {Image(File(6, <<b, c, d>>), File(2, <<0>>), 1) : b, c \in 0 .. 3, d \in {0, 1}}
  \cup {Image(File(n, <<b, c>>), File(0, <<>>), 1) : n \in {3, 4}, b, c \in 0 .. 2}
FishImages ==
  {Image(File(m, <<b, c>>), File(n, <<d, e>>), 1) :
     m \in {3}, n \in {0, 2, 4}, b \in {0, 4}, c \in {1, 2},
     d \in {1, 4}, e \in {2, 5}}
Damaged == Image(File(4, <<0, -1>>), File(2, <<99>>), 99)
TriedImages == {Image(File(3, <<1, 0>>), File(2, <<b>>), b) : b \in {2, 99}}
AllImages == {Standard, Damaged} \cup TriedImages \cup GrepImages \cup FishImages

Up(n, S) == UNION {[1 .. k -> S] : k \in 0 .. n}
Words(names) == {<<name>> : name \in names}

StandardCommands ==
  Up(3, {"cat", "f", " "}) \cup Up(5, {"a", " "})
  \cup Words({"ls", "syserr", "hello", "counter", "testprint", "exit", "shell",
              "grep", "sigtest"})
  \cup {<<"sigtest", " ", "1">>, <<"sigtest", " ", "a">>, <<"cat", " ", "rtc">>,
        <<"cat", " ", ".">>, <<"cat", " ", "f", " ">>}

InnerCommands == {<<"hello">>, <<"cat", " ", "f">>, <<"exit">>, <<"shell">>}

SmallTyped(image, shell) ==
  IF shell > 0 THEN InnerCommands
  ELSE IF image = Standard THEN StandardCommands
  ELSE IF image = Damaged
    THEN {<<"cat", " ", "f">>, <<"cat", " ", "g">>, <<"grep", " ", "a">>, <<"bad">>}
  ELSE IF image \in TriedImages THEN {<<"any">>, <<"any", " ", "a", "a">>}
  ELSE IF image \in GrepImages
    THEN {<<"grep", " ", "a", "a">>, <<"cat", " ", "f">>}
  ELSE {<<"fish">>}

SmallAnswers ==
  {<<d, "nl">> : d \in {"0", "1", "2", "3", "4", "5", "6", "7", "8"}}
  \cup {<<"nl">>, <<"a", "nl">>, <<"1", "2", "nl">>}
Digits == <<"1", "2", "3", "4", "5", "6", "7", "8">>
TestChoice ==
  [c \in {Digits[k] : k \in 1 .. 8} \cup {"0"} |->
     IF c = "0" THEN 1 .. 8 ELSE {k \in 1 .. 8 : Digits[k] = c}]
Limits == [c \in {"0", "1", "2"} |-> CASE c = "0" -> 1 [] c = "1" -> 10 [] c = "2" -> 12]

Wrong == <<<<"hello", "o">>, <<"a", "a">>, <<>>>>
Frames == <<<<"f">>, <<"g">>>>
MarkPlace == <<0, 1>>
Exit == <<"exit">>
Shell0 == <<"shell">>
Rtc == <<"rtc">>
Sizes == {-1, 0, 2}
Tries == {<<".">>, <<"f">>, <<"rtc">>, <<"a", "a">>}
TryRuns == {<<"bad">>, <<"testprint">>}
=============================================================================
