------------------------------ MODULE Programs ------------------------------
(***************************************************************************)
(* A session on one terminal: the shell, the programs it executes and the  *)
(* system calls of Files.  A step is one system call with what the program *)
(* does between its return and the next one; a print is part of a step,    *)
(* since a write to descriptor 1 never fails.  What a program prints is a  *)
(* sequence of lines, or of the pieces in which it comes; messages are     *)
(* left out where an exit status tells as much.                            *)
(*                                                                         *)
(* The code of a process is named by the character at the entry point of   *)
(* the image that execute has loaded.                                      *)
(***************************************************************************)
EXTENDS Files, FiniteSets

CONSTANTS
  Typed(_, _),   \* the commands typed on an image to the shell of a process
  Answers,       \* the lines typed to a program that asks
  Newline, Dot, One,   \* characters
  ExitWord,      \* "exit"
  RtcName,       \* "rtc"
  Frame,         \* the names of fish's two files
  Mark,          \* the place of fish's mark: row 6, column 20
  BufSize,       \* BUFSIZE: 1024
  CountTo,       \* how far counter counts for each character
  Choice,        \* the tests that syserr runs for each character
  Foreign,       \* the wrong names that syserr tries
  TryCalls,      \* a bound: how many calls "any" makes in a session
  TryNames, TrySizes, TryCommands   \* what it tries

(* Lines and commands are sequences of characters, and no character of the *)
(* disk, which may be a program's name, is that of a place inside one.     *)
ASSUME SessionAssumption ==
  /\ BufSize \in Nat \ {0} /\ FdTop > 2
  /\ TrySizes \subseteq Int
  /\ \A choice \in DOMAIN CountTo : CountTo[choice] \in Nat
  /\ Newline \in STRING
  /\ TryCommands \subseteq Seq(STRING)
  /\ \A image \in Images, p \in Process : Typed(image, p) \subseteq Seq(STRING)
  /\ \A place \in Byte :
       /\ Disk[place] \in STRING
       /\ Disk[place] \notin {"shell.run", "shell.status", "grep.scan"}

(* The directory has an entry for itself, and names are not empty.         *)
ASSUME DirectoryAssumption ==
  /\ Known(<<Dot>>) /\ Lookup(<<Dot>>).filetype = 1
  /\ \A k \in DOMAIN Directory : Directory[k].filename # <<>>

VARIABLES
  pc,      \* where each process is: its program and the last call it made
  local,   \* its variables
  out,     \* what it has printed
  tries    \* the calls that "any" has made

session == <<pc, local, out, tries>>

Blank == [text |-> <<>>, name |-> <<>>, data |-> <<>>, fd |-> -1, file |-> -1,
          high |-> 0, k |-> 0, count |-> [t \in 1 .. 8 |-> 0]]

InitSession ==
  /\ Init
  /\ pc = [p \in Process |-> IF p = 0 THEN "shell" ELSE "none"]
  /\ local = [p \in Process |-> Blank]
  /\ out = [p \in Process |-> <<>>]
  /\ tries = 0

-----------------------------------------------------------------------------
(* The parts of a step *)

At(label) == pc[running] = label
Me == local[running]
Result == reply[running].value
Data == reply[running].data

(* The characters that a read has put into the buffer. *)
Text(fd) == IF Entry(fd).fops = "file_fops"
              THEN [k \in DOMAIN Data |-> Disk[Data[k]]]
              ELSE Data

Go(label, new) ==
  /\ pc' = [pc EXCEPT ![running] = label]
  /\ local' = [local EXCEPT ![running] = new]

Prints(pieces) == out' = [out EXCEPT ![running] = @ \o pieces]
Then(label, new) == Go(label, new) /\ UNCHANGED out

(* _start halts with what main returns, of which halt takes the low byte.  *)
Quit(pieces, status) ==
  /\ Halt(status)
  /\ pc' = [pc EXCEPT ![running] = "none"]
  /\ local' = [local EXCEPT ![running] = Blank]
  /\ Prints(pieces)

(* A new process starts at the entry point of its image. *)
Run(command, label) ==
  /\ Execute(command)
  /\ local' = [local EXCEPT ![running].text = command]
  /\ LET new == running' IN
     IF new = running
       THEN /\ pc' = [pc EXCEPT ![running] = label]
            /\ UNCHANGED out
       ELSE /\ pc' = [pc EXCEPT ![running] = label,
                                ![new] = Disk[memory'[new][2]]]
            /\ out' = [out EXCEPT ![new] = <<>>]

(* What main returns when the call it made last has failed. *)
ExitOnError(label) ==
  CASE label \in {"cat.open", "cat.write", "ls.write", "sigtest.handlers",
                  "grep.list", "grep.name", "grep.file", "grep.scan",
                  "grep.close"} -> 3
    [] label \in {"cat.read", "ls.read", "grep.directory"} -> 2
    [] label \in {"fish.rtc", "fish.file2", "fish.start"} -> -1

CallFailed ==
  /\ Result = -1
  /\ pc[running] \in
       {"cat.open", "cat.read", "cat.write", "ls.read", "ls.write",
        "grep.list", "grep.directory", "grep.name", "grep.file", "grep.scan",
        "grep.close", "sigtest.handlers", "fish.rtc", "fish.file2", "fish.start"}
  /\ Quit(<<>>, ExitOnError(pc[running]))

-----------------------------------------------------------------------------
(* shell *)

Prompt ==
  /\ At("shell")
  /\ \E command \in Typed(inode, running) : ReadLine(Append(command, Newline))
  /\ Go("shell.run", [Me EXCEPT !.text = <<>>])
  /\ out' = [p \in Process |-> IF p < running THEN out[p] ELSE <<>>]

Obey ==
  /\ At("shell.run")
  /\ LET command == SubSeq(Data, 1, Len(Data) - 1) IN
     \/ command = ExitWord /\ Quit(<<>>, 0)
     \/ command = ExitWord /\ HaltBase /\ Then("shell", Me)
     \/ command = <<>> /\ UNCHANGED vars /\ Then("shell", Me)
     \/ command \notin {ExitWord, <<>>} /\ Run(command, "shell.status")

Verdict(status) ==
  CASE status = 0 -> <<>>
    [] status = -1 -> <<"no such command">>
    [] status = 256 -> <<"program terminated by exception">>
    [] status \notin {-1, 0, 256} -> <<"program terminated abnormally">>

Report ==
  /\ At("shell.status")
  /\ UNCHANGED vars
  /\ Prints(Verdict(Result))
  /\ Go("shell", Me)

Shell == Prompt \/ Obey \/ Report

-----------------------------------------------------------------------------
(* cat and ls *)

Cat ==
  \/ At("cat") /\ GetArgs(BufSize) /\ Then("cat.open", Me)
  \/ At("cat.open") /\ Result = 0 /\ Open(Data) /\ Then("cat.read", Me)
  \/ /\ At("cat.read") /\ Result # -1
     /\ Read(Result, BufSize)
     /\ Then("cat.write", [Me EXCEPT !.fd = Result])
  \/ At("cat.write") /\ Result = 0 /\ Quit(<<>>, 0)
  \/ /\ At("cat.write") /\ Result > 0
     /\ Prints(Text(Me.fd))
     /\ Read(Me.fd, BufSize)
     /\ Go("cat.write", Me)

Ls ==
  \/ At("ls") /\ Open(<<Dot>>) /\ Then("ls.read", Me)
  \/ /\ At("ls.read") /\ Result # -1
     /\ Read(Result, NameLen)
     /\ Then("ls.write", [Me EXCEPT !.fd = Result])
  \/ At("ls.write") /\ Result = 0 /\ Quit(<<>>, 0)
  \/ /\ At("ls.write") /\ Result > 0
     /\ Prints(<<Data>>)
     /\ Read(Me.fd, NameLen)
     /\ Go("ls.write", Me)

-----------------------------------------------------------------------------
(* grep *)

HasString(line, s) ==
  \E k \in 0 .. Len(line) - Len(s) : SubSeq(line, k + 1, k + Len(s)) = s

(* The inner loop of do_one_file: the lines to report, and what is copied  *)
(* down to be completed by the next read.  stale: the byte behind the last *)
(* one that was read happens to be a newline.                              *)
Scan(data, cnt, s, stale) ==
  LET last == Len(data)
      scan[x \in [start : 0 .. last, found : Seq(Seq(STRING))]] ==
        LET ends == {k \in x.start + 1 .. last : data[k] = Newline}
            end == IF ends = {} THEN last
                   ELSE (CHOOSE k \in ends : \A j \in ends : k <= j) - 1
            line == SubSeq(data, x.start + 1, end)
            report == IF HasString(line, s) THEN Append(x.found, line) ELSE x.found
        IN  IF ends = {} /\ ~stale /\ cnt # 0 /\ x.start # 0
              THEN [found |-> x.found, rest |-> line]
            ELSE IF end + 1 >= last THEN [found |-> report, rest |-> <<>>]
            ELSE scan[[start |-> end + 1, found |-> report]]
  IN  scan[[start |-> 0, found |-> <<>>]]

(* do_one_file after a read.  data is filled by the reads and, behind them, *)
(* by what the stack held; high bytes of it have been written.  The byte    *)
(* behind the last one read is looked at, and then written, only if the     *)
(* last line has no end.                                                    *)
GrepScan ==
  /\ At("grep.scan") /\ Result # -1
  /\ \E stale \in BOOLEAN :
       LET data == Me.data \o Text(Me.file)
           s == Scan(data, Result, Me.text, stale)
           open == \A k \in DOMAIN data : k = Len(data) => data[k] # Newline
           filled == IF open THEN Len(data) + 1 ELSE Len(data)
           beyond == stale /\ Len(data) = BufSize
           new == [Me EXCEPT !.data = s.rest,
                             !.high = IF filled < @ THEN @ ELSE filled,
                             !.k = IF beyond THEN 1 ELSE @]
       IN /\ stale => open /\ Len(data) >= Me.high
          /\ Prints([k \in DOMAIN s.found |-> <<Me.name, s.found[k]>>])
          /\ IF Result = 0
               THEN Close(Me.file) /\ Go("grep.close", new)
               ELSE Read(Me.file, BufSize - Len(s.rest)) /\ Go("grep.scan", new)

Grep ==
  \/ At("grep") /\ GetArgs(BufSize) /\ Then("grep.list", Me)
  \/ /\ At("grep.list") /\ Result = 0
     /\ Open(<<Dot>>)
     /\ Then("grep.directory", [Me EXCEPT !.text = Data])
  \/ /\ At("grep.directory") /\ Result # -1
     /\ Read(Result, NameLen)
     /\ Then("grep.name", [Me EXCEPT !.fd = Result])
  \/ At("grep.name") /\ Result = 0 /\ Quit(<<>>, 0)
  \/ /\ At("grep.name") /\ Result > 0 /\ Data[1] = Dot
     /\ Read(Me.fd, NameLen)
     /\ Then("grep.name", Me)
  \/ /\ At("grep.name") /\ Result > 0 /\ Data[1] # Dot
     /\ Open(Data)
     /\ Then("grep.file", [Me EXCEPT !.name = Data])
  \/ /\ At("grep.file") /\ Result # -1
     /\ Read(Result, BufSize)
     /\ Then("grep.scan", [Me EXCEPT !.file = Result, !.data = <<>>, !.high = 0])
  \/ GrepScan
  \/ /\ At("grep.close") /\ Result # -1
     /\ Read(Me.fd, NameLen)
     /\ Then("grep.name", Me)

-----------------------------------------------------------------------------
(* syserr: the calls of each test, in the order of test 0 *)

Tagged(t, calls) == [k \in DOMAIN calls |-> <<t>> \o calls[k]]

Calls ==
  Tagged(1, <<<<"read", -1>>, <<"write", -1>>, <<"close", -1>>>>)
  \o Tagged(2, <<<<"read", FdTop>>, <<"write", FdTop>>, <<"close", FdTop>>>>)
  \o Tagged(3, [k \in 1 .. FdTop - 1 |-> <<"open", <<Dot>>>>])
  \o Tagged(3, [k \in 1 .. FdTop - 2 |-> <<"close", k + 1>>])
  \o Tagged(4, [k \in DOMAIN Foreign |-> <<"open", Foreign[k]>>])
  \o Tagged(5, [k \in 1 .. FdTop |-> <<"close", k - 1>>])
  \o Tagged(5, [k \in 1 .. FdTop - 2 |-> <<"read", k + 1>>])
  \o Tagged(5, [k \in 1 .. FdTop - 2 |-> <<"write", k + 1>>])
  \o Tagged(6, <<<<"vidmap">>, <<"vidmap">>>>)
  \o Tagged(7, <<<<"write", 0>>, <<"read", 1>>>>)
  \o Tagged(8, <<<<"number">>, <<"number">>, <<"number">>>>)

Counted(call) == <<call[1], call[2]>> # <<3, "close">>

(* A test passes if this many of its calls fail. *)
Expected(t) ==
  IF t = 3 THEN 1 ELSE Len(SelectSeq(Calls, LAMBDA c : c[1] = t))

Perform(c) ==
  \/ c[2] = "read" /\ Read(c[3], BufSize)
  \/ c[2] = "write" /\ Write(c[3], 0)
  \/ c[2] = "close" /\ Close(c[3])
  \/ c[2] = "open" /\ Open(c[3])
  \/ c[2] = "vidmap" /\ Vidmap(FALSE)
  \/ c[2] = "number" /\ Refused

Plan(tests) == SelectSeq(Calls, LAMBDA c : c[1] \in tests)

SysErr ==
  \/ /\ At("syserr")
     /\ \E line \in Answers : ReadLine(line)
     /\ Then("syserr.choose", Me)
  \/ At("syserr.choose") /\ Data[1] \notin DOMAIN Choice /\ Quit(<<>>, 0)
  \/ /\ At("syserr.choose") /\ Data[1] \in DOMAIN Choice
     /\ Perform(Plan(Choice[Data[1]])[1])
     /\ Then("syserr.call", [Me EXCEPT !.data = Plan(Choice[Data[1]]), !.k = 1])
  \/ /\ At("syserr.call")
     /\ LET done == Me.data[Me.k]
            new == [Me EXCEPT
                      !.k = @ + 1,
                      !.count[done[1]] =
                        IF Result = -1 /\ Counted(done) THEN @ + 1 ELSE @]
            tests == {t \in 1 .. 8 : \E k \in DOMAIN Me.data : Me.data[k][1] = t}
            failed == {t \in tests : new.count[t] # Expected(t)}
        IN IF Me.k < Len(Me.data)
             THEN Perform(Me.data[Me.k + 1]) /\ Then("syserr.call", new)
             ELSE Quit(<<>>, 2 * Cardinality(failed))

-----------------------------------------------------------------------------
(* hello, testprint, counter and sigtest *)

Hello ==
  \/ /\ At("hello")
     /\ \E line \in Answers : ReadLine(line)
     /\ Then("hello.name", Me)
  \/ At("hello.name") /\ Quit(<<"Hello, ", Data>>, 0)
  \/ At("testprint") /\ Quit(<<"Yay!">>, 0)

(* Mutant of Itoa: strrev is forgotten. *)
ItoaReversed(value, radix) ==
  LET low[n \in Nat] == IF n = 0 THEN <<>> ELSE <<n % radix>> \o low[n \div radix]
  IN  IF value = 0 THEN <<0>> ELSE low[value]

(* itoa puts the lowest digit first and turns the string round. *)
Itoa(value, radix) ==
  LET low[n \in Nat] == IF n = 0 THEN <<>> ELSE <<n % radix>> \o low[n \div radix]
      digits == low[value]
  IN  IF value = 0 THEN <<0>>
      ELSE [k \in DOMAIN digits |-> digits[Len(digits) + 1 - k]]

WrongChoice == <<>>

Counter ==
  \/ /\ At("counter")
     /\ \E line \in Answers : ReadLine(line)
     /\ Then("counter.count", Me)
  \/ /\ At("counter.count")
     /\ LET wrong == \/ Len(Data) > 2
                     \/ Len(Data) = 2 /\ Data[1] \notin DOMAIN CountTo
            max == IF Data[1] \in DOMAIN CountTo THEN CountTo[Data[1]] ELSE 0
        IN  Quit(IF wrong THEN <<WrongChoice>>
                 ELSE [k \in 1 .. max |-> Itoa(k, 10)], 0)

(* Its handlers are refused, and its write to address 0 is never handled:  *)
(* the exception handler loops.                                            *)
SigTest ==
  \/ At("sigtest") /\ GetArgs(BufSize) /\ Then("sigtest.handlers", Me)
  \/ At("sigtest.handlers") /\ Data # <<>> /\ Data[1] = One /\ Refused
       /\ Then("sigtest.name", Me)
  \/ At("sigtest.handlers") /\ Data # <<>> /\ Data[1] # One /\ UNCHANGED vars
       /\ Then("sigtest.name", Me)
  \/ /\ At("sigtest.name")
     /\ \E line \in Answers : ReadLine(line)
     /\ Then("sigtest.fault", Me)
  \/ At("sigtest.fault") /\ UNCHANGED <<vars, pc, local, out>>

-----------------------------------------------------------------------------
(* fish.  Of its file pair: c the characters it looks at, eof the ends it  *)
(* has seen, row and col where it draws.  out is the list of the places    *)
(* that blink, the newest last: the characters each alternates between,    *)
(* and for how many interrupts it shows either.                            *)

FrameFd(i) == IF i = 1 THEN Me.fd ELSE Me.file
Seen == Me.data
LookAt == <<"fish.look1", "fish.look2", "fish.draw">>
Got == <<"fish.got1", "fish.got2">>

FishOpens ==
  \/ At("fish") /\ Vidmap(TRUE) /\ Then("fish.rtc", Me)
  \/ At("fish.rtc") /\ Result # -1 /\ Open(RtcName) /\ Then("fish.file1", Me)
  \/ /\ At("fish.file1")
     /\ Open(Frame[1])
     /\ Then("fish.file2", [Me EXCEPT !.k = Result])
  \/ /\ At("fish.file2") /\ Result # -1
     /\ Open(Frame[2])
     /\ Then("fish.start", [Me EXCEPT !.fd = Result])
  \/ /\ At("fish.start") /\ Result # -1
     /\ UNCHANGED vars
     /\ Then("fish.look1",
             [Me EXCEPT !.file = Result,
                        !.data = [c |-> <<"0", "0">>, eof |-> <<FALSE, FALSE>>,
                                  row |-> 0, col |-> 0]])

FishReads(i) ==
  \/ /\ At(LookAt[i]) /\ Seen.c[i] # Newline
     /\ Read(FrameFd(i), 1)
     /\ Then(Got[i], Me)
  \/ /\ At(LookAt[i]) /\ Seen.c[i] = Newline
     /\ UNCHANGED vars
     /\ Then(LookAt[i + 1], Me)
  \/ /\ At(Got[i])
     /\ UNCHANGED vars
     /\ Then(LookAt[i + 1],
             IF Result = 0
               THEN [Me EXCEPT !.data.c[i] = Newline, !.data.eof[i] = TRUE]
             ELSE IF Result = 1
               THEN [Me EXCEPT !.data.c[i] = Text(FrameFd(i))[1]]
             ELSE Me)

Shown(c) == IF c = Newline THEN Space ELSE c
FrameLength == <<15, 15>>

FishDraws ==
  /\ At("fish.draw")
  /\ UNCHANGED vars
  /\ LET shown == [i \in 1 .. 2 |-> Shown(Seen.c[i])] IN
     \/ /\ Seen.c = <<Newline, Newline>>
        /\ Then("fish.close1", [Me EXCEPT !.data.col = 0])
     \/ /\ Seen.c # <<Newline, Newline>>
        /\ Prints(IF shown = <<Space, Space>> THEN <<>>
                  ELSE <<[place |-> <<Seen.row, Seen.col>>, chars |-> shown,
                          length |-> FrameLength]>>)
        /\ Go("fish.look1", [Me EXCEPT !.data.col = @ + 1])

(* After each line a file at its end is closed, again if it was before. *)
FishCloses(i) ==
  /\ At(<<"fish.close1", "fish.close2">>[i])
  /\ IF Seen.eof[i] THEN Close(FrameFd(i)) ELSE UNCHANGED vars
  /\ LET new == IF Seen.eof[i] THEN Me ELSE [Me EXCEPT !.data.c[i] = "0"] IN
     IF i = 1 THEN Then("fish.close2", new)
     ELSE Then(IF Seen.eof = <<TRUE, TRUE>> THEN "fish.rate" ELSE "fish.look1",
               [new EXCEPT !.data.row = @ + 1])

(* mp1_find_helper looks through the list from its newest entry on. *)
Entries(list, place) == {k \in DOMAIN list : list[k].place = place}
Newest(list, place) ==
  CHOOSE k \in Entries(list, place) : \A j \in Entries(list, place) : j <= k

(* RTC_SYNC: one place takes over the pace of another. *)
Synced(list, from, to) ==
  IF Entries(list, from) = {} \/ Entries(list, to) = {} THEN list
  ELSE [list EXCEPT ![Newest(list, to)].length = list[Newest(list, from)].length]

(* Mutant of Removed: the search does not stop at the first entry it finds. *)
RemovedOldest(list, place) ==
  LET here == Entries(list, place)
      oldest == CHOOSE k \in here : \A j \in here : k <= j
  IN  IF here = {} THEN list
      ELSE [k \in 1 .. Len(list) - 1 |-> list[IF k < oldest THEN k ELSE k + 1]]

(* RTC_REMOVE *)
Removed(list, place) ==
  IF Entries(list, place) = {} THEN list
  ELSE [k \in 1 .. Len(list) - 1 |->
          list[IF k < Newest(list, place) THEN k ELSE k + 1]]

(* The mark is added, blinks in step with the first place, and is removed. *)
(* A bound: fish waits for one interrupt where the code waits for 100.     *)
FishBlinks ==
  \/ At("fish.rate") /\ Write(Me.k, 32) /\ Then("fish.blink", Me)
  \/ /\ At("fish.blink") /\ Read(Me.k, 4)
     /\ Prints(<<[place |-> Mark, chars |-> <<"I", "M">>, length |-> <<7, 6>>]>>)
     /\ Go("fish.mark", Me)
  \/ /\ At("fish.mark") /\ Read(Me.k, 4)
     /\ out' = [out EXCEPT ![running] = Synced(@, <<0, 0>>, Mark)]
     /\ Go("fish.sync", Me)
  \/ /\ At("fish.sync") /\ Read(Me.k, 4)
     /\ out' = [out EXCEPT ![running] = Removed(@, Mark)]
     /\ Go("fish.remove", Me)
  \/ At("fish.remove") /\ Read(Me.k, 4) /\ Then("fish.close", Me)
  \/ At("fish.close") /\ Close(Me.k) /\ Then("fish.exit", Me)
  \/ At("fish.exit") /\ Quit(<<>>, 0)

Fish == \/ FishOpens \/ FishDraws \/ FishBlinks
        \/ \E i \in 1 .. 2 : FishReads(i) \/ FishCloses(i)

-----------------------------------------------------------------------------
(* A program that makes whatever calls it likes *)

AnyProgram ==
  /\ At("any")
  /\ \/ /\ tries < TryCalls
        /\ tries' = tries + 1
        /\ \/ \E name \in TryNames : Open(name)
           \/ \E fd \in Fd \cup {-1, 1}, n \in TrySizes : Read(fd, n)
           \/ \E fd \in Fd, frequency \in {0, 32} : Write(fd, frequency)
           \/ \E fd \in Fd \cup {0, FdTop} : Close(fd)
           \/ \E n \in TrySizes : GetArgs(n)
        /\ Then("any", Me)
     \/ /\ UNCHANGED tries
        /\ \/ \E command \in TryCommands : Me.text = <<>> /\ Run(command, "any")
           \/ \E status \in {0, -1} : Quit(<<>>, status)

NextSession ==
  \/ AnyProgram
  \/ /\ \/ Shell \/ Cat \/ Ls \/ Grep \/ SysErr \/ Hello \/ Counter \/ SigTest
        \/ Fish \/ CallFailed
     /\ UNCHANGED tries

SpecSession == InitSession /\ [][NextSession]_<<vars, session>>

-----------------------------------------------------------------------------
(* Properties *)

AllSound == \A k \in DOMAIN inode : Sound(inode[k])

(* The first word of a command, and what follows the blank behind it. *)
WordEnd(command) ==
  LET blanks == {k \in DOMAIN command : command[k] = Space} IN
  IF blanks = {} THEN Len(command)
  ELSE (CHOOSE k \in blanks : \A j \in blanks : k <= j) - 1

NameOf(command) ==
  SubSeq(command, 1, IF WordEnd(command) < NameLen THEN WordEnd(command)
                                                   ELSE NameLen)

ArgsOf(command) ==
  IF WordEnd(command) < NameLen
    THEN SubSeq(command, WordEnd(command) + 2, Len(command))
    ELSE <<>>

(* A process runs the program that the first word of its command names,    *)
(* and finds the rest of the line as its arguments: unless the name fills  *)
(* the parser's 32 characters, where execute drops what follows.           *)
CommandParsed ==
  \A p \in Process \ {0} :
    pc[p] \in {"cat", "grep", "sigtest", "any"} /\ p <= running =>
      LET command == local[p - 1].text IN
      /\ program[p] = Lookup(NameOf(command)).inode_num
      /\ pc[p] # "any" => args[p] = ArgsOf(command)

(* The shell complains that there is no such command exactly if the first  *)
(* word names no executable or no pid is left: a status that a program     *)
(* returns, even -1, is never taken for a failed execute.                  *)
ShellReports ==
  At("shell.status") /\ AllSound =>
    LET name == NameOf(Me.text)
        runs == /\ running + 1 \in Process
                /\ Known(name)
                /\ Executable(inode[Lookup(name).inode_num])
    IN (Verdict(Result) = <<"no such command">>) <=> ~runs

(* A program that a shell has executed has ended. *)
Ended(code) ==
  /\ AllSound
  /\ At("shell.status") /\ Result # -1
  /\ Disk[Content(inode[Lookup(NameOf(Me.text)).inode_num])[2]] = code

Printed == out[running + 1]

TextOf(name) ==
  LET entry == Lookup(name)
      places == Content(inode[entry.inode_num])
  IN IF entry.filetype = 2 THEN [k \in DOMAIN places |-> Disk[places[k]]] ELSE <<>>

LinesOf(text) ==
  LET lines[s \in Seq(STRING)] ==
        LET ends == {k \in DOMAIN s : s[k] = Newline}
            end == CHOOSE k \in ends : \A j \in ends : k <= j
        IN IF ends = {} THEN <<s>>
           ELSE <<SubSeq(s, 1, end - 1)>> \o lines[SubSeq(s, end + 1, Len(s))]
  IN lines[text]

(* cat prints the file from its first to its last character, whatever blocks *)
(* it has, if its name is shorter than cat's buffer: see GetArgs.          *)
CatPrints ==
  Ended("cat") /\ Len(ArgsOf(Me.text)) < BufSize =>
    LET name == ArgsOf(Me.text) IN
    IF name = <<>> THEN Result = 3
    ELSE IF ~Known(name) THEN Result = 2
    ELSE /\ Result = 0
         /\ Lookup(name).filetype = 2 => Printed = TextOf(name)

(* ls prints every name of the directory once, in its order. *)
LsPrints ==
  Ended("ls") => Printed = [k \in DOMAIN Directory |-> Directory[k].filename]

(* counter prints the decimal numerals of 1, 2, 3 and so on. *)
Numeral(digits) ==
  LET value[k \in 0 .. Len(digits)] ==
        IF k = 0 THEN 0 ELSE 10 * value[k - 1] + digits[k]
  IN  value[Len(digits)]

CounterCounts ==
  Ended("counter") /\ Printed # <<WrongChoice>> =>
    \A k \in DOMAIN Printed : Numeral(Printed[k]) = k /\ Printed[k][1] # 0

(* What cat, ls and counter have printed when they end.                    *)
PrintsFaithfully == CatPrints /\ LsPrints /\ CounterCounts

(* grep reports, file by file and in their order, the lines that contain   *)
(* the searched text, also those that reads have cut: if no line is longer *)
(* than its buffer, and the byte behind the buffer, which grep looks at    *)
(* before it has written it, is not a newline.                             *)
ShortLines(text) == \A k \in DOMAIN LinesOf(text) : Len(LinesOf(text)[k]) <= BufSize

Matches(name, s) ==
  LET found == SelectSeq(LinesOf(TextOf(name)), LAMBDA line : HasString(line, s))
  IN [k \in DOMAIN found |-> <<name, found[k]>>]

GrepExact ==
  At("grep.name") /\ Result = 0 /\ Me.k = 0 /\ AllSound =>
    LET names == SelectSeq([k \in DOMAIN Directory |-> Directory[k].filename],
                           LAMBDA name : name[1] # Dot)
        all[k \in Nat] == IF k = 0 THEN <<>>
                          ELSE all[k - 1] \o Matches(names[k], Me.text)
    IN (\A k \in DOMAIN names : ShortLines(TextOf(names[k]))) =>
         out[running] = all[Len(names)]

(* fish blinks between the two frames: on its list is, once and at the     *)
(* pace of a frame, each place that is not blank in both, with the         *)
(* characters the two files have at that line and column, whichever file   *)
(* or line ends first.  The mark comes on top and goes again without       *)
(* touching a frame's entry, also one for the same place, and blinks at    *)
(* the pace of the first place if that blinks.                             *)
Picture(i) == LinesOf(TextOf(Frame[i]))
PixelAt(i, r, c) ==
  IF r < Len(Picture(i)) /\ c < Len(Picture(i)[r + 1])
    THEN Picture(i)[r + 1][c + 1] ELSE Space

FramePlaces ==
  LET size == 0 .. InodeBlocks * BlockSize IN
  {x \in size \X size : \E i \in 1 .. 2 : PixelAt(i, x[1], x[2]) # Space}

OnlyFrames(list) ==
  /\ Len(list) = Cardinality(FramePlaces)
  /\ {list[k] : k \in DOMAIN list} =
       {[place |-> x, length |-> FrameLength,
         chars |-> <<PixelAt(1, x[1], x[2]), PixelAt(2, x[1], x[2])>>] :
          x \in FramePlaces}

FishPairs ==
  /\ Ended("fish") /\ Result = 0 => OnlyFrames(Printed)
  /\ At("fish.sync") /\ AllSound =>
       LET list == out[running]
           mark == list[Len(list)]
       IN /\ OnlyFrames(SubSeq(list, 1, Len(list) - 1))
          /\ mark.place = Mark
          /\ <<0, 0>> \in FramePlaces => mark.length = FrameLength

(* grep and fish take files apart into their lines without losing any.     *)
LinesExact == GrepExact /\ FishPairs

(* Whatever a session has done before, each of syserr's eight tests of     *)
(* wrong calls passes.                                                     *)
SysErrPasses == Ended("syserr") => Result = 0
=============================================================================
