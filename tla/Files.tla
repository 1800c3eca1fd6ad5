-------------------------------- MODULE Files --------------------------------
(***************************************************************************)
(* The system calls of a program other than its writes to the screen: the  *)
(* read-only file system of file_system.c, the descriptors, the command    *)
(* that execute parses, the program it loads and the arguments it leaves   *)
(* for getargs.                                                            *)
(*                                                                         *)
(* The image is data: inodes that name data blocks anywhere on the disk,   *)
(* which nobody writes.  A byte is known by the place it has there, a      *)
(* filename is a sequence of characters.  The processes are those of one   *)
(* terminal, each executed by the one below it; all others wait while the  *)
(* last one runs, so that a call is one step.                              *)
(***************************************************************************)
EXTENDS Integers, Sequences

CONSTANTS
  NProcess,      \* the pids one terminal can get
  Directory,     \* direntries of the boot block, a sequence
  Images,        \* the inode tables an image may have
  Disk,          \* the character at each place
  Magic, Space,  \* the first character of an executable, a blank
  ShellName,     \* what the scheduler executes for a new terminal
  NameLen,       \* FILENAME_LEN: 32
  BlockSize,     \* BLOCK_BYTE_SIZE: 4096
  InodeBlocks,   \* the slots of data_block_num: 1023
  DataBlocks,    \* data_blocks_num
  Width,         \* the values of file_pos: 2^32
  FdTop,         \* descriptors end here: 8
  ChunkSize      \* FILE_BUF_SIZE: 64

ASSUME FileAssumption ==
  /\ {NProcess, NameLen, BlockSize, InodeBlocks, DataBlocks, Width, ChunkSize}
       \subseteq Nat \ {0}
  /\ (InodeBlocks + 1) * BlockSize < Width
  /\ Len(Directory) < Width
  /\ FdTop \in Nat

(* The image has the form that the tools of the file system give it: every *)
(* inode is one block of numbers, no file is longer than its slots and no  *)
(* name longer than its field.                                             *)
(* That the numbers are those of blocks on the disk is not assumed.        *)
Inode(node) ==
  /\ node.length \in 0 .. InodeBlocks * BlockSize
  /\ node.data_block_num \in [0 .. InodeBlocks - 1 -> Int]

ASSUME ImageAssumption ==
  /\ Len(Directory) \in Nat /\ DOMAIN Directory = 1 .. Len(Directory)
  /\ \E k \in DOMAIN Directory : Directory[k].filename = ShellName
  /\ \A k \in DOMAIN Directory :
       /\ Directory[k].filetype \in 0 .. 2
       /\ Directory[k].filename \in Seq(STRING)
       /\ Len(Directory[k].filename) <= NameLen
  /\ \A image \in Images :
       /\ \A n \in DOMAIN image : Inode(image[n])
       /\ {0} \cup {Directory[k].inode_num : k \in DOMAIN Directory} \subseteq DOMAIN image

Process == 0 .. NProcess - 1
Fd == 2 .. FdTop - 1
Byte == (0 .. DataBlocks - 1) \X (0 .. BlockSize - 1)

VARIABLES
  inode,      \* inode_ptr: the length and the blocks of each file
  running,    \* the process that runs: the last of the terminal's
  fdarray,    \* fdarray of each PCB, with what closed entries keep
  args,       \* args_array of each PCB
  memory,     \* the program image of each process
  program,    \* the inode it was loaded from
  mapped,     \* the process whose image is at 128 MB
  reply       \* the value and the data that each process's last call gave it

vars == <<inode, running, fdarray, args, memory, program, mapped, reply>>

-----------------------------------------------------------------------------
(* read_data *)

Valid(b) == b \in 0 .. DataBlocks - 1

Done(bytes) == [count |-> Len(bytes), bytes |-> bytes]
Error(bytes) == [count |-> -1, bytes |-> bytes]

(* Its loop: slot and place are data_block_num_idx and data_block_offset. *)
Loop(node, length) ==
  LET step[s \in [offset : Nat, slot : Nat, place : Nat, buf : Seq(Nat \X Nat)]] ==
        LET over == s.place = BlockSize
            slot == IF over THEN s.slot + 1 ELSE s.slot
            place == IF over THEN 0 ELSE s.place
            block == node.data_block_num[slot]
        IN  IF s.offset >= node.length \/ Len(s.buf) >= length THEN Done(s.buf)
            ELSE IF ~Valid(block) THEN Error(s.buf)
            ELSE step[[offset |-> s.offset + 1,
                       slot |-> slot,
                       place |-> place + 1,
                       buf |-> Append(s.buf, <<block, place>>)]]
  IN  step

(* The block of the first byte is checked also where the file ends. *)
ReadData(node, offset, length) ==
  LET slot == offset \div BlockSize IN
  IF slot >= InodeBlocks THEN Done(<<>>)
  ELSE IF ~Valid(node.data_block_num[slot]) THEN Error(<<>>)
  ELSE Loop(node, length)[[offset |-> offset, slot |-> slot,
                           place |-> offset % BlockSize, buf |-> <<>>]]

(* Mutant of CopyProgramImage: only one chunk. *)
CopyFirstChunk(node) == ReadData(node, 0, ChunkSize)

(* copy_program_image reads chunk after chunk until a read returns 0. *)
CopyProgramImage(node) ==
  LET load[image \in Seq(Nat \X Nat)] ==
        LET r == ReadData(node, Len(image), ChunkSize) IN
        IF r.count = -1 THEN Error(image)
        ELSE IF r.count = 0 THEN Done(image)
        ELSE load[image \o r.bytes]
  IN  load[<<>>]

(* read_dentry_by_name finds the first entry of the name. *)
Known(name) ==
  Len(name) <= NameLen /\ \E k \in DOMAIN Directory : Directory[k].filename = name

Lookup(name) ==
  LET hit == {k \in DOMAIN Directory : Directory[k].filename = name} IN
  Directory[CHOOSE k \in hit : \A j \in hit : k <= j]

-----------------------------------------------------------------------------
(* The end of a call: what the caller finds in eax and in its buffer. *)

NoReply == [call |-> <<>>, value |-> 0, data |-> <<>>]

Return(call, value, data) ==
  reply' = [reply EXCEPT
              ![running] = [call |-> call, value |-> value, data |-> data]]

Fail(call) ==
  /\ Return(call, -1, <<>>)
  /\ UNCHANGED <<inode, running, fdarray, args, memory, program, mapped>>

OnlyReturn(call, value, data) ==
  /\ Return(call, value, data)
  /\ UNCHANGED <<inode, running, fdarray, args, memory, program, mapped>>

SetsDescriptor(fd, entry) ==
  /\ fdarray' = [fdarray EXCEPT ![running][fd] = entry]
  /\ UNCHANGED <<inode, running, args, memory, program, mapped>>

(* system_call_linkage refuses a number that is not in its table, and      *)
(* set_handler and sigreturn refuse every call.                            *)
Refused == Fail(<<"other">>)

-----------------------------------------------------------------------------
(* Descriptors.  0 and 1 are the terminal's for ever.                      *)

Entry(fd) == fdarray[running][fd]
Active(fd) == fd \in Fd /\ Entry(fd).flags = 1

Fops(filetype) == CASE filetype = 0 -> "rtc_fops"
                    [] filetype = 1 -> "dir_fops"
                    [] filetype = 2 -> "file_fops"

(* Mutant of Open: file_pos is not reset. *)
OpenKeepsPosition(name) ==
  LET free == {fd \in Fd : Entry(fd).flags = 0}
      call == <<"open", name>>
  IN \/ (free = {} \/ ~Known(name)) /\ Fail(call)
     \/ /\ Known(name)
        /\ \E fd \in free :
             /\ \A other \in free : fd <= other
             /\ SetsDescriptor(fd, [flags |-> 1,
                                    fops |-> Fops(Lookup(name).filetype),
                                    inode_num |-> Lookup(name).inode_num,
                                    file_pos |-> Entry(fd).file_pos])
             /\ Return(call, fd, <<>>)

Open(name) ==
  LET free == {fd \in Fd : Entry(fd).flags = 0}
      call == <<"open", name>>
  IN \/ free = {} /\ Fail(call)
     \/ ~Known(name) /\ Fail(call)
     \/ /\ Known(name)
        /\ \E fd \in free :
             /\ \A other \in free : fd <= other
             /\ SetsDescriptor(fd, [flags |-> 1,
                                    fops |-> Fops(Lookup(name).filetype),
                                    inode_num |-> Lookup(name).inode_num,
                                    file_pos |-> 0])
             /\ Return(call, fd, <<>>)

(* terminal_read gives a line of the keyboard's. *)
ReadLine(line) == OnlyReturn(<<"other">>, Len(line), line)

(* Mutant of FileRead: file_pos is not kept to its width. *)
FileReadSigned(fd, nbytes) ==
  LET f == Entry(fd)
      r == ReadData(inode[f.inode_num], f.file_pos, nbytes)
  IN /\ f.fops = "file_fops"
     /\ SetsDescriptor(fd, [f EXCEPT !.file_pos = @ + r.count])
     /\ Return(<<"read", fd, nbytes>>, r.count, r.bytes)

(* file_read adds whatever read_data returns, also -1, to file_pos. *)
FileRead(fd, nbytes) ==
  LET f == Entry(fd)
      r == ReadData(inode[f.inode_num], f.file_pos, nbytes)
  IN /\ f.fops = "file_fops"
     /\ SetsDescriptor(fd, [f EXCEPT !.file_pos = (@ + r.count) % Width])
     /\ Return(<<"read", fd, nbytes>>, r.count, r.bytes)

(* directory_read, by way of read_dentry_by_index. *)
DirectoryRead(fd, nbytes) ==
  LET f == Entry(fd)
      k == f.file_pos + 1
      call == <<"read", fd, nbytes>>
  IN /\ f.fops = "dir_fops"
     /\ IF k \in DOMAIN Directory
          THEN LET name == Directory[k].filename
                   read == IF nbytes < Len(name) THEN nbytes ELSE Len(name)
               IN /\ SetsDescriptor(fd, [f EXCEPT !.file_pos = k])
                  /\ Return(call, read, SubSeq(name, 1, read))
          ELSE OnlyReturn(call, 0, <<>>)

(* rtc_read waits for an interrupt. *)
RtcRead(fd, nbytes) ==
  /\ Entry(fd).fops = "rtc_fops"
  /\ OnlyReturn(<<"read", fd, nbytes>>, 0, <<>>)

Read(fd, nbytes) ==
  \/ ~(Active(fd) /\ nbytes >= 0) /\ Fail(<<"read", fd, nbytes>>)
  \/ /\ Active(fd) /\ nbytes >= 0
     /\ FileRead(fd, nbytes) \/ DirectoryRead(fd, nbytes) \/ RtcRead(fd, nbytes)

(* rtc_write takes a frequency up to 1024 Hz; file_write and               *)
(* directory_write always fail.                                            *)
Write(fd, frequency) ==
  LET call == <<"write", fd>> IN
  \/ ~Active(fd) /\ Fail(call)
  \/ /\ Active(fd)
     /\ IF Entry(fd).fops = "rtc_fops" /\ frequency \in 1 .. 1024
          THEN OnlyReturn(call, 0, <<>>)
          ELSE Fail(call)

(* Mutant of Close: the flag is not looked at. *)
CloseUnchecked(fd) ==
  LET call == <<"close", fd>> IN
  \/ fd \notin Fd /\ Fail(call)
  \/ /\ fd \in Fd
     /\ SetsDescriptor(fd, [Entry(fd) EXCEPT !.flags = 0])
     /\ Return(call, 0, <<>>)

Close(fd) ==
  LET call == <<"close", fd>> IN
  \/ ~Active(fd) /\ Fail(call)
  \/ /\ Active(fd)
     /\ SetsDescriptor(fd, [Entry(fd) EXCEPT !.flags = 0])
     /\ Return(call, 0, <<>>)

(* vidmap: the address must be one of the program's. *)
Vidmap(inside) ==
  IF inside THEN OnlyReturn(<<"other">>, 0, <<>>) ELSE Fail(<<"other">>)

-----------------------------------------------------------------------------
(* Commands *)

(* Mutant of ParseLoop: the blank becomes part of the arguments. *)
ParseKeepsBlank(command) ==
  LET step[s \in [parse : 0 .. Len(command), name : Seq(STRING),
                  arguments : Seq(STRING), argflag : BOOLEAN]] ==
        LET c == command[s.parse + 1] IN
        IF s.parse = Len(command) THEN s
        ELSE IF c = Space \/ s.argflag
          THEN step[[s EXCEPT !.argflag = TRUE, !.parse = @ + 1,
                              !.arguments = Append(@, c)]]
        ELSE IF s.parse + 1 = NameLen
          THEN [s EXCEPT !.name = Append(@, c)]
        ELSE step[[s EXCEPT !.name = Append(@, c), !.parse = @ + 1]]
  IN  step

(* The loop of execute: parse counts the characters seen. *)
ParseLoop(command) ==
  LET step[s \in [parse : 0 .. Len(command), name : Seq(STRING),
                  arguments : Seq(STRING), argflag : BOOLEAN]] ==
        LET c == command[s.parse + 1] IN
        IF s.parse = Len(command) THEN s
        ELSE IF c = Space /\ ~s.argflag
          THEN step[[s EXCEPT !.argflag = TRUE, !.parse = @ + 1]]
        ELSE IF s.argflag
          THEN step[[s EXCEPT !.arguments = Append(@, c), !.parse = @ + 1]]
        ELSE IF s.parse + 1 = NameLen
          THEN [s EXCEPT !.name = Append(@, c)]
        ELSE step[[s EXCEPT !.name = Append(@, c), !.parse = @ + 1]]
  IN  step

Parse(command) ==
  ParseLoop(command)[[parse |-> 0, name |-> <<>>, arguments |-> <<>>,
                      argflag |-> FALSE]]

(* The magic number and the entry point can be read. *)
Executable(node) ==
  LET elf == ReadData(node, 0, 1) IN
  /\ elf.count = 1
  /\ ReadData(node, 1, 1).count = 1
  /\ Disk[elf.bytes[1]] = Magic

Fresh(descriptors) == [fd \in Fd |-> [descriptors[fd] EXCEPT !.flags = 0]]

(* A program that cannot be read to its end is found out only when its PCB *)
(* is made and its memory is mapped.                                       *)
Execute(command) ==
  LET c == Parse(command)
      node == inode[Lookup(c.name).inode_num]
      image == CopyProgramImage(node)
      new == running + 1
      call == <<"execute">>
  IN \/ /\ ~(new \in Process /\ Known(c.name) /\ Executable(node))
        /\ Fail(call)
     \/ /\ new \in Process /\ Known(c.name) /\ Executable(node)
        /\ fdarray' = [fdarray EXCEPT ![new] = Fresh(@)]
        /\ memory' = [memory EXCEPT ![new] = image.bytes]
        /\ program' = [program EXCEPT ![new] = Lookup(c.name).inode_num]
        /\ mapped' = new
        /\ IF image.count = -1
             THEN /\ args' = [args EXCEPT ![new] = <<>>]
                  /\ Return(call, -1, <<>>)
                  /\ UNCHANGED running
             ELSE /\ args' = [args EXCEPT ![new] = c.arguments]
                  /\ Return(call, 0, <<>>)
                  /\ running' = new
        /\ UNCHANGED inode

(* getargs tests the byte behind what it has copied: where the arguments   *)
(* fill the buffer that is a byte of the caller's, of any value.           *)
GetArgs(nbytes) ==
  LET text == args[running]
      call == <<"other">>
  IN \/ (text = <<>> \/ nbytes < 1) /\ Fail(call)
     \/ text # <<>> /\ nbytes \in 1 .. Len(text) /\ Fail(call)
     \/ /\ text # <<>> /\ nbytes >= 1
        /\ Return(call, 0, SubSeq(text, 1, IF nbytes < Len(text) THEN nbytes
                                                                ELSE Len(text)))
        /\ args' = [args EXCEPT ![running] = <<>>]
        /\ UNCHANGED <<inode, running, fdarray, memory, program, mapped>>

(* Mutant of Halt: the whole status is returned. *)
HaltWholeStatus(status) ==
  /\ running > 0
  /\ running' = running - 1
  /\ mapped' = running - 1
  /\ fdarray' = [fdarray EXCEPT ![running] = Fresh(@)]
  /\ reply' = [reply EXCEPT
       ![running] = NoReply,
       ![running - 1] = [call |-> <<"execute">>, value |-> status, data |-> <<>>]]
  /\ args' = [args EXCEPT ![running] = <<>>]
  /\ memory' = [memory EXCEPT ![running] = <<>>]
  /\ program' = [program EXCEPT ![running] = 0]
  /\ UNCHANGED inode

(* halt closes every descriptor but 0 and 1; the caller's execute returns  *)
(* the status.  What the process leaves in its pages is not kept: execute  *)
(* writes it anew.                                                         *)
Halt(status) ==
  /\ running > 0
  /\ running' = running - 1
  /\ mapped' = running - 1
  /\ fdarray' = [fdarray EXCEPT ![running] = Fresh(@)]
  /\ reply' = [reply EXCEPT
       ![running] = NoReply,
       ![running - 1] = [call |-> <<"execute">>, value |-> status % 256, data |-> <<>>]]
  /\ args' = [args EXCEPT ![running] = <<>>]
  /\ memory' = [memory EXCEPT ![running] = <<>>]
  /\ program' = [program EXCEPT ![running] = 0]
  /\ UNCHANGED inode

(* The base shell is only started again. *)
HaltBase == running = 0 /\ UNCHANGED vars

Unused == [flags |-> 0, fops |-> "none", inode_num |-> 0, file_pos |-> 0]

Init ==
  /\ inode \in Images
  /\ running = 0
  /\ mapped = 0
  /\ fdarray = [p \in Process |-> [fd \in Fd |-> Unused]]
  /\ args = [p \in Process |-> <<>>]
  /\ program = [p \in Process |->
                  IF p = 0 THEN Lookup(ShellName).inode_num ELSE 0]
  /\ memory = [p \in Process |->
                 IF p = 0 THEN CopyProgramImage(inode[program[0]]).bytes ELSE <<>>]
  /\ reply = [p \in Process |-> NoReply]

-----------------------------------------------------------------------------
(* Properties *)

Descriptor ==
  [flags : {0, 1},
   fops : {"none", "rtc_fops", "dir_fops", "file_fops"},
   inode_num : {Directory[k].inode_num : k \in DOMAIN Directory} \cup {0},
   file_pos : 0 .. Width - 1]

TypeOK ==
  /\ running \in Process
  /\ fdarray \in [Process -> [Fd -> Descriptor]]
  /\ memory \in [Process -> Seq(Byte)]
  /\ program \in [Process -> DOMAIN inode]
  /\ mapped \in Process
  /\ DOMAIN args = Process /\ DOMAIN reply = Process

(* What a file holds, by its length and its blocks in their order. *)
Content(node) ==
  [k \in 1 .. node.length |->
     <<node.data_block_num[(k - 1) \div BlockSize], (k - 1) % BlockSize>>]

(* The blocks of the file are on the disk, and the slots behind them are 0 *)
(* as in the images of the file system's tools.                            *)
Sound(node) == \A slot \in 0 .. InodeBlocks - 1 : Valid(node.data_block_num[slot])

ObjectOf(fops, number) == IF fops = "file_fops" THEN <<fops, number>> ELSE <<fops>>

ContentOf(object) ==
  CASE object[1] = "rtc_fops" -> [kind |-> "rtc", items |-> <<>>, sound |-> TRUE]
    [] object[1] = "dir_fops" ->
         [kind |-> "directory", sound |-> TRUE,
          items |-> [k \in DOMAIN Directory |-> Directory[k].filename]]
    [] object[1] = "file_fops" ->
         [kind |-> "file", sound |-> Sound(inode[object[2]]),
          items |-> Content(inode[object[2]])]

ObjectNamed ==
  [name \in {Directory[k].filename : k \in DOMAIN Directory} |->
     ObjectOf(Fops(Lookup(name).filetype), Lookup(name).inode_num)]
Object == {ObjectNamed[name] : name \in DOMAIN ObjectNamed}

NotOpen == [object |-> <<>>, pos |-> 0]

Stream ==
  INSTANCE Streams WITH
    Closed  <- NotOpen,
    Object  <- ObjectNamed,
    content <- [object \in Object |-> ContentOf(object)],
    fds     <- [p \in Process |-> [fd \in Fd |->
                  IF fdarray[p][fd].flags = 0 THEN NotOpen
                  ELSE [object |-> ObjectOf(fdarray[p][fd].fops,
                                            fdarray[p][fd].inode_num),
                        pos |-> fdarray[p][fd].file_pos]]],
    reply   <- [p \in Process |->
                  IF reply[p].call \in {<<>>, <<"other">>, <<"execute">>}
                    THEN NoReply ELSE reply[p]]

(* Whatever a program opens, reads, closes or leaves to halt, in whatever  *)
(* order and sizes, with whatever wrong descriptors and names in between:  *)
(* it is served as Streams promises.                                       *)
ImplementsStreams == Stream!Spec

(* execute runs nothing but the whole program, and returns to a caller     *)
(* that sees its own image, as long as no program on the disk is damaged.  *)
LoadsProgram ==
  (\A k \in DOMAIN inode : Sound(inode[k])) =>
    /\ mapped = running
    /\ \A p \in 0 .. running : memory[p] = Content(inode[program[p]])
=============================================================================
