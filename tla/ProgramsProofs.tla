---------------------------- MODULE ProgramsProofs ----------------------------
(***************************************************************************)
(* Theorems about the sessions of Programs, for any disk, any commands and *)
(* any answers: the descriptors are the streams that Streams promises, a   *)
(* command is parsed into its words, the shell reports what came of it,    *)
(* and cat, ls and counter print what they should.                         *)
(***************************************************************************)
EXTENDS FilesProofs, FiniteSetTheorems

-----------------------------------------------------------------------------
(* The state of Streams, as Files maps it.                                 *)

Handle(entry) ==
  IF entry.flags = 0 THEN NotOpen
  ELSE [object |-> ObjectOf(entry.fops, entry.inode_num), pos |-> entry.file_pos]

Heard(r) == IF r.call \in {<<>>, <<"other">>, <<"execute">>} THEN NoReply ELSE r

Handles == [p \in Process |-> [fd \in Fd |-> Handle(fdarray[p][fd])]]
Replies == [p \in Process |-> Heard(reply[p])]
Contents == [object \in Object |-> ContentOf(object)]

FreeFds(p) == {fd \in Fd : Handles[p][fd] = NotOpen}
IsHandle(p, fd) == fd \in Fd /\ Handles[p][fd] # NotOpen

Answer(p, value, data) ==
  Replies' = [Replies EXCEPT
                ![p] = [call |-> Replies'[p].call, value |-> value, data |-> data]]

CutOf(seq, first, n) ==
  SubSeq(seq, first, IF first + n - 1 < Len(seq) THEN first + n - 1 ELSE Len(seq))

Takes(p, fd, moved, data) ==
  /\ Handles' = [Handles EXCEPT ![p][fd].pos = @ + moved]
  /\ Answer(p, Len(data), data)

(* Steps of Streams in these words. *)
Opens(p, name) ==
  IF name \notin DOMAIN ObjectNamed \/ FreeFds(p) = {}
    THEN Answer(p, -1, <<>>) /\ UNCHANGED Handles
  ELSE \E fd \in FreeFds(p) :
         /\ \A other \in FreeFds(p) : fd <= other
         /\ Handles' = [Handles EXCEPT
              ![p][fd] = [object |-> ObjectNamed[name], pos |-> 0]]
         /\ Answer(p, fd, <<>>)

ReadsOpen(p, fd, n) ==
  LET object == Contents[Handles[p][fd].object]
      pos == Handles[p][fd].pos
      bytes == CutOf(object.items, pos + 1, n)
  IN \/ object.kind = "file" /\ object.sound /\ Takes(p, fd, Len(bytes), bytes)
     \/ /\ object.kind = "directory"
        /\ IF pos < Len(object.items)
             THEN Takes(p, fd, 1, CutOf(object.items[pos + 1], 1, n))
             ELSE Takes(p, fd, 0, <<>>)
     \/ object.kind = "rtc" /\ Takes(p, fd, 0, <<>>)
     \/ /\ ~object.sound
        /\ Handles' = [Handles EXCEPT ![p][fd].pos = Handles'[p][fd].pos]
        /\ Replies' = [Replies EXCEPT ![p] = Replies'[p]]

Reads(p, fd, n) ==
  IF IsHandle(p, fd) /\ n >= 0 THEN ReadsOpen(p, fd, n)
  ELSE Answer(p, -1, <<>>) /\ UNCHANGED Handles

Writes(p, fd) ==
  \/ Answer(p, -1, <<>>) /\ UNCHANGED Handles
  \/ /\ IsHandle(p, fd)
     /\ Contents[Handles[p][fd].object].kind = "rtc"
     /\ Answer(p, 0, <<>>)
     /\ UNCHANGED Handles

Closes(p, fd) ==
  IF ~IsHandle(p, fd) THEN Answer(p, -1, <<>>) /\ UNCHANGED Handles
  ELSE /\ Handles' = [Handles EXCEPT ![p][fd] = NotOpen]
       /\ Answer(p, 0, <<>>)

Leaves(p) ==
  /\ Handles' = [Handles EXCEPT ![p] = [fd \in Fd |-> NotOpen]]
  /\ \E caller \in Process :
       Replies' = [Replies EXCEPT ![p] = NoReply, ![caller] = NoReply]

LEMMA StreamWords ==
  Stream!Next <=>
    /\ UNCHANGED Contents
    /\ \E p \in Process :
         LET call == Replies'[p].call IN
         \/ call # <<>> /\ call[1] = "open" /\ Opens(p, call[2])
         \/ call # <<>> /\ call[1] = "read" /\ Reads(p, call[2], call[3])
         \/ call # <<>> /\ call[1] = "write" /\ Writes(p, call[2])
         \/ call # <<>> /\ call[1] = "close" /\ Closes(p, call[2])
         \/ call = <<>> /\ Answer(p, 0, <<>>) /\ UNCHANGED Handles
         \/ Leaves(p)
BY DEF Stream!Next, Stream!Open, Stream!Read, Stream!ReadOpen, Stream!Take,
       Stream!Cut, Stream!Write, Stream!Close, Stream!Other, Stream!Exit,
       Stream!Fails, Stream!Reply, Stream!IsOpen, Stream!NoReply,
       Opens, Reads, ReadsOpen, Writes, Closes, Leaves, Takes, CutOf, Answer,
       IsHandle, FreeFds, NoReply, Handles, Replies, Contents, Handle, Heard

LEMMA CallStep ==
  ASSUME UNCHANGED Contents, NEW p \in Process, NEW call, Replies'[p].call = call,
         \/ call # <<>> /\ call[1] = "open" /\ Opens(p, call[2])
         \/ call # <<>> /\ call[1] = "read" /\ Reads(p, call[2], call[3])
         \/ call # <<>> /\ call[1] = "write" /\ Writes(p, call[2])
         \/ call # <<>> /\ call[1] = "close" /\ Closes(p, call[2])
         \/ call = <<>> /\ Answer(p, 0, <<>>) /\ UNCHANGED Handles
         \/ Leaves(p)
  PROVE  Stream!Next
BY StreamWords DEF Opens, Reads, ReadsOpen, Writes, Closes, Leaves, Takes, Answer

-----------------------------------------------------------------------------
(* What a step of Files does to them.                                      *)

(* Open descriptors are of objects in the directory, and a process that    *)
(* does not run has made no call.                                          *)
StreamInv ==
  /\ \A p \in Process, fd \in Fd :
       fdarray[p][fd].flags = 1 =>
         /\ fdarray[p][fd].fops # "none"
         /\ ObjectOf(fdarray[p][fd].fops, fdarray[p][fd].inode_num) \in Object
  /\ \A p \in Process : p > running => reply[p] = NoReply

(* The calls of Streams have other names than the rest. *)
LEMMA CallNames ==
  /\ \A name : /\ <<"open", name>> \notin {<<>>, <<"other">>, <<"execute">>}
               /\ <<"open", name>>[1] = "open" /\ <<"open", name>>[2] = name
  /\ \A fd, n : /\ <<"read", fd, n>> \notin {<<>>, <<"other">>, <<"execute">>}
                /\ <<"read", fd, n>>[1] = "read" /\ <<"read", fd, n>>[2] = fd
                /\ <<"read", fd, n>>[3] = n
  /\ \A fd : /\ <<"write", fd>> \notin {<<>>, <<"other">>, <<"execute">>}
             /\ <<"write", fd>>[1] = "write" /\ <<"write", fd>>[2] = fd
  /\ \A fd : /\ <<"close", fd>> \notin {<<>>, <<"other">>, <<"execute">>}
             /\ <<"close", fd>>[1] = "close" /\ <<"close", fd>>[2] = fd
BY SMT

LEMMA RunningType ==
  ASSUME TypeOK
  PROVE  /\ running \in Process /\ running \in Nat
         /\ fdarray \in [Process -> [Fd -> Descriptor]]
         /\ DOMAIN reply = Process
         /\ \A fd \in Fd : Entry(fd) \in Descriptor
BY SizesAreNat, SMT DEF TypeOK, Process, Entry

(* What its caller hears of a call. *)
LEMMA ReturnSeen ==
  ASSUME TypeOK, NEW call, NEW value, NEW data, Return(call, value, data),
         call \notin {<<>>, <<"other">>, <<"execute">>}
  PROVE  /\ Replies'[running].call = call
         /\ Answer(running, value, data)
<1>1. running \in Process /\ DOMAIN reply = Process
  BY RunningType
<1> DEFINE r == [call |-> call, value |-> value, data |-> data]
<1>2. reply' = [reply EXCEPT ![running] = r]
  BY DEF Return
<1>3. Heard(r) = r
  BY DEF Heard
<1>4. /\ reply'[running] = r
      /\ \A p \in Process : p # running => reply'[p] = reply[p]
  BY <1>1, <1>2
<1>5. Replies' = [p \in Process |-> Heard(reply'[p])]
  BY DEF Replies, Heard
<1>6. Replies' = [Replies EXCEPT ![running] = r]
  <2> HIDE DEF r
  <2> QED
    BY <1>1, <1>3, <1>4, <1>5 DEF Replies
<1>7. Replies'[running] = r
  BY <1>1, <1>3, <1>4, <1>5
<1>8. Replies'[running].call = call
  BY <1>7
<1>9. Replies' = [Replies EXCEPT ![running] =
                    [call |-> Replies'[running].call, value |-> value, data |-> data]]
  <2> HIDE DEF Replies
  <2> QED
    BY <1>6, <1>8, Zenon
<1> QED
  BY <1>8, <1>9 DEF Answer

LEMMA SilentSeen ==
  ASSUME TypeOK, NEW call \in {<<"other">>, <<"execute">>}, NEW value, NEW data,
         Return(call, value, data)
  PROVE  /\ Replies'[running].call = <<>>
         /\ Answer(running, 0, <<>>)
<1>1. running \in Process /\ DOMAIN reply = Process
  BY RunningType
<1> DEFINE r == [call |-> call, value |-> value, data |-> data]
<1>2. reply' = [reply EXCEPT ![running] = r]
  BY DEF Return
<1>3. Heard(r) = NoReply
  BY DEF Heard
<1>4. /\ reply'[running] = r
      /\ \A p \in Process : p # running => reply'[p] = reply[p]
  BY <1>1, <1>2
<1>5. Replies' = [p \in Process |-> Heard(reply'[p])]
  BY DEF Replies, Heard
<1>6. Replies' = [Replies EXCEPT ![running] = NoReply] /\ Replies'[running] = NoReply
  <2> HIDE DEF r
  <2> QED
    BY <1>1, <1>3, <1>4, <1>5 DEF Replies
<1>7. Replies'[running].call = <<>>
  BY <1>6 DEF NoReply
<1>8. Replies' = [Replies EXCEPT ![running] =
                    [call |-> Replies'[running].call, value |-> 0, data |-> <<>>]]
  BY <1>6, <1>7, Zenon DEF NoReply
<1> QED
  BY <1>7, <1>8 DEF Answer

LEMMA EmptyHandle ==
  \A entry : entry.flags # 0 =>
    /\ Handle(entry) # NotOpen
    /\ Handle(entry) = [object |-> ObjectOf(entry.fops, entry.inode_num),
                        pos |-> entry.file_pos]
<1>1. \A fops, number : ObjectOf(fops, number) # <<>>
  BY DEF ObjectOf
<1> QED
  BY <1>1 DEF Handle, NotOpen

LEMMA HandlesOf ==
  ASSUME TypeOK
  PROVE  /\ \A fd : IsHandle(running, fd) <=> Active(fd)
         /\ FreeFds(running) = {fd \in Fd : Entry(fd).flags = 0}
         /\ \A fd \in Fd : Handles[running][fd] = Handle(Entry(fd))
<1>1. running \in Process /\ \A fd \in Fd : Entry(fd).flags \in {0, 1}
  BY RunningType DEF Descriptor
<1>2. \A fd \in Fd : Handles[running][fd] = Handle(Entry(fd))
  BY <1>1 DEF Handles, Entry
<1>3. \A fd \in Fd : Handle(Entry(fd)) = NotOpen <=> Entry(fd).flags = 0
  BY EmptyHandle DEF Handle
<1> QED
  BY <1>1, <1>2, <1>3 DEF IsHandle, Active, FreeFds

LEMMA SetSeen ==
  ASSUME TypeOK, NEW fd \in Fd, NEW entry, SetsDescriptor(fd, entry)
  PROVE  Handles' = [Handles EXCEPT ![running][fd] = Handle(entry)]
<1>1. running \in Process /\ fdarray \in [Process -> [Fd -> Descriptor]]
  BY RunningType
<1>2. fdarray' = [fdarray EXCEPT ![running][fd] = entry]
  BY DEF SetsDescriptor
<1>3. \A p \in Process, g \in Fd :
        fdarray'[p][g] = IF p = running /\ g = fd THEN entry ELSE fdarray[p][g]
  BY <1>1, <1>2
<1>4. Handles' = [p \in Process |-> [g \in Fd |-> Handle(fdarray'[p][g])]]
  BY DEF Handles, Handle
<1>5. \A p \in Process, g \in Fd :
        Handles'[p][g] = IF p = running /\ g = fd THEN Handle(entry)
                                                  ELSE Handles[p][g]
  BY <1>3, <1>4 DEF Handles
<1> DEFINE H == [Handles EXCEPT ![running][fd] = Handle(entry)]
<1>6. \A p \in Process : /\ DOMAIN Handles'[p] = Fd /\ DOMAIN Handles[p] = Fd
  BY <1>4 DEF Handles
<1>7. \A p \in Process : H[p] = Handles'[p]
  BY <1>1, <1>4, <1>5 DEF Handles
<1> QED
  BY <1>4, <1>7 DEF Handles

(* No call changes an object. *)
LEMMA ContentsStay ==
  ASSUME UNCHANGED inode
  PROVE  UNCHANGED Contents
BY DEF Contents, ContentOf

LEMMA ActiveObject ==
  ASSUME TypeOK, StreamInv, NEW fd, Active(fd)
  PROVE  LET f == Entry(fd)
             object == Contents[Handles[running][fd].object]
         IN /\ Handles[running][fd].pos = f.file_pos
            /\ f.fops \in {"rtc_fops", "dir_fops", "file_fops"}
            /\ f.fops = "rtc_fops" => object.kind = "rtc"
            /\ f.fops = "dir_fops" =>
                 /\ object.kind = "directory"
                 /\ object.items =
                      [k \in DOMAIN Directory |-> Directory[k].filename]
            /\ f.fops = "file_fops" =>
                 /\ object.kind = "file"
                 /\ object.sound = Sound(inode[f.inode_num])
                 /\ object.items = Content(inode[f.inode_num])
<1> DEFINE f == Entry(fd)
           o == ObjectOf(f.fops, f.inode_num)
<1>1. /\ running \in Process /\ fd \in Fd /\ f \in Descriptor
      /\ f.flags = 1 /\ f = fdarray[running][fd]
  BY RunningType DEF Active, Entry
<1>2. f.fops # "none" /\ o \in Object
  BY <1>1 DEF StreamInv
<1>3. f.fops \in {"rtc_fops", "dir_fops", "file_fops"}
  BY <1>1, <1>2 DEF Descriptor
<1>4. Handles[running][fd] = Handle(f)
  BY <1>1, HandlesOf
<1>5. Handles[running][fd] = [object |-> o, pos |-> f.file_pos]
  BY <1>1, <1>4, EmptyHandle
<1>6. Contents[Handles[running][fd].object] = ContentOf(o)
  BY <1>2, <1>5 DEF Contents
<1>7. f.fops = "rtc_fops" => ContentOf(o).kind = "rtc"
  BY DEF ContentOf, ObjectOf
<1>8. f.fops = "dir_fops" =>
        /\ ContentOf(o).kind = "directory"
        /\ ContentOf(o).items = [k \in DOMAIN Directory |-> Directory[k].filename]
  BY DEF ContentOf, ObjectOf
<1>9. f.fops = "file_fops" =>
        /\ ContentOf(o).kind = "file"
        /\ ContentOf(o).sound = Sound(inode[f.inode_num])
        /\ ContentOf(o).items = Content(inode[f.inode_num])
  BY DEF ContentOf, ObjectOf
<1> QED
  BY <1>3, <1>5, <1>6, <1>7, <1>8, <1>9

(* A name that the directory has is not too long to be found. *)
LEMMA NamesKnown == \A name : name \in DOMAIN ObjectNamed <=> Known(name)
BY ImageAssumption DEF ObjectNamed, Known

LEMMA OpenSeen ==
  ASSUME TypeOK, NEW name, Open(name)
  PROVE  Stream!Next
<1> DEFINE call == <<"open", name>>
<1>1. /\ running \in Process
      /\ FreeFds(running) = {fd \in Fd : Entry(fd).flags = 0}
  BY RunningType, HandlesOf
<1>2. UNCHANGED Contents
  BY ContentsStay DEF Open, Fail, SetsDescriptor
<1>3. Opens(running, name) /\ Replies'[running].call = call
  <2>1. CASE (FreeFds(running) = {} \/ ~Known(name)) /\ Fail(call)
    <3>1. Replies'[running].call = call /\ Answer(running, -1, <<>>)
      BY <2>1, ReturnSeen, CallNames DEF Fail
    <3>2. UNCHANGED Handles
      BY <2>1 DEF Fail, Handles, Handle
    <3> QED
      BY <2>1, <3>1, <3>2, NamesKnown DEF Opens
  <2>2. CASE /\ Known(name)
             /\ \E fd \in FreeFds(running) :
                  /\ \A other \in FreeFds(running) : fd <= other
                  /\ SetsDescriptor(fd, [flags |-> 1,
                                         fops |-> Fops(Lookup(name).filetype),
                                         inode_num |-> Lookup(name).inode_num,
                                         file_pos |-> 0])
                  /\ Return(call, fd, <<>>)
    <3> DEFINE entry == [flags |-> 1, fops |-> Fops(Lookup(name).filetype),
                         inode_num |-> Lookup(name).inode_num, file_pos |-> 0]
    <3>1. PICK fd \in FreeFds(running) :
            /\ \A other \in FreeFds(running) : fd <= other
            /\ SetsDescriptor(fd, entry)
            /\ Return(call, fd, <<>>)
      BY <2>2
    <3>2. Replies'[running].call = call /\ Answer(running, fd, <<>>)
      BY <3>1, ReturnSeen, CallNames
    <3>3. Handles' = [Handles EXCEPT ![running][fd] = Handle(entry)]
      <4> HIDE DEF entry
      <4> QED
        BY <1>1, <3>1, SetSeen
    <3>4. name \in DOMAIN ObjectNamed
      BY <2>2, NamesKnown
    <3>5. Handle(entry) = [object |-> ObjectNamed[name], pos |-> 0]
      BY <3>4, EmptyHandle DEF ObjectNamed
    <3>6. /\ Handles' = [Handles EXCEPT
               ![running][fd] = [object |-> ObjectNamed[name], pos |-> 0]]
          /\ ~(name \notin DOMAIN ObjectNamed \/ FreeFds(running) = {})
      BY <3>1, <3>3, <3>4, <3>5
    <3> QED
      BY <3>1, <3>2, <3>6, Zenon DEF Opens, Answer
  <2> QED
    BY <1>1, <2>1, <2>2 DEF Open
<1> QED
  BY <1>1, <1>2, <1>3, CallStep, CallNames

LEMMA CloseSeen ==
  ASSUME TypeOK, NEW fd, Close(fd)
  PROVE  Stream!Next
<1> DEFINE call == <<"close", fd>>
<1>1. running \in Process /\ (IsHandle(running, fd) <=> Active(fd))
  BY RunningType, HandlesOf
<1>2. UNCHANGED Contents
  BY ContentsStay DEF Close, Fail, SetsDescriptor
<1>3. Closes(running, fd) /\ Replies'[running].call = call
  <2>1. CASE ~Active(fd)
    <3>1. Fail(call)
      BY <2>1 DEF Close
    <3>2. Replies'[running].call = call /\ Answer(running, -1, <<>>)
      BY <3>1, ReturnSeen, CallNames DEF Fail
    <3>3. UNCHANGED Handles
      BY <3>1 DEF Fail, Handles, Handle
    <3> QED
      BY <1>1, <2>1, <3>2, <3>3 DEF Closes
  <2>2. CASE Active(fd)
    <3> DEFINE entry == [Entry(fd) EXCEPT !.flags = 0]
    <3>1. SetsDescriptor(fd, entry) /\ Return(call, 0, <<>>) /\ fd \in Fd
      BY <2>2 DEF Close, Active
    <3>2. Replies'[running].call = call /\ Answer(running, 0, <<>>)
      BY <3>1, ReturnSeen, CallNames
    <3>3. Handle(entry) = NotOpen
      BY <3>1, RunningType DEF Handle, Descriptor
    <3>4. Handles' = [Handles EXCEPT ![running][fd] = NotOpen]
      <4> HIDE DEF entry
      <4> QED
        BY <3>1, <3>3, SetSeen
    <3> QED
      BY <1>1, <2>2, <3>2, <3>4 DEF Closes
  <2> QED
    BY <2>1, <2>2
<1> QED
  BY <1>1, <1>2, <1>3, CallStep, CallNames

LEMMA WriteSeen ==
  ASSUME TypeOK, StreamInv, NEW fd, NEW frequency, Write(fd, frequency)
  PROVE  Stream!Next
<1> DEFINE call == <<"write", fd>>
<1>1. running \in Process /\ (IsHandle(running, fd) <=> Active(fd))
  BY RunningType, HandlesOf
<1>2. UNCHANGED Contents /\ UNCHANGED Handles
  BY ContentsStay DEF Write, Fail, OnlyReturn, Handles, Handle
<1>3. Writes(running, fd) /\ Replies'[running].call = call
  <2>1. CASE Fail(call)
    <3>1. Replies'[running].call = call /\ Answer(running, -1, <<>>)
      BY <2>1, ReturnSeen, CallNames DEF Fail
    <3> QED
      BY <1>2, <3>1 DEF Writes
  <2>2. CASE ~Fail(call)
    <3>1. Active(fd) /\ Entry(fd).fops = "rtc_fops" /\ OnlyReturn(call, 0, <<>>)
      BY <2>2 DEF Write
    <3>2. Replies'[running].call = call /\ Answer(running, 0, <<>>)
      BY <3>1, ReturnSeen, CallNames DEF OnlyReturn
    <3>3. Contents[Handles[running][fd].object].kind = "rtc"
      BY <3>1, ActiveObject
    <3> QED
      BY <1>1, <1>2, <3>1, <3>2, <3>3 DEF Writes
  <2> QED
    BY <2>1, <2>2
<1> QED
  BY <1>1, <1>2, <1>3, CallStep, CallNames

LEMMA NamesInOrder ==
  LET names == [k \in DOMAIN Directory |-> Directory[k].filename]
  IN /\ names \in Seq(Seq(STRING))
     /\ Len(names) = Len(Directory) /\ Len(Directory) \in Nat
     /\ DOMAIN Directory = 1 .. Len(Directory)
     /\ \A k \in DOMAIN Directory : names[k] = Directory[k].filename
<1> DEFINE n == Len(Directory)
           names == [k \in 1 .. n |-> Directory[k].filename]
<1>1. n \in Nat /\ DOMAIN Directory = 1 .. n
  BY ImageAssumption
<1>2. \A k \in 1 .. n : Directory[k].filename \in Seq(STRING)
  BY <1>1, ImageAssumption
<1>3. names \in Seq(Seq(STRING)) /\ Len(names) = n
  <2> HIDE DEF n
  <2> QED
    BY <1>1, <1>2, SMT
<1> QED
  BY <1>1, <1>3

LEMMA CutType ==
  ASSUME NEW S, NEW seq \in Seq(S), NEW n \in Nat
  PROVE  LET read == IF n < Len(seq) THEN n ELSE Len(seq)
         IN /\ CutOf(seq, 1, n) = SubSeq(seq, 1, read)
            /\ SubSeq(seq, 1, read) \in Seq(S)
            /\ Len(SubSeq(seq, 1, read)) = read
BY SMT DEF CutOf

(* A cut of the file from a position on is the piece that is read there,   *)
(* and the position stays below its width.                                 *)
LEMMA PieceCut ==
  ASSUME NEW node, Inode(node), Sound(node), NEW n \in Nat, NEW pos \in 0 .. Width - 1
  PROVE  /\ CutOf(Content(node), pos + 1, n) = Piece(node, pos, n)
         /\ Piece(node, pos, n) \in Seq(Byte)
         /\ (pos + Len(Piece(node, pos, n))) % Width
              = pos + Len(Piece(node, pos, n))
<1>1. /\ Content(node) \in Seq(Byte) /\ Len(Content(node)) = node.length
      /\ node.length \in Nat /\ pos \in Nat
  BY ContentType, SizesAreNat, SMT
<1>2. node.length < Width
  <2> DEFINE capacity == InodeBlocks * BlockSize
  <2>1. capacity \in Nat /\ capacity + BlockSize < Width
    <3>1. capacity \in Nat /\ (InodeBlocks + 1) * BlockSize = capacity + BlockSize
      BY SizesAreNat, SMT
    <3> QED
      BY <3>1, FileAssumption
  <2>2. node.length \in 0 .. capacity
    BY DEF Inode
  <2> HIDE DEF capacity
  <2> QED
    BY <2>1, <2>2, SizesAreNat, SMT
<1>3. CutOf(Content(node), pos + 1, n) = Piece(node, pos, n)
  <2>1. pos + 1 + n - 1 = pos + n
    BY <1>1, SMT
  <2> QED
    BY <1>1, <2>1 DEF CutOf, Piece
<1> DEFINE last == IF pos + n < node.length THEN pos + n ELSE node.length
           p == SubSeq(Content(node), pos + 1, last)
<1>4. Piece(node, pos, n) = p /\ last \in Nat /\ last <= node.length
  BY <1>1, SMT DEF Piece
<1> HIDE DEF last
<1>5. p \in Seq(Byte) /\ Len(p) = IF pos <= last THEN last - pos ELSE 0
  BY <1>1, <1>4, SMT
<1>6. pos + Len(p) \in Nat /\ pos + Len(p) < Width
  BY <1>1, <1>2, <1>4, <1>5, SizesAreNat, SMT
<1>7. (pos + Len(p)) % Width = pos + Len(p)
  <2>1. \A w \in Nat : \A x \in Nat : x < w => x % w = x
    BY SMT
  <2> QED
    BY <1>6, <2>1, SizesAreNat
<1> QED
  BY <1>3, <1>4, <1>5, <1>7

(* A descriptor that moves. *)
LEMMA MoveSeen ==
  ASSUME TypeOK, NEW fd, Active(fd), NEW pos,
         SetsDescriptor(fd, [Entry(fd) EXCEPT !.file_pos = pos])
  PROVE  /\ Handles' = [Handles EXCEPT ![running][fd].pos = pos]
         /\ Handles'[running][fd].pos = pos
<1> DEFINE f == Entry(fd)
           entry == [f EXCEPT !.file_pos = pos]
<1>1. /\ running \in Process /\ fd \in Fd /\ f \in Descriptor /\ f.flags = 1
  BY RunningType DEF Active
<1>2. Handles' = [Handles EXCEPT ![running][fd] = Handle(entry)]
  <2>1. SetsDescriptor(fd, entry)
    OBVIOUS
  <2> HIDE DEF entry
  <2> QED
    BY <1>1, <2>1, SetSeen
<1>3. /\ entry.flags # 0 /\ entry.fops = f.fops /\ entry.inode_num = f.inode_num
      /\ entry.file_pos = pos
  BY <1>1 DEF Descriptor
<1>4. Handle(entry) = [object |-> ObjectOf(f.fops, f.inode_num), pos |-> pos]
  <2> HIDE DEF entry
  <2> QED
    BY <1>3, EmptyHandle
<1>5. Handles[running][fd] = [object |-> ObjectOf(f.fops, f.inode_num),
                              pos |-> f.file_pos]
  BY <1>1, HandlesOf, EmptyHandle
<1>6. Handle(entry) = [Handles[running][fd] EXCEPT !.pos = pos]
  BY <1>4, <1>5
<1>7. Handles'[running][fd] = Handle(entry)
  <2>1. running \in DOMAIN Handles /\ fd \in DOMAIN Handles[running]
    BY <1>1 DEF Handles
  <2> HIDE DEF entry
  <2> QED
    BY <1>2, <2>1
<1> HIDE DEF entry
<1>8. Handles' = [Handles EXCEPT ![running][fd].pos = pos]
  BY <1>2, <1>6
<1> QED
  BY <1>4, <1>7, <1>8

LEMMA AnswerIsOwn ==
  ASSUME NEW p, NEW value, NEW data, Answer(p, value, data)
  PROVE  p \in DOMAIN Replies => Replies' = [Replies EXCEPT ![p] = Replies'[p]]
BY Zenon DEF Answer

(* A read that neither moves nor finds anything. *)
LEMMA StillSeen ==
  ASSUME TypeOK, StreamInv, NEW fd, Active(fd), NEW n,
         OnlyReturn(<<"read", fd, n>>, 0, <<>>)
  PROVE  Takes(running, fd, 0, <<>>) /\ Replies'[running].call = <<"read", fd, n>>
<1>1. /\ running \in Process /\ fd \in Fd /\ Entry(fd) \in Descriptor
      /\ Entry(fd).flags = 1
  BY RunningType DEF Active
<1>2. /\ Replies'[running].call = <<"read", fd, n>>
      /\ Answer(running, 0, <<>>)
  BY ReturnSeen, CallNames DEF OnlyReturn
<1>3. Len(<<>>) = 0
  BY SMT
<1>4. UNCHANGED Handles
  BY DEF OnlyReturn, Handles, Handle
<1>5. Handles[running][fd] = [object |-> Handles[running][fd].object,
                              pos |-> Handles[running][fd].pos + 0]
  <2>1. Entry(fd).file_pos \in Nat
    BY <1>1, SizesAreNat, SMT DEF Descriptor
  <2>2. Entry(fd).file_pos + 0 = Entry(fd).file_pos
    BY <2>1, SMT
  <2>3. Handles[running][fd] =
          [object |-> ObjectOf(Entry(fd).fops, Entry(fd).inode_num),
           pos |-> Entry(fd).file_pos]
    BY <1>1, HandlesOf, EmptyHandle
  <2> QED
    BY <2>2, <2>3
<1>6. [Handles EXCEPT ![running][fd].pos = @ + 0] = Handles
  <2>1. [Handles[running][fd] EXCEPT !.pos = @ + 0] = Handles[running][fd]
    BY <1>5
  <2>2. /\ Handles = [p \in Process |-> Handles[p]]
        /\ \A p \in Process : Handles[p] = [g \in Fd |-> Handles[p][g]]
    BY DEF Handles
  <2> HIDE DEF Handles
  <2> QED
    BY <1>1, <2>1, <2>2
<1> QED
  BY <1>2, <1>3, <1>4, <1>6 DEF Takes

LEMMA FileReadSeen ==
  ASSUME TypeOK, OnDisk, StreamInv, NEW fd, Active(fd), NEW n \in Nat,
         FileRead(fd, n)
  PROVE  ReadsOpen(running, fd, n) /\ Replies'[running].call = <<"read", fd, n>>
<1> DEFINE f == Entry(fd)
           node == inode[f.inode_num]
           r == ReadData(node, f.file_pos, n)
           object == Contents[Handles[running][fd].object]
           pos == (f.file_pos + r.count) % Width
<1>1. /\ running \in Process /\ fd \in Fd /\ f \in Descriptor
  BY RunningType DEF Active
<1>2. /\ f.inode_num \in DOMAIN inode /\ Inode(node)
      /\ f.file_pos \in 0 .. Width - 1 /\ f.file_pos \in Nat
  BY <1>1, InodesOnDisk, SizesAreNat, SMT DEF Descriptor
<1>3. /\ f.fops = "file_fops"
      /\ SetsDescriptor(fd, [f EXCEPT !.file_pos = (@ + r.count) % Width])
      /\ Return(<<"read", fd, n>>, r.count, r.bytes)
  BY DEF FileRead
<1>4. SetsDescriptor(fd, [f EXCEPT !.file_pos = pos])
  BY <1>1, <1>3 DEF Descriptor
<1>5. /\ object.kind = "file" /\ object.sound = Sound(node)
      /\ object.items = Content(node)
      /\ Handles[running][fd].pos = f.file_pos
  BY <1>3, ActiveObject
<1>6. /\ Handles' = [Handles EXCEPT ![running][fd].pos = pos]
      /\ Handles'[running][fd].pos = pos
  <2> HIDE DEF pos
  <2> QED
    BY <1>4, MoveSeen
<1>7. /\ Replies'[running].call = <<"read", fd, n>>
      /\ Answer(running, r.count, r.bytes)
  BY <1>3, ReturnSeen, CallNames
<1>8. CASE Sound(node)
  <2> DEFINE bytes == CutOf(object.items, Handles[running][fd].pos + 1, n)
             piece == Piece(node, f.file_pos, n)
  <2>1. r = Done(piece)
    BY <1>2, <1>8, ReadDataSound
  <2>2. bytes = piece /\ (f.file_pos + Len(piece)) % Width = f.file_pos + Len(piece)
    BY <1>2, <1>5, <1>8, PieceCut
  <2>3. r.count = Len(bytes) /\ r.bytes = bytes
    BY <2>1, <2>2 DEF Done
  <2>4. pos = Handles[running][fd].pos + Len(bytes)
    BY <1>5, <2>2, <2>3
  <2> HIDE DEF bytes, piece, pos, r
  <2>5. Handles' = [Handles EXCEPT ![running][fd].pos = @ + Len(bytes)]
    BY <1>6, <2>4, Zenon
  <2>6. Takes(running, fd, Len(bytes), bytes)
    BY <1>7, <2>3, <2>5, Zenon DEF Takes, Answer
  <2>7. object.kind = "file" /\ object.sound
        /\ Takes(running, fd, Len(CutOf(object.items, Handles[running][fd].pos + 1, n)),
                 CutOf(object.items, Handles[running][fd].pos + 1, n))
    BY <1>5, <1>8, <2>6 DEF bytes
  <2> QED
    BY <1>7, <2>7 DEF ReadsOpen
<1>9. CASE ~Sound(node)
  <2>1. ~object.sound
    BY <1>5, <1>9
  <2>2. Handles' = [Handles EXCEPT ![running][fd].pos = Handles'[running][fd].pos]
    <3> HIDE DEF pos
    <3> QED
      BY <1>6, Zenon
  <2>3. Replies' = [Replies EXCEPT ![running] = Replies'[running]]
    <3>1. running \in DOMAIN Replies
      BY <1>1 DEF Replies
    <3> QED
      BY <1>7, <3>1, AnswerIsOwn
  <2> QED
    BY <1>7, <2>1, <2>2, <2>3 DEF ReadsOpen
<1> QED
  BY <1>8, <1>9

LEMMA DirectoryReadSeen ==
  ASSUME TypeOK, StreamInv, NEW fd, Active(fd), NEW n \in Nat,
         DirectoryRead(fd, n)
  PROVE  ReadsOpen(running, fd, n) /\ Replies'[running].call = <<"read", fd, n>>
<1> DEFINE f == Entry(fd)
           k == f.file_pos + 1
           names == [j \in DOMAIN Directory |-> Directory[j].filename]
           object == Contents[Handles[running][fd].object]
           at == Handles[running][fd].pos
<1>1. /\ running \in Process /\ fd \in Fd /\ f \in Descriptor
      /\ f.file_pos \in Nat
  BY RunningType, SizesAreNat, SMT DEF Active, Descriptor
<1>2. f.fops = "dir_fops"
  BY DEF DirectoryRead
<1>3. /\ object.kind = "directory" /\ object.items = names /\ at = f.file_pos
  BY <1>2, ActiveObject
<1>4. k \in DOMAIN Directory <=> at < Len(object.items)
  <2>1. /\ Len(names) = Len(Directory) /\ Len(Directory) \in Nat
        /\ DOMAIN Directory = 1 .. Len(Directory)
    BY NamesInOrder
  <2> HIDE DEF f, names, object
  <2> QED
    BY <1>1, <1>3, <2>1, SMT
<1>5. CASE k \in DOMAIN Directory
  <2> DEFINE name == Directory[k].filename
             read == IF n < Len(name) THEN n ELSE Len(name)
             cut == CutOf(object.items[at + 1], 1, n)
  <2>1. SetsDescriptor(fd, [f EXCEPT !.file_pos = k])
    BY <1>5 DEF DirectoryRead
  <2>2. Return(<<"read", fd, n>>, read, SubSeq(name, 1, read))
    BY <1>5 DEF DirectoryRead
  <2>3. object.items[at + 1] = name /\ name \in Seq(STRING)
    BY <1>3, <1>5, ImageAssumption
  <2>4. cut = SubSeq(name, 1, read) /\ Len(SubSeq(name, 1, read)) = read
    BY <2>3, CutType
  <2>5. Handles' = [Handles EXCEPT ![running][fd].pos = k]
    <3> HIDE DEF k
    <3> QED
      BY <2>1, MoveSeen
  <2>6. k = at + 1
    BY <1>3
  <2> HIDE DEF k, at, cut
  <2>7. Handles' = [Handles EXCEPT ![running][fd].pos = @ + 1]
    BY <2>5, <2>6 DEF at
  <2>8. /\ Replies'[running].call = <<"read", fd, n>>
        /\ Answer(running, Len(cut), cut)
    BY <2>2, <2>4, ReturnSeen, CallNames
  <2>9. Takes(running, fd, 1, cut)
    BY <2>7, <2>8 DEF Takes
  <2> QED
    BY <1>3, <1>4, <1>5, <2>8, <2>9 DEF ReadsOpen, at, cut, k
<1>6. CASE k \notin DOMAIN Directory
  <2>1. OnlyReturn(<<"read", fd, n>>, 0, <<>>)
    BY <1>6 DEF DirectoryRead
  <2>2. Takes(running, fd, 0, <<>>) /\ Replies'[running].call = <<"read", fd, n>>
    BY <2>1, <1>1, <1>3, StillSeen
  <2> QED
    BY <1>3, <1>4, <1>6, <2>2 DEF ReadsOpen
<1> QED
  BY <1>5, <1>6

LEMMA RtcReadSeen ==
  ASSUME TypeOK, StreamInv, NEW fd, Active(fd), NEW n \in Nat, RtcRead(fd, n)
  PROVE  ReadsOpen(running, fd, n) /\ Replies'[running].call = <<"read", fd, n>>
<1>1. Entry(fd).fops = "rtc_fops" /\ OnlyReturn(<<"read", fd, n>>, 0, <<>>)
  BY DEF RtcRead
<1>2. Contents[Handles[running][fd].object].kind = "rtc"
  BY <1>1, ActiveObject
<1>3. Takes(running, fd, 0, <<>>) /\ Replies'[running].call = <<"read", fd, n>>
  BY <1>1, StillSeen
<1> QED
  BY <1>2, <1>3 DEF ReadsOpen

LEMMA ReadSeen ==
  ASSUME TypeOK, OnDisk, StreamInv, NEW fd, NEW n \in Int, Read(fd, n)
  PROVE  Stream!Next
<1> DEFINE call == <<"read", fd, n>>
<1>1. running \in Process /\ (IsHandle(running, fd) <=> Active(fd))
  BY RunningType, HandlesOf
<1>2. UNCHANGED Contents
  BY ContentsStay DEF Read, FileRead, DirectoryRead, RtcRead, Fail, OnlyReturn,
                      SetsDescriptor
<1>3. Reads(running, fd, n) /\ Replies'[running].call = call
  <2>1. CASE ~(Active(fd) /\ n >= 0)
    <3>1. Fail(call)
      BY <2>1 DEF Read
    <3>2. Replies'[running].call = call /\ Answer(running, -1, <<>>)
      BY <3>1, ReturnSeen, CallNames DEF Fail
    <3>3. UNCHANGED Handles
      BY <3>1 DEF Fail, Handles, Handle
    <3> QED
      BY <1>1, <2>1, <3>2, <3>3 DEF Reads
  <2>2. CASE Active(fd) /\ n >= 0
    <3>1. n \in Nat
      BY <2>2, SMT
    <3>2. FileRead(fd, n) \/ DirectoryRead(fd, n) \/ RtcRead(fd, n)
      BY <2>2 DEF Read
    <3>3. ReadsOpen(running, fd, n) /\ Replies'[running].call = call
      BY <2>2, <3>1, <3>2, FileReadSeen, DirectoryReadSeen, RtcReadSeen
    <3> QED
      BY <1>1, <2>2, <3>3 DEF Reads
  <2> QED
    BY <2>1, <2>2
<1> QED
  BY <1>1, <1>2, <1>3, CallStep, CallNames

(* A call of which Streams says nothing. *)
LEMMA OtherSeen ==
  ASSUME TypeOK, UNCHANGED <<inode, fdarray>>,
         NEW call \in {<<"other">>, <<"execute">>}, NEW value, NEW data,
         Return(call, value, data)
  PROVE  Stream!Next
<1>1. running \in Process
  BY RunningType
<1>2. UNCHANGED Contents /\ UNCHANGED Handles
  BY ContentsStay DEF Handles, Handle
<1>3. Replies'[running].call = <<>> /\ Answer(running, 0, <<>>)
  BY SilentSeen
<1> QED
  BY <1>1, <1>2, <1>3, CallStep

(* A process that begins or ends, and the one that executed it. *)
LEMMA LeaveSeen ==
  ASSUME TypeOK, UNCHANGED inode, NEW p \in Process, NEW caller \in Process,
         fdarray' = [fdarray EXCEPT ![p] = Fresh(@)],
         Heard(reply'[p]) = NoReply, Heard(reply'[caller]) = NoReply,
         \A q \in Process \ {p, caller} : reply'[q] = reply[q]
  PROVE  Stream!Next
<1>1. fdarray \in [Process -> [Fd -> Descriptor]]
  BY RunningType
<1>2. \A fd \in Fd : fdarray'[p][fd].flags = 0
  BY <1>1 DEF Fresh, Descriptor
<1>3. \A fd \in Fd : Handle(fdarray'[p][fd]) = NotOpen
  BY <1>2 DEF Handle
<1>4. \A q \in Process \ {p} : fdarray'[q] = fdarray[q]
  BY <1>1
<1>5. Handles' = [q \in Process |-> [fd \in Fd |-> Handle(fdarray'[q][fd])]]
  BY DEF Handles, Handle
<1>6. Handles' = [Handles EXCEPT ![p] = [fd \in Fd |-> NotOpen]]
  <2>1. \A q \in Process : Handles'[q] = IF q = p THEN [fd \in Fd |-> NotOpen]
                                                  ELSE Handles[q]
    BY <1>3, <1>4, <1>5 DEF Handles
  <2>2. Handles = [q \in Process |-> Handles[q]] /\ Handles' = [q \in Process |-> Handles'[q]]
    BY <1>5 DEF Handles
  <2> HIDE DEF Handles
  <2> QED
    BY <2>1, <2>2
<1>7. Replies' = [q \in Process |-> Heard(reply'[q])]
  BY DEF Replies, Heard
<1>8. Replies' = [Replies EXCEPT ![p] = NoReply, ![caller] = NoReply]
  <2>1. \A q \in Process : Replies'[q] = IF q \in {p, caller} THEN NoReply ELSE Replies[q]
    BY <1>7 DEF Replies
  <2>2. Replies = [q \in Process |-> Replies[q]] /\ Replies' = [q \in Process |-> Replies'[q]]
    BY <1>7 DEF Replies
  <2> HIDE DEF Replies
  <2> QED
    BY <2>1, <2>2
<1>9. Leaves(p)
  BY <1>6, <1>8 DEF Leaves
<1>10. UNCHANGED Contents
  BY ContentsStay
<1> QED
  BY <1>9, <1>10, CallStep

LEMMA ExecuteSeen ==
  ASSUME TypeOK, StreamInv, NEW command, Execute(command)
  PROVE  Stream!Next
<1> DEFINE new == running + 1
<1>1. running \in Process /\ running \in Nat /\ DOMAIN reply = Process
  BY RunningType
<1>2. CASE Fail(<<"execute">>)
  BY <1>2, OtherSeen DEF Fail
<1>3. CASE ~Fail(<<"execute">>)
  <2>1. /\ new \in Process /\ UNCHANGED inode
        /\ fdarray' = [fdarray EXCEPT ![new] = Fresh(@)]
        /\ Return(<<"execute">>, -1, <<>>) \/ Return(<<"execute">>, 0, <<>>)
    BY <1>3 DEF Execute
  <2>2. new > running
    BY <1>1, SMT
  <2>3. reply[new] = NoReply /\ new # running
    BY <2>1, <2>2, <1>1, SMT DEF StreamInv
  <2>4. /\ \A q \in Process \ {running} : reply'[q] = reply[q]
        /\ reply'[running].call = <<"execute">>
    BY <1>1, <2>1 DEF Return
  <2>5. Heard(reply'[running]) = NoReply /\ Heard(NoReply) = NoReply
    BY <2>4 DEF Heard
  <2> HIDE DEF new
  <2> QED
    BY <1>1, <2>1, <2>3, <2>4, <2>5, LeaveSeen
<1> QED
  BY <1>2, <1>3

LEMMA HaltSeen ==
  ASSUME TypeOK, NEW status, Halt(status)
  PROVE  Stream!Next
<1> DEFINE caller == running - 1
<1>1. /\ running \in Process /\ running \in Nat /\ DOMAIN reply = Process
      /\ running > 0
  BY RunningType DEF Halt
<1>2. caller \in Process /\ caller # running
  BY <1>1, SizesAreNat, SMT DEF Process
<1>3. /\ UNCHANGED inode
      /\ fdarray' = [fdarray EXCEPT ![running] = Fresh(@)]
      /\ reply' = [reply EXCEPT
           ![running] = NoReply,
           ![caller] = [call |-> <<"execute">>, value |-> status % 256, data |-> <<>>]]
  BY DEF Halt
<1> HIDE DEF caller
<1>4. /\ \A q \in Process \ {running, caller} : reply'[q] = reply[q]
      /\ reply'[running] = NoReply /\ reply'[caller].call = <<"execute">>
  BY <1>1, <1>2, <1>3
<1>5. Heard(reply'[running]) = NoReply /\ Heard(reply'[caller]) = NoReply
  BY <1>4 DEF Heard, NoReply
<1> QED
  BY <1>1, <1>2, <1>3, <1>4, <1>5, LeaveSeen

AnyCall ==
  \/ \E name : Open(name)
  \/ \E fd : \E n \in Int : Read(fd, n)
  \/ \E fd, frequency : Write(fd, frequency)
  \/ \E fd : Close(fd)
  \/ \E line : ReadLine(line)
  \/ \E inside : Vidmap(inside)
  \/ \E n : GetArgs(n)
  \/ Refused
  \/ \E command : Execute(command)
  \/ \E status : Halt(status)
  \/ UNCHANGED vars

LEMMA SilentCalls ==
  ASSUME TypeOK
  PROVE  /\ \A line : ReadLine(line) => Stream!Next
         /\ \A inside : Vidmap(inside) => Stream!Next
         /\ \A n : GetArgs(n) => Stream!Next
         /\ Refused => Stream!Next
<1>1. \A value, data : OnlyReturn(<<"other">>, value, data) => Stream!Next
  BY OtherSeen DEF OnlyReturn
<1>2. Fail(<<"other">>) => Stream!Next
  BY OtherSeen DEF Fail
<1>3. \A n : GetArgs(n) => Stream!Next
  <2> SUFFICES ASSUME NEW n, GetArgs(n), ~Fail(<<"other">>)
               PROVE  Stream!Next
    BY <1>2
  <2>1. UNCHANGED <<inode, fdarray>> /\ \E data : Return(<<"other">>, 0, data)
    BY DEF GetArgs
  <2> QED
    BY <2>1, OtherSeen
<1> QED
  BY <1>1, <1>2, <1>3 DEF ReadLine, Vidmap, Refused

LEMMA CallSeen ==
  ASSUME TypeOK, OnDisk, StreamInv, AnyCall
  PROVE  [Stream!Next]_(Stream!vars)
<1>1. UNCHANGED vars => UNCHANGED Stream!vars
  <2> SUFFICES ASSUME UNCHANGED vars
               PROVE  UNCHANGED Stream!vars
    OBVIOUS
  <2> QED
    BY DEF vars, Stream!vars, ContentOf
<1> QED
  BY <1>1, OpenSeen, ReadSeen, WriteSeen, CloseSeen, SilentCalls, ExecuteSeen,
     HaltSeen DEF AnyCall

-----------------------------------------------------------------------------
(* The invariant of that proof.                                            *)

LEMMA KeepsInv ==
  ASSUME TypeOK, StreamInv, Calm,
         \A fd \in Fd : fdarray'[running][fd].flags = 1 =>
           /\ fdarray'[running][fd].fops # "none"
           /\ ObjectOf(fdarray'[running][fd].fops, fdarray'[running][fd].inode_num)
                \in Object
  PROVE  StreamInv'
<1>1. /\ running' = running /\ running \in Process /\ running \in Nat
      /\ \A p \in Process \ {running} : fdarray'[p] = fdarray[p] /\ reply'[p] = reply[p]
  BY RunningType DEF Calm
<1>2. \A p \in Process : p > running => reply'[p] = NoReply
  BY <1>1, SizesAreNat, SMT DEF StreamInv, Process
<1> QED
  BY <1>1, <1>2 DEF StreamInv

LEMMA SetKeepsInv ==
  ASSUME TypeOK, StreamInv, Calm, NEW fd \in Fd, NEW entry, SetsDescriptor(fd, entry),
         entry.flags = 1 => /\ entry.fops # "none"
                            /\ ObjectOf(entry.fops, entry.inode_num) \in Object
  PROVE  StreamInv'
<1>1. running \in Process /\ fdarray \in [Process -> [Fd -> Descriptor]]
  BY RunningType
<1>2. \A g \in Fd : fdarray'[running][g] = IF g = fd THEN entry ELSE fdarray[running][g]
  BY <1>1 DEF SetsDescriptor
<1>3. \A g \in Fd : fdarray'[running][g].flags = 1 =>
           /\ fdarray'[running][g].fops # "none"
           /\ ObjectOf(fdarray'[running][g].fops, fdarray'[running][g].inode_num)
                \in Object
  BY <1>1, <1>2 DEF StreamInv
<1> QED
  BY <1>3, KeepsInv

LEMMA SameKeepsInv ==
  ASSUME TypeOK, StreamInv, Calm, UNCHANGED fdarray
  PROVE  StreamInv'
<1>1. running \in Process
  BY RunningType
<1> QED
  BY <1>1, KeepsInv DEF StreamInv

LEMMA OpenInv ==
  ASSUME TypeOK, StreamInv, NEW name, Open(name)
  PROVE  StreamInv'
<1>1. Calm
  BY OpenIsCalm
<1>2. CASE Fail(<<"open", name>>)
  BY <1>1, <1>2, SameKeepsInv DEF Fail
<1>3. CASE ~Fail(<<"open", name>>)
  <2> DEFINE entry == [flags |-> 1, fops |-> Fops(Lookup(name).filetype),
                       inode_num |-> Lookup(name).inode_num, file_pos |-> 0]
  <2>1. PICK fd \in Fd : Known(name) /\ SetsDescriptor(fd, entry)
    BY <1>3 DEF Open
  <2>2. name \in DOMAIN ObjectNamed
    BY <2>1, NamesKnown
  <2>3. ObjectOf(entry.fops, entry.inode_num) = ObjectNamed[name]
    BY <2>2 DEF ObjectNamed
  <2>4. ObjectNamed[name] \in Object
    BY <2>2 DEF Object
  <2>5. entry.fops # "none"
    BY <2>1, LookupType, SMT DEF Fops
  <2> HIDE DEF entry
  <2> QED
    BY <1>1, <2>1, <2>3, <2>4, <2>5, SetKeepsInv
<1> QED
  BY <1>2, <1>3

LEMMA ReadInv ==
  ASSUME TypeOK, OnDisk, StreamInv, NEW fd, NEW n, Read(fd, n)
  PROVE  StreamInv'
<1>1. Calm
  BY ReadIsCalm
<1>2. CASE UNCHANGED fdarray
  BY <1>1, <1>2, SameKeepsInv
<1>3. CASE ~UNCHANGED fdarray
  <2> DEFINE f == Entry(fd)
  <2>1. Active(fd) /\ \E pos : SetsDescriptor(fd, [f EXCEPT !.file_pos = pos])
    <3>1. Active(fd) /\ (FileRead(fd, n) \/ DirectoryRead(fd, n))
      BY <1>3 DEF Read, Fail, RtcRead, OnlyReturn
    <3>2. CASE FileRead(fd, n)
      BY <3>1, <3>2 DEF FileRead
    <3>3. CASE DirectoryRead(fd, n)
      BY <1>3, <3>1, <3>3 DEF DirectoryRead, OnlyReturn
    <3> QED
      BY <3>1, <3>2, <3>3
  <2>2. PICK pos : SetsDescriptor(fd, [f EXCEPT !.file_pos = pos])
    BY <2>1
  <2> DEFINE entry == [f EXCEPT !.file_pos = pos]
  <2>3. fd \in Fd /\ f \in Descriptor /\ f = fdarray[running][fd] /\ running \in Process
    BY <2>1, RunningType DEF Active, Entry
  <2>4. entry.flags = f.flags /\ entry.fops = f.fops /\ entry.inode_num = f.inode_num
    BY <2>3 DEF Descriptor
  <2>5. SetsDescriptor(fd, entry)
    BY <2>2
  <2> HIDE DEF entry
  <2>6. entry.flags = 1 => /\ entry.fops # "none"
                           /\ ObjectOf(entry.fops, entry.inode_num) \in Object
    BY <2>3, <2>4 DEF StreamInv
  <2> QED
    BY <1>1, <2>3, <2>5, <2>6, SetKeepsInv
<1> QED
  BY <1>2, <1>3

LEMMA CloseInv ==
  ASSUME TypeOK, StreamInv, NEW fd, Close(fd)
  PROVE  StreamInv'
<1>1. Calm
  BY CloseIsCalm
<1>2. CASE ~Active(fd)
  BY <1>1, <1>2, SameKeepsInv DEF Close, Fail
<1>3. CASE Active(fd)
  <2> DEFINE entry == [Entry(fd) EXCEPT !.flags = 0]
  <2>1. fd \in Fd /\ SetsDescriptor(fd, entry)
    BY <1>3 DEF Close, Active
  <2>2. entry.flags = 0
    BY <2>1, RunningType DEF Descriptor
  <2> HIDE DEF entry
  <2> QED
    BY <1>1, <2>1, <2>2, SetKeepsInv
<1> QED
  BY <1>2, <1>3

LEMMA FreshKeepsInv ==
  ASSUME TypeOK, StreamInv, NEW p \in Process,
         fdarray' = [fdarray EXCEPT ![p] = Fresh(@)]
  PROVE  \A q \in Process, fd \in Fd :
           fdarray'[q][fd].flags = 1 =>
             /\ fdarray'[q][fd].fops # "none"
             /\ ObjectOf(fdarray'[q][fd].fops, fdarray'[q][fd].inode_num) \in Object
<1>1. fdarray \in [Process -> [Fd -> Descriptor]]
  BY RunningType
<1>2. \A fd \in Fd : fdarray'[p][fd].flags = 0
  BY <1>1 DEF Fresh, Descriptor
<1>3. \A q \in Process \ {p} : fdarray'[q] = fdarray[q]
  BY <1>1
<1> QED
  BY <1>2, <1>3 DEF StreamInv

LEMMA ExecuteInv ==
  ASSUME TypeOK, StreamInv, NEW command, Execute(command)
  PROVE  StreamInv'
<1> DEFINE new == running + 1
<1>1. CASE Fail(<<"execute">>)
  BY <1>1, FailIsCalm, SameKeepsInv DEF Fail
<1>2. CASE ~Fail(<<"execute">>)
  <2>1. /\ new \in Process /\ UNCHANGED inode
        /\ fdarray' = [fdarray EXCEPT ![new] = Fresh(@)]
        /\ Return(<<"execute">>, -1, <<>>) \/ Return(<<"execute">>, 0, <<>>)
        /\ running' \in {running, new}
    BY <1>2 DEF Execute
  <2>2. running \in Process /\ running \in Nat /\ DOMAIN reply = Process
    BY RunningType
  <2>3. \A q \in Process : q > running' => q > running /\ q # running
    BY <2>1, <2>2, SizesAreNat, SMT DEF Process
  <2>4. \A q \in Process \ {running} : reply'[q] = reply[q]
    BY <2>1, <2>2 DEF Return
  <2>5. \A q \in Process : q > running' => reply'[q] = NoReply
    BY <2>3, <2>4 DEF StreamInv
  <2>6. \A q \in Process, fd \in Fd :
           fdarray'[q][fd].flags = 1 =>
             /\ fdarray'[q][fd].fops # "none"
             /\ ObjectOf(fdarray'[q][fd].fops, fdarray'[q][fd].inode_num) \in Object
    <3> HIDE DEF new
    <3> QED
      BY <2>1, FreshKeepsInv
  <2> QED
    BY <2>5, <2>6 DEF StreamInv
<1> QED
  BY <1>1, <1>2

LEMMA HaltInv ==
  ASSUME TypeOK, StreamInv, NEW status, Halt(status)
  PROVE  StreamInv'
<1> DEFINE caller == running - 1
<1>1. running \in Process /\ running \in Nat /\ DOMAIN reply = Process
  BY RunningType
<1>2. /\ fdarray' = [fdarray EXCEPT ![running] = Fresh(@)]
      /\ running' = caller
      /\ reply' = [reply EXCEPT
           ![running] = NoReply,
           ![caller] = [call |-> <<"execute">>, value |-> status % 256, data |-> <<>>]]
  BY DEF Halt
<1>3. \A q \in Process : q > caller => q # caller /\ (q = running \/ q > running)
  BY <1>1, SizesAreNat, SMT DEF Process
<1> HIDE DEF caller
<1>4. \A q \in Process : q > caller => reply'[q] = NoReply
  BY <1>1, <1>2, <1>3 DEF StreamInv
<1>5. \A q \in Process, fd \in Fd :
         fdarray'[q][fd].flags = 1 =>
           /\ fdarray'[q][fd].fops # "none"
           /\ ObjectOf(fdarray'[q][fd].fops, fdarray'[q][fd].inode_num) \in Object
  BY <1>1, <1>2, FreshKeepsInv
<1> QED
  BY <1>2, <1>4, <1>5 DEF StreamInv

LEMMA StreamStep ==
  ASSUME TypeOK, OnDisk, StreamInv, AnyCall
  PROVE  StreamInv'
<1>1. ASSUME Calm, UNCHANGED fdarray
      PROVE  StreamInv'
  BY <1>1, SameKeepsInv
<1>2. \A fd, frequency : Write(fd, frequency) => StreamInv'
  <2> SUFFICES ASSUME NEW fd, NEW frequency, Write(fd, frequency)
               PROVE  StreamInv'
    OBVIOUS
  <2>1. UNCHANGED fdarray
    BY DEF Write, Fail, OnlyReturn
  <2> QED
    BY <1>1, <2>1, CallsAreCalm
<1>3. \A line : ReadLine(line) => StreamInv'
  BY <1>1, CallsAreCalm DEF ReadLine, OnlyReturn
<1>4. \A inside : Vidmap(inside) => StreamInv'
  BY <1>1, CallsAreCalm DEF Vidmap, Fail, OnlyReturn
<1>5. \A n : GetArgs(n) => StreamInv'
  BY <1>1, CallsAreCalm DEF GetArgs, Fail
<1>6. Refused => StreamInv'
  BY <1>1, CallsAreCalm DEF Refused, Fail
<1>7. UNCHANGED vars => StreamInv'
  BY <1>1, CallsAreCalm DEF vars
<1> QED
  BY <1>2, <1>3, <1>4, <1>5, <1>6, <1>7, OpenInv, ReadInv, CloseInv, ExecuteInv,
     HaltInv DEF AnyCall

LEMMA StreamInitial == Init => StreamInv /\ Stream!Init
<1> SUFFICES ASSUME Init
             PROVE  StreamInv /\ Stream!Init
  OBVIOUS
<1>1. /\ \A p \in Process, fd \in Fd : fdarray[p][fd] = Unused
      /\ \A p \in Process : reply[p] = NoReply
  BY DEF Init
<1>2. StreamInv
  BY <1>1 DEF StreamInv, Unused
<1>3. Stream!NoReply = NoReply
  BY DEF Stream!NoReply, NoReply
<1>4. Stream!Init
  BY <1>1, <1>3 DEF Stream!Init, Unused, NoReply
<1> QED
  BY <1>2, <1>4

-----------------------------------------------------------------------------
(* Loops that end in a result of one kind.                                 *)

Terminates(D, stop, next, m) ==
  /\ next \in [D -> D] /\ m \in [D -> Nat]
  /\ \A s \in D \ stop : m[next[s]] < m[s]

LeadsTo(C, stop, result, next, R) ==
  /\ \A s \in C \ stop : next[s] \in C
  /\ \A s \in C \cap stop : result[s] \in R

LEMMA LoopResults ==
  ASSUME NEW D, NEW stop, NEW result, NEW next, NEW m, Terminates(D, stop, next, m),
         NEW f, Computes(f, D, stop, result, next),
         NEW C \in SUBSET D, NEW R, LeadsTo(C, stop, result, next, R)
  PROVE  \A s \in C : f[s] \in R
<1> SUFFICES ASSUME NEW s \in C, f[s] \notin R
             PROVE  FALSE
  OBVIOUS
<1> USE DEF Terminates, LeadsTo
<1> DEFINE T == {t \in C : f[t] \notin R}
<1>1. T \in SUBSET D /\ T # {}
  OBVIOUS
<1>2. PICK t \in T : \A u \in T : m[t] <= m[u]
  <2> HIDE DEF T
  <2> QED
    BY <1>1, LeastMeasure
<1>3. t \in C /\ f[t] \notin R /\ f[t] = IF t \in stop THEN result[t] ELSE f[next[t]]
  BY <1>2 DEF Computes
<1>4. t \notin stop
  BY <1>3
<1>5. next[t] \in T
  BY <1>3, <1>4
<1>6. m[next[t]] < m[t] /\ m[t] <= m[next[t]] /\ m[t] \in Nat /\ m[next[t]] \in Nat
  BY <1>2, <1>3, <1>4, <1>5
<1> QED
  BY <1>6, SMT

-----------------------------------------------------------------------------
(* grep's buffer: what Scan leaves to be completed is a piece of text.     *)

ScanState(data) == [start : 0 .. Len(data), found : Seq(Seq(STRING))]
LineEnds(data, x) == {k \in x.start + 1 .. Len(data) : data[k] = Newline}
LineEnd(data, x) ==
  IF LineEnds(data, x) = {} THEN Len(data)
  ELSE (CHOOSE k \in LineEnds(data, x) : \A j \in LineEnds(data, x) : k <= j) - 1
LineAt(data, x) == SubSeq(data, x.start + 1, LineEnd(data, x))
ReportOf(data, s, x) ==
  IF HasString(LineAt(data, x), s) THEN Append(x.found, LineAt(data, x)) ELSE x.found
LineIsCut(data, cnt, stale, x) ==
  LineEnds(data, x) = {} /\ ~stale /\ cnt # 0 /\ x.start # 0
ScanNext(data, s, x) ==
  [start |-> LineEnd(data, x) + 1, found |-> ReportOf(data, s, x)]

LEMMA LineType ==
  ASSUME NEW data \in Seq(STRING), NEW s, NEW x \in ScanState(data)
  PROVE  /\ LineEnd(data, x) \in x.start .. Len(data)
         /\ x.start \in Nat /\ Len(data) \in Nat
         /\ LineAt(data, x) \in Seq(STRING)
         /\ ReportOf(data, s, x) \in Seq(Seq(STRING))
<1>1. Len(data) \in Nat /\ x.start \in Nat /\ x.start <= Len(data)
      /\ x.found \in Seq(Seq(STRING))
  BY SMT DEF ScanState
<1> DEFINE E == LineEnds(data, x)
<1>2. LineEnd(data, x) \in x.start .. Len(data)
  <2>1. CASE E = {}
    BY <1>1, <2>1, SMT DEF LineEnd
  <2>2. CASE E # {}
    <3>1. E \in SUBSET Nat /\ \A k \in E : k \in x.start + 1 .. Len(data)
      BY <1>1, SMT DEF LineEnds
    <3> HIDE DEF E
    <3>2. \E k \in E : \A j \in E : k <= j
      BY <2>2, <3>1, Least
    <3> DEFINE k == CHOOSE k \in E : \A j \in E : k <= j
    <3>3. k \in E
      BY <3>2
    <3>4. LineEnd(data, x) = k - 1
      BY <2>2 DEF LineEnd, E
    <3> HIDE DEF k
    <3>5. k \in x.start + 1 .. Len(data)
      BY <3>1, <3>3
    <3> QED
      BY <1>1, <3>4, <3>5, SMT
  <2> QED
    BY <2>1, <2>2
<1>3. LineAt(data, x) \in Seq(STRING)
  <2>1. LineEnd(data, x) \in Nat /\ LineEnd(data, x) <= Len(data)
    BY <1>1, <1>2, SMT
  <2> QED
    BY <1>1, <2>1, SMT DEF LineAt
<1>4. ReportOf(data, s, x) \in Seq(Seq(STRING))
  BY <1>1, <1>3, AppendProperties DEF ReportOf
<1> QED
  BY <1>1, <1>2, <1>3, <1>4

LEMMA ScanType ==
  ASSUME NEW data \in Seq(STRING), NEW cnt, NEW s, NEW stale
  PROVE  Scan(data, cnt, s, stale).rest \in Seq(STRING)
<1> DEFINE last == Len(data)
           D == ScanState(data)
           ends(x) == LineEnd(data, x) + 1 >= last
           stop == {x \in D : LineIsCut(data, cnt, stale, x) \/ ends(x)}
           result == [x \in D |->
                        IF LineIsCut(data, cnt, stale, x)
                          THEN [found |-> x.found, rest |-> LineAt(data, x)]
                        ELSE [found |-> ReportOf(data, s, x), rest |-> <<>>]]
           next == [x \in D |-> IF x \in stop THEN x ELSE ScanNext(data, s, x)]
           m == [x \in D |-> last - x.start]
           R == [found : Seq(Seq(STRING)), rest : Seq(STRING)]
<1>1. \A x \in D : /\ LineEnd(data, x) \in x.start .. last
                   /\ x.start \in Nat /\ last \in Nat /\ x.start <= last
                   /\ LineAt(data, x) \in Seq(STRING)
                   /\ ReportOf(data, s, x) \in Seq(Seq(STRING))
  <2> TAKE x \in D
  <2>1. x.start \in 0 .. last
    BY DEF ScanState
  <2> QED
    BY <2>1, LineType, SMT
<1>2. \A x \in D : ~ends(x) => /\ ScanNext(data, s, x) \in D
                               /\ last - (LineEnd(data, x) + 1) < last - x.start
  <2> TAKE x \in D
  <2>1. ~ends(x) => /\ LineEnd(data, x) + 1 \in 0 .. last
                    /\ last - (LineEnd(data, x) + 1) < last - x.start
    BY <1>1, SMT
  <2> QED
    BY <1>1, <2>1 DEF ScanNext, ScanState
<1>3. next \in [D -> D]
  BY <1>2
<1>4. m \in [D -> Nat]
  <2>1. \A x \in D : last - x.start \in Nat
    BY <1>1, SMT
  <2> QED
    BY <2>1
<1>5. \A x \in D \ stop : m[next[x]] < m[x]
  <2> TAKE x \in D \ stop
  <2>1. next[x] = ScanNext(data, s, x) /\ ~ends(x)
    OBVIOUS
  <2>2. next[x] \in D /\ m[next[x]] = last - (LineEnd(data, x) + 1)
    BY <1>2, <2>1 DEF ScanNext
  <2> QED
    BY <1>2, <2>1, <2>2
<1>6. PICK f : Computes(f, D, stop, result, next)
  <2> HIDE DEF D, stop, result, next, m
  <2> QED
    BY <1>3, <1>4, <1>5, LoopExists
<1> DEFINE Body(g, x) ==
             IF LineIsCut(data, cnt, stale, x)
               THEN [found |-> x.found, rest |-> LineAt(data, x)]
             ELSE IF ends(x) THEN [found |-> ReportOf(data, s, x), rest |-> <<>>]
             ELSE g[ScanNext(data, s, x)]
           IsScan(g) == g = [x \in D |-> Body(g, x)]
<1>7. \A x \in D : f[x] = Body(f, x)
  <2> TAKE x \in D
  <2>1. f[x] = IF x \in stop THEN result[x] ELSE f[next[x]]
    BY <1>6 DEF Computes
  <2> QED
    BY <2>1
<1>8. \E g : IsScan(g)
  <2>1. f = [x \in D |-> Body(f, x)]
    <3> HIDE DEF Body
    <3> QED
      BY <1>6, <1>7 DEF Computes
  <2> QED
    BY <2>1
<1> DEFINE L == CHOOSE g : IsScan(g)
           first == [start |-> 0, found |-> <<>>]
<1>9. Scan(data, cnt, s, stale) = L[first]
  BY DEF Scan, ScanState, LineEnds, LineEnd, LineAt, ReportOf, LineIsCut, ScanNext
<1>10. IsScan(L)
  BY <1>8
<1>11. Computes(L, D, stop, result, next)
  <2>1. \A x \in D : L[x] = Body(L, x)
    BY <1>10
  <2>2. \A x \in D : Body(L, x) = IF x \in stop THEN result[x] ELSE L[next[x]]
    OBVIOUS
  <2>3. L = [x \in D |-> L[x]]
    BY <1>10
  <2> HIDE DEF L, Body, stop, result, next
  <2> QED
    BY <2>1, <2>2, <2>3 DEF Computes
<1>12. \A x \in D \cap stop : result[x] \in R
  <2> TAKE x \in D \cap stop
  <2>1. x.found \in Seq(Seq(STRING)) /\ <<>> \in Seq(STRING)
    BY DEF ScanState
  <2> QED
    BY <1>1, <2>1
<1>13. \A x \in D : L[x] \in R
  <2>1. D \in SUBSET D /\ \A x \in D \ stop : next[x] \in D
    BY <1>3
  <2>2. LeadsTo(D, stop, result, next, R) /\ Terminates(D, stop, next, m)
    <3> HIDE DEF D, stop, result, next, m, R
    <3> QED
      BY <1>3, <1>4, <1>5, <1>12, <2>1 DEF LeadsTo, Terminates
  <2> HIDE DEF L, D, stop, result, next, m, R
  <2> QED
    BY <1>11, <2>1, <2>2, LoopResults
<1>14. first \in D
  <2>1. 0 \in 0 .. last
    BY SMT
  <2> QED
    BY <2>1 DEF ScanState
<1> HIDE DEF L, first
<1> QED
  BY <1>9, <1>13, <1>14

-----------------------------------------------------------------------------
(* The parser of execute                                                   *)

LEMMA WordEndType ==
  ASSUME NEW command \in Seq(STRING)
  PROVE  /\ Len(command) \in Nat
         /\ WordEnd(command) \in 0 .. Len(command)
         /\ \A k \in 1 .. WordEnd(command) : command[k] # Space
         /\ WordEnd(command) < Len(command) => command[WordEnd(command) + 1] = Space
<1> DEFINE B == {k \in DOMAIN command : command[k] = Space}
           w == WordEnd(command)
<1>1. Len(command) \in Nat /\ DOMAIN command = 1 .. Len(command)
  BY SMT
<1>2. CASE B = {}
  <2>1. w = Len(command)
    BY <1>2 DEF WordEnd
  <2> QED
    BY <1>1, <1>2, <2>1, SMT
<1>3. CASE B # {}
  <2>1. B \in SUBSET Nat
    BY <1>1, SMT
  <2> DEFINE k == CHOOSE k \in B : \A j \in B : k <= j
  <2>2. w = k - 1
    BY <1>3 DEF WordEnd
  <2>3. \E i \in B : \A j \in B : i <= j
    <3> HIDE DEF B
    <3> QED
      BY <1>3, <2>1, Least
  <2>4. k \in B /\ \A j \in B : k <= j
    <3> HIDE DEF B
    <3> QED
      BY <2>3
  <2> HIDE DEF k, w
  <2>5. k \in 1 .. Len(command) /\ command[k] = Space
    BY <1>1, <2>4
  <2>6. w \in 0 .. Len(command) /\ w + 1 = k
    BY <1>1, <2>2, <2>5, SMT
  <2>7. \A j \in 1 .. w : j \in DOMAIN command /\ ~(k <= j)
    BY <1>1, <2>5, <2>6, SMT
  <2>8. \A j \in 1 .. w : command[j] # Space
    BY <2>4, <2>7
  <2> QED
    BY <1>1, <2>5, <2>6, <2>8 DEF w
<1> QED
  BY <1>2, <1>3

ParseState(command) ==
  [parse : 0 .. Len(command), name : Seq(STRING), arguments : Seq(STRING),
   argflag : BOOLEAN]

AtWordEnd(command, s) == command[s.parse + 1] = Space /\ ~s.argflag
NameIsFull(command, s) ==
  ~s.argflag /\ command[s.parse + 1] # Space /\ s.parse + 1 = NameLen

ParseNext(command, s) ==
  LET c == command[s.parse + 1] IN
  IF AtWordEnd(command, s) THEN [s EXCEPT !.argflag = TRUE, !.parse = @ + 1]
  ELSE IF s.argflag THEN [s EXCEPT !.arguments = Append(@, c), !.parse = @ + 1]
  ELSE [s EXCEPT !.name = Append(@, c), !.parse = @ + 1]

ParseResult(command, s) ==
  IF s.parse = Len(command) THEN s
  ELSE [s EXCEPT !.name = Append(@, command[s.parse + 1])]

(* Where the loop is: in the first word, or behind the blank. *)
InWord(command, s) ==
  /\ ~s.argflag
  /\ s.parse <= WordEnd(command) /\ s.parse < NameLen
  /\ s.name = SubSeq(command, 1, s.parse)
  /\ s.arguments = <<>>

Behind(command, s) ==
  /\ s.argflag
  /\ WordEnd(command) < NameLen /\ WordEnd(command) < s.parse
  /\ s.name = SubSeq(command, 1, WordEnd(command))
  /\ s.arguments = SubSeq(command, WordEnd(command) + 2, s.parse)

LEMMA ParseNextType ==
  ASSUME NEW command \in Seq(STRING), NEW s \in ParseState(command),
         s.parse # Len(command)
  PROVE  /\ ParseNext(command, s) \in ParseState(command)
         /\ ParseNext(command, s).parse = s.parse + 1
         /\ ParseResult(command, s) \in ParseState(command)
<1> DEFINE c == command[s.parse + 1]
<1>1. /\ s.parse + 1 \in 0 .. Len(command) /\ c \in STRING
      /\ s.name \in Seq(STRING) /\ s.arguments \in Seq(STRING)
      /\ s.argflag \in BOOLEAN
  <2>1. /\ Len(command) \in Nat /\ s.parse \in 0 .. Len(command)
        /\ s.name \in Seq(STRING) /\ s.arguments \in Seq(STRING)
        /\ s.argflag \in BOOLEAN
    BY SMT DEF ParseState
  <2>2. s.parse + 1 \in 1 .. Len(command)
    BY <2>1, SMT
  <2>3. c \in STRING
    BY <2>2, SMT
  <2> QED
    BY <2>1, <2>2, <2>3, SMT
<1>2. Append(s.name, c) \in Seq(STRING) /\ Append(s.arguments, c) \in Seq(STRING)
  BY <1>1, AppendProperties
<1> HIDE DEF c
<1> QED
  BY <1>1, <1>2 DEF ParseNext, ParseResult, ParseState, c

LEMMA SubSeqAppend ==
  ASSUME NEW S, NEW seq \in Seq(S), NEW first \in Nat, first > 0, NEW n \in Nat,
         n < Len(seq), first <= n + 1
  PROVE  Append(SubSeq(seq, first, n), seq[n + 1]) = SubSeq(seq, first, n + 1)
<1> DEFINE a == SubSeq(seq, first, n)
           b == SubSeq(seq, first, n + 1)
<1>1. a \in Seq(S) /\ Len(a) = n + 1 - first /\ seq[n + 1] \in S
      /\ \A k \in 1 .. n + 1 - first : a[k] = seq[first + k - 1]
  BY SMT
<1>2. b \in Seq(S) /\ Len(b) = n + 2 - first
      /\ \A k \in 1 .. n + 2 - first : b[k] = seq[first + k - 1]
  BY SMT
<1> HIDE DEF a, b
<1>3. /\ Append(a, seq[n + 1]) \in Seq(S)
      /\ Len(Append(a, seq[n + 1])) = n + 2 - first
      /\ \A k \in 1 .. n + 1 - first : Append(a, seq[n + 1])[k] = a[k]
      /\ Append(a, seq[n + 1])[n + 2 - first] = seq[n + 1]
  <2>1. Len(a) + 1 = n + 2 - first /\ 1 .. Len(a) = 1 .. n + 1 - first
    BY <1>1, SMT
  <2> QED
    BY <1>1, <2>1, AppendProperties
<1>4. ASSUME NEW k \in 1 .. n + 2 - first
      PROVE  Append(a, seq[n + 1])[k] = b[k]
  <2>1. CASE k = n + 2 - first
    <3>1. first + k - 1 = n + 1
      BY <2>1, SMT
    <3> QED
      BY <1>2, <1>3, <2>1, <3>1
  <2>2. CASE k # n + 2 - first
    <3>1. k \in 1 .. n + 1 - first
      BY <2>2, SMT
    <3> QED
      BY <1>1, <1>2, <1>3, <3>1
  <2> QED
    BY <2>1, <2>2
<1>5. Append(a, seq[n + 1]) = b
  BY <1>2, <1>3, <1>4, SeqEqual, SMT
<1> QED
  BY <1>5 DEF a, b

LEMMA ParseGoesOn ==
  ASSUME NEW command \in Seq(STRING), NEW s \in ParseState(command),
         InWord(command, s) \/ Behind(command, s),
         s.parse # Len(command), ~NameIsFull(command, s)
  PROVE  LET t == ParseNext(command, s) IN InWord(command, t) \/ Behind(command, t)
<1> DEFINE w == WordEnd(command)
           t == ParseNext(command, s)
           c == command[s.parse + 1]
<1>1. /\ Len(command) \in Nat /\ w \in 0 .. Len(command)
      /\ \A k \in 1 .. w : command[k] # Space
      /\ w < Len(command) => command[w + 1] = Space
  BY WordEndType
<1>2. /\ s.parse \in Nat /\ s.parse < Len(command)
      /\ s.name \in Seq(STRING) /\ s.arguments \in Seq(STRING)
      /\ s.argflag \in BOOLEAN
  BY SMT DEF ParseState
<1>3. t \in ParseState(command) /\ t.parse = s.parse + 1
  BY ParseNextType
<1>4. NameLen \in Nat
  BY SizesAreNat
<1>5. CASE InWord(command, s) /\ c = Space
  <2>1. s.parse = w
    <3>1. s.parse <= w /\ ~(s.parse + 1 \in 1 .. w)
      BY <1>1, <1>5 DEF InWord
    <3> QED
      BY <1>1, <1>2, <3>1, SMT
  <2>2. t.argflag /\ t.name = s.name /\ t.arguments = s.arguments
    BY <1>5 DEF ParseNext, AtWordEnd, InWord, ParseState
  <2>3. <<>> = SubSeq(command, w + 2, w + 1)
    BY <1>1, SMT
  <2>4. /\ s.parse < NameLen /\ s.name = SubSeq(command, 1, s.parse)
        /\ s.arguments = <<>>
    BY <1>5 DEF InWord
  <2>5. w < t.parse
    BY <1>1, <1>3, <2>1, SMT
  <2>6. t.arguments = SubSeq(command, w + 2, t.parse)
    BY <1>3, <2>1, <2>2, <2>3, <2>4
  <2>7. Behind(command, t)
    BY <2>1, <2>2, <2>4, <2>5, <2>6 DEF Behind
  <2> QED
    BY <2>7
<1>6. CASE InWord(command, s) /\ c # Space
  <2>1. s.parse # w
    BY <1>1, <1>2, <1>6
  <2>2. s.parse + 1 <= w /\ s.parse + 1 < NameLen
    <3>1. s.parse <= w /\ s.parse < NameLen /\ s.parse + 1 # NameLen
      BY <1>6 DEF InWord, NameIsFull
    <3> QED
      BY <1>1, <1>2, <1>4, <2>1, <3>1, SMT
  <2>3. ~t.argflag /\ t.name = Append(s.name, c) /\ t.arguments = s.arguments
    BY <1>6 DEF ParseNext, AtWordEnd, InWord, ParseState
  <2>4. t.name = SubSeq(command, 1, s.parse + 1)
    <3>1. s.name = SubSeq(command, 1, s.parse)
      BY <1>6 DEF InWord
    <3>2. Append(SubSeq(command, 1, s.parse), c) = SubSeq(command, 1, s.parse + 1)
      BY <1>2, SubSeqAppend
    <3> QED
      BY <2>3, <3>1, <3>2
  <2>5. t.arguments = <<>>
    BY <1>6, <2>3 DEF InWord
  <2> QED
    BY <1>3, <2>2, <2>3, <2>4, <2>5 DEF InWord
<1>7. CASE Behind(command, s)
  <2>1. t.argflag /\ t.name = s.name /\ t.arguments = Append(s.arguments, c)
    BY <1>7 DEF ParseNext, AtWordEnd, Behind, ParseState
  <2>2. /\ w < NameLen /\ w < s.parse /\ s.name = SubSeq(command, 1, w)
        /\ s.arguments = SubSeq(command, w + 2, s.parse)
    BY <1>7 DEF Behind
  <2>3. w < t.parse /\ w + 2 \in Nat /\ w + 2 > 0 /\ w + 2 <= s.parse + 1
    BY <1>1, <1>2, <1>3, <2>2, SMT
  <2>4. t.arguments = SubSeq(command, w + 2, t.parse)
    <3>1. Append(SubSeq(command, w + 2, s.parse), c)
            = SubSeq(command, w + 2, s.parse + 1)
      BY <1>2, <2>3, SubSeqAppend
    <3> QED
      BY <1>3, <2>1, <2>2, <3>1
  <2> QED
    BY <2>1, <2>2, <2>3, <2>4 DEF Behind
<1> QED
  BY <1>5, <1>6, <1>7

LEMMA ParseStops ==
  ASSUME NEW command \in Seq(STRING), NEW s \in ParseState(command),
         InWord(command, s) \/ Behind(command, s),
         s.parse = Len(command) \/ NameIsFull(command, s)
  PROVE  LET t == ParseResult(command, s)
         IN t.name = NameOf(command) /\ t.arguments = ArgsOf(command)
<1> DEFINE w == WordEnd(command)
           t == ParseResult(command, s)
           c == command[s.parse + 1]
<1>1. /\ Len(command) \in Nat /\ w \in 0 .. Len(command)
      /\ \A k \in 1 .. w : command[k] # Space
      /\ w < Len(command) => command[w + 1] = Space
  BY WordEndType
<1>2. /\ s.parse \in Nat /\ s.parse <= Len(command)
      /\ s.name \in Seq(STRING) /\ s.arguments \in Seq(STRING)
      /\ NameLen \in Nat
  BY SizesAreNat, SMT DEF ParseState
<1>3. CASE s.parse = Len(command) /\ InWord(command, s)
  <2>1. w = Len(command) /\ w < NameLen
    <3>1. s.parse <= w /\ s.parse < NameLen
      BY <1>3 DEF InWord
    <3> QED
      BY <1>1, <1>3, <3>1, SMT
  <2>2. t = s /\ s.name = SubSeq(command, 1, w) /\ s.arguments = <<>>
    BY <1>3, <2>1 DEF ParseResult, InWord
  <2>3. SubSeq(command, w + 2, Len(command)) = <<>>
    BY <1>1, <2>1, SMT
  <2> QED
    BY <2>1, <2>2, <2>3 DEF NameOf, ArgsOf
<1>4. CASE s.parse = Len(command) /\ Behind(command, s)
  <2>1. /\ t = s /\ w < NameLen /\ s.name = SubSeq(command, 1, w)
        /\ s.arguments = SubSeq(command, w + 2, Len(command))
    BY <1>4 DEF ParseResult, Behind
  <2> QED
    BY <2>1 DEF NameOf, ArgsOf
<1>5. CASE s.parse # Len(command)
  <2>1. NameIsFull(command, s) /\ InWord(command, s)
    BY <1>5 DEF NameIsFull, Behind
  <2>2. /\ c # Space /\ s.parse + 1 = NameLen /\ s.parse <= w
        /\ s.name = SubSeq(command, 1, s.parse) /\ s.arguments = <<>>
    BY <2>1 DEF NameIsFull, InWord
  <2>3. s.parse # w
    <3>1. s.parse < Len(command)
      BY <1>2, <1>5, SMT
    <3> QED
      BY <1>1, <2>2, <3>1
  <2>4. ~(w < NameLen) /\ s.parse < Len(command) /\ 1 <= s.parse + 1
    BY <1>1, <1>2, <1>5, <2>2, <2>3, SMT
  <2>5. Append(SubSeq(command, 1, s.parse), c) = SubSeq(command, 1, s.parse + 1)
    BY <1>2, <2>4, SubSeqAppend
  <2>6. t.name = Append(s.name, c) /\ t.arguments = s.arguments
    BY <1>5 DEF ParseResult, ParseState
  <2>7. t.name = SubSeq(command, 1, NameLen) /\ t.arguments = <<>>
    BY <2>2, <2>5, <2>6
  <2> QED
    BY <2>4, <2>7 DEF NameOf, ArgsOf
<1> QED
  BY <1>3, <1>4, <1>5

(* The loop of execute finds the first word and what is behind it. *)
LEMMA ParseFinds ==
  ASSUME NEW command \in Seq(STRING)
  PROVE  /\ Parse(command).name = NameOf(command)
         /\ Parse(command).arguments = ArgsOf(command)
<1> DEFINE D == ParseState(command)
           stops(s) == s.parse = Len(command) \/ NameIsFull(command, s)
           stop == {s \in D : stops(s)}
           result == [s \in D |-> ParseResult(command, s)]
           next == [s \in D |-> IF s \in stop THEN s ELSE ParseNext(command, s)]
           m == [s \in D |-> Len(command) - s.parse]
           C == {s \in D : InWord(command, s) \/ Behind(command, s)}
           R == {s \in D : s.name = NameOf(command) /\ s.arguments = ArgsOf(command)}
<1>1. \A s \in D : ~stops(s) => /\ ParseNext(command, s) \in D
                                /\ ParseNext(command, s).parse = s.parse + 1
  BY ParseNextType
<1>2. \A s \in D : ParseResult(command, s) \in D
  <2> TAKE s \in D
  <2>1. s.parse = Len(command) => ParseResult(command, s) = s
    BY DEF ParseResult
  <2> QED
    BY <2>1, ParseNextType
<1>3. Terminates(D, stop, next, m)
  <2>1. next \in [D -> D]
    BY <1>1
  <2>2. \A s \in D : s.parse \in 0 .. Len(command) /\ Len(command) - s.parse \in Nat
    BY SMT DEF ParseState
  <2>3. m \in [D -> Nat]
    BY <2>2
  <2>4. \A s \in D \ stop : m[next[s]] < m[s]
    <3> TAKE s \in D \ stop
    <3>1. next[s] = ParseNext(command, s) /\ next[s] \in D
      BY <1>1
    <3>2. m[next[s]] = Len(command) - (s.parse + 1) /\ m[s] = Len(command) - s.parse
      BY <1>1, <3>1
    <3>3. Len(command) - (s.parse + 1) < Len(command) - s.parse
      BY <2>2, SMT
    <3> QED
      BY <3>2, <3>3
  <2> HIDE DEF D, stop, next, m
  <2> QED
    BY <2>1, <2>3, <2>4 DEF Terminates
<1>4. PICK f : Computes(f, D, stop, result, next)
  <2> HIDE DEF D, stop, result, next, m
  <2> QED
    BY <1>3, LoopExists DEF Terminates
<1> DEFINE Body(g, s) ==
             LET c == command[s.parse + 1] IN
             IF s.parse = Len(command) THEN s
             ELSE IF c = Space /\ ~s.argflag
               THEN g[[s EXCEPT !.argflag = TRUE, !.parse = @ + 1]]
             ELSE IF s.argflag
               THEN g[[s EXCEPT !.arguments = Append(@, c), !.parse = @ + 1]]
             ELSE IF s.parse + 1 = NameLen THEN [s EXCEPT !.name = Append(@, c)]
             ELSE g[[s EXCEPT !.name = Append(@, c), !.parse = @ + 1]]
           IsParse(g) == g = [s \in D |-> Body(g, s)]
<1>5. \A g : \A s \in D : Body(g, s) = IF s \in stop THEN result[s] ELSE g[next[s]]
  BY DEF NameIsFull, ParseResult, ParseNext, AtWordEnd
<1>6. \E g : IsParse(g)
  <2>1. f = [s \in D |-> Body(f, s)]
    <3> HIDE DEF Body, stop, result, next
    <3> QED
      BY <1>4, <1>5 DEF Computes
  <2> QED
    BY <2>1
<1> DEFINE L == CHOOSE g : IsParse(g)
           first == [parse |-> 0, name |-> <<>>, arguments |-> <<>>, argflag |-> FALSE]
<1>7. Parse(command) = L[first]
  BY DEF Parse, ParseLoop, ParseState
<1>8. IsParse(L)
  BY <1>6
<1>9. Computes(L, D, stop, result, next)
  <2>1. L = [s \in D |-> Body(L, s)]
    BY <1>8
  <2> HIDE DEF L, Body, stop, result, next
  <2> QED
    BY <1>5, <2>1 DEF Computes
<1>10. LeadsTo(C, stop, result, next, R)
  <2>1. \A s \in C \ stop : next[s] \in C
    <3> TAKE s \in C \ stop
    <3>1. next[s] = ParseNext(command, s) /\ next[s] \in D
      BY <1>1
    <3>2. InWord(command, next[s]) \/ Behind(command, next[s])
      BY <3>1, ParseGoesOn
    <3> QED
      BY <3>1, <3>2
  <2>2. \A s \in C \cap stop : result[s] \in R
    BY <1>2, ParseStops
  <2> HIDE DEF C, stop, result, next, R
  <2> QED
    BY <2>1, <2>2 DEF LeadsTo
<1>11. C \in SUBSET D
  OBVIOUS
<1>12. \A s \in C : L[s] \in R
  <2> HIDE DEF L, D, stop, result, next, m, R, C
  <2> QED
    BY <1>3, <1>9, <1>10, <1>11, LoopResults
<1>13. first \in C
  <2>1. /\ 0 \in 0 .. Len(command) /\ 0 <= WordEnd(command) /\ 0 < NameLen
        /\ <<>> = SubSeq(command, 1, 0)
    BY WordEndType, SizesAreNat, SMT
  <2>2. first \in D
    BY <2>1 DEF ParseState
  <2>3. InWord(command, first)
    BY <2>1 DEF InWord
  <2> QED
    BY <2>2, <2>3
<1>14. L[first] \in R
  <2> HIDE DEF L, first, R, C
  <2> QED
    BY <1>12, <1>13
<1> HIDE DEF L, first
<1> QED
  BY <1>7, <1>14

-----------------------------------------------------------------------------
(* The entry point of a program that has been loaded is on the disk.       *)

(* A read that finds nothing is at the end of the file. *)
LEMMA EndReached ==
  ASSUME NEW node, Inode(node), NEW offset \in Nat, NEW length \in Nat, length > 0,
         ReadData(node, offset, length).count = 0
  PROVE  offset >= node.length
<1> DEFINE slot == offset \div BlockSize
           s == LoopStart(offset)
           f == Loop(node, length)
<1> SUFFICES ASSUME ~(offset >= node.length)
             PROVE  FALSE
  OBVIOUS
<1>1. /\ s \in LoopState /\ slot \in Nat /\ node.length \in Nat
      /\ s.offset = offset /\ s.buf = <<>> /\ Len(s.buf) = 0
      /\ slot * BlockSize <= offset
  <2>1. /\ s \in LoopState /\ slot \in Nat
        /\ offset % BlockSize \in 0 .. BlockSize - 1
        /\ slot * BlockSize + (offset % BlockSize) = offset
    BY LoopStartType
  <2>2. slot * BlockSize <= offset
    <3>1. slot * BlockSize \in Nat
      BY <2>1, SizesAreNat, SMT
    <3> HIDE DEF slot
    <3> QED
      BY <2>1, <3>1, SizesAreNat, SMT
  <2> QED
    BY <2>1, <2>2, SizesAreNat, SMT DEF LoopStart, Inode
<1>2. ~(slot >= InodeBlocks)
  <2> SUFFICES ASSUME slot >= InodeBlocks
               PROVE  FALSE
    OBVIOUS
  <2>1. slot * BlockSize >= InodeBlocks * BlockSize
    <3>1. \A a, b, c \in Nat : a >= b => a * c >= b * c
      BY SMT
    <3> QED
      BY <1>1, <3>1, SizesAreNat
  <2>2. node.length <= InodeBlocks * BlockSize /\ InodeBlocks * BlockSize \in Nat
        /\ slot * BlockSize \in Nat
    BY <1>1, SizesAreNat, SMT DEF Inode
  <2> HIDE DEF slot
  <2> QED
    BY <1>1, <2>1, <2>2, SMT
<1>3. /\ \A bytes : Error(bytes).count = -1 /\ Done(bytes).count = Len(bytes)
      /\ 0 # -1
  BY SMT DEF Error, Done
<1>4. f[s].count = 0
  <2>1. ReadData(node, offset, length) = Error(<<>>)
        \/ ReadData(node, offset, length) = f[s]
    BY <1>2 DEF ReadData, LoopStart
  <2> QED
    BY <1>3, <2>1
<1> DEFINE T == {t \in LoopState : (t = s \/ Len(t.buf) > 0) /\ f[t] = f[s]}
<1>5. \A t \in LoopState : f[t] = IF LoopStops(node, length, t)
                                    THEN LoopResult(node, length, t)
                                    ELSE f[LoopNext(node, t)]
  BY LoopEquation
<1>6. PICK t \in T : LoopStops(node, length, t)
  <2>1. T \in SUBSET LoopState /\ s \in T
    BY <1>1
  <2>2. ASSUME NEW u \in T, ~LoopStops(node, length, u)
        PROVE  LoopNext(node, u) \in T
    <3>1. LoopNext(node, u) \in LoopState /\ f[LoopNext(node, u)] = f[s]
      BY <1>5, <2>2, LoopNextType
    <3>2. Len(LoopNext(node, u).buf) > 0
      <4>1. u.buf \in Seq(Nat \X Nat) /\ LoopNext(node, u).buf \in Seq(Nat \X Nat)
        BY <3>1 DEF LoopState
      <4>2. LoopNext(node, u).buf = Append(u.buf, <<BlockAt(node, u), PlaceAt(u)>>)
        BY DEF LoopNext
      <4> QED
        BY <4>1, <4>2, SMT
    <3> QED
      BY <3>1, <3>2
  <2> HIDE DEF T
  <2> QED
    BY <2>1, <2>2, LoopEnds
<1>7. t \in LoopState /\ f[t].count = 0 /\ LoopResult(node, length, t).count = 0
  BY <1>4, <1>5, <1>6
<1>8. /\ t.offset >= node.length \/ Len(t.buf) >= length
      /\ Len(t.buf) = 0
  BY <1>3, <1>7 DEF LoopResult
<1>9. t = s
  <2>1. ~(Len(t.buf) > 0)
    BY <1>8, SMT
  <2> QED
    BY <1>6, <2>1
<1> QED
  BY <1>1, <1>8, <1>9, SMT

LEMMA LoadedToEnd ==
  ASSUME NEW node, Inode(node), CopyProgramImage(node).count # -1
  PROVE  Len(CopyProgramImage(node).bytes) >= node.length
<1>1. PICK load : /\ CopyProgramImage(node) = load[<<>>]
                  /\ \A i \in Seq(Nat \X Nat) :
                       load[i] = IF Chunk(node, i).count = -1 THEN Error(i)
                                 ELSE IF Chunk(node, i).count = 0 THEN Done(i)
                                 ELSE load[i \o Chunk(node, i).bytes]
  BY LoadEquation
<1> DEFINE T == {i \in Seq(Nat \X Nat) : load[i] = load[<<>>]}
<1>2. PICK i \in T : Chunk(node, i).count \in {-1, 0}
  <2>1. T \in SUBSET Seq(Nat \X Nat) /\ <<>> \in T
    OBVIOUS
  <2>2. \A i \in T : Chunk(node, i).count \notin {-1, 0} =>
                       i \o Chunk(node, i).bytes \in T
    BY <1>1, ChunkType
  <2> HIDE DEF T
  <2> QED
    BY <2>1, <2>2, LoadEnds
<1>3. i \in Seq(Nat \X Nat) /\ load[i] = load[<<>>]
  BY <1>2
<1>4. /\ CopyProgramImage(node) =
           IF Chunk(node, i).count = -1 THEN Error(i) ELSE Done(i)
      /\ Error(i).count = -1 /\ Done(i).bytes = i
  BY <1>1, <1>2, <1>3 DEF Error, Done
<1>5. Chunk(node, i).count = 0 /\ CopyProgramImage(node).bytes = i
  BY <1>2, <1>4
<1>6. Len(i) \in Nat
  BY <1>3
<1> QED
  BY <1>5, <1>6, SizesAreNat, EndReached DEF Chunk

LEMMA EntryPoint ==
  ASSUME NEW node, Inode(node), Executable(node), CopyProgramImage(node).count # -1
  PROVE  CopyProgramImage(node).bytes[2] \in Byte
<1> DEFINE bytes == CopyProgramImage(node).bytes
<1>1. bytes \in Seq(Byte) /\ Len(bytes) >= node.length /\ node.length \in Nat
  BY CopyType, LoadedToEnd, SizesAreNat, SMT DEF ReadOK, Inode
<1>2. node.length > 1
  <2>1. ReadData(node, 1, 1).count = 1 /\ 1 \notin {-1, 0} /\ 1 \in Nat
    BY SMT DEF Executable
  <2>2. 1 < node.length
    BY <2>1, ReadDataType
  <2> QED
    BY <1>1, <2>2, SMT
<1> HIDE DEF bytes
<1>3. 2 \in 1 .. Len(bytes)
  BY <1>1, <1>2, SMT
<1>4. bytes[2] \in Byte
  BY <1>1, <1>3, ElementOfSeq
<1> QED
  BY <1>4 DEF bytes

-----------------------------------------------------------------------------
(* Sessions.  The processes below the one that runs wait for what they     *)
(* have executed; the line that a shell parses and the buffer that grep    *)
(* scans are text.                                                         *)

ProcessState ==
  /\ DOMAIN pc = Process /\ DOMAIN local = Process
  /\ \A p \in Process : DOMAIN local[p] = DOMAIN Blank
  /\ \A p \in Process : p < running => pc[p] \in {"shell.status", "any"}

BufferOK ==
  At("grep.scan") => Me.data \in Seq(STRING) /\ Text(Me.file) \in Seq(STRING)

LineOK == At("shell.run") => Data \in Seq(STRING)

(* What a step does to where the processes are. *)
Claimed == {"shell.run", "shell.status", "grep.scan", "cat", "grep", "sigtest"}

Plain ==
  /\ Calm
  /\ \E label, new :
       /\ Go(label, new) /\ DOMAIN new = DOMAIN Blank
       /\ label \notin Claimed /\ (label = "any" => At("any"))

Types ==
  /\ Calm
  /\ \E new : Go("shell.run", new) /\ DOMAIN new = DOMAIN Blank
  /\ reply'[running].data \in Seq(STRING)

Scans ==
  \E fd, new :
    /\ \E n \in Int : Read(fd, n)
    /\ Go("grep.scan", new) /\ DOMAIN new = DOMAIN Blank
    /\ new.file = fd /\ new.data \in Seq(STRING)

Runs ==
  \E command \in Seq(STRING) : \E label \in {"shell.status", "any"} :
    Run(command, label) /\ (label = "any" => At("any"))

Quits == \E pieces : \E status \in Int : Quit(pieces, status)

SessionStep ==
  Plain \/ Types \/ Scans \/ Runs \/ Quits \/ UNCHANGED <<vars, pc, local>>

IsPlain(label) == label \notin Claimed /\ label # "any"

LEMMA PlainPlaces ==
  /\ IsPlain("shell") /\ IsPlain("none") /\ IsPlain("cat.open")
  /\ IsPlain("cat.read") /\ IsPlain("cat.write") /\ IsPlain("ls.read")
  /\ IsPlain("ls.write") /\ IsPlain("grep.list") /\ IsPlain("grep.directory")
  /\ IsPlain("grep.name") /\ IsPlain("grep.file") /\ IsPlain("grep.close")
  /\ IsPlain("syserr.choose") /\ IsPlain("syserr.call") /\ IsPlain("hello.name")
  /\ IsPlain("counter.count") /\ IsPlain("sigtest.handlers") /\ IsPlain("sigtest.name")
  /\ IsPlain("sigtest.fault") /\ IsPlain("fish.rtc") /\ IsPlain("fish.file1")
  /\ IsPlain("fish.file2") /\ IsPlain("fish.start") /\ IsPlain("fish.look1")
  /\ IsPlain("fish.look2") /\ IsPlain("fish.draw") /\ IsPlain("fish.got1")
  /\ IsPlain("fish.got2") /\ IsPlain("fish.close1") /\ IsPlain("fish.close2")
  /\ IsPlain("fish.rate") /\ IsPlain("fish.blink") /\ IsPlain("fish.mark")
  /\ IsPlain("fish.sync") /\ IsPlain("fish.remove") /\ IsPlain("fish.close")
  /\ IsPlain("fish.exit")
BY DEF IsPlain, Claimed

LEMMA PlainBy ==
  ASSUME TypeOK, ProcessState
  PROVE  /\ running \in Process /\ DOMAIN Me = DOMAIN Blank
         /\ \A label, new :
              Calm /\ Go(label, new) /\ DOMAIN new = DOMAIN Me /\ IsPlain(label)
                => SessionStep
         /\ \A label, new :
              Calm /\ Then(label, new) /\ DOMAIN new = DOMAIN Me /\ IsPlain(label)
                => SessionStep
         /\ \A pieces, status : Quit(pieces, status) /\ status \in Int => SessionStep
         /\ \A pieces : Quit(pieces, 0) => SessionStep
<1>1. running \in Process /\ DOMAIN Me = DOMAIN Blank
  BY RunningType DEF ProcessState, Me
<1>2. \A label, new :
        Calm /\ Go(label, new) /\ DOMAIN new = DOMAIN Me /\ IsPlain(label) => Plain
  BY <1>1 DEF Plain, IsPlain
<1>3. 0 \in Int
  BY SMT
<1> QED
  BY <1>1, <1>2, <1>3 DEF Quits, SessionStep, Then

LEMMA CatSteps ==
  ASSUME TypeOK, OnDisk, ProcessState, Cat \/ Ls
  PROVE  SessionStep
<1>1. Cat => SessionStep
  BY CallsAreCalm, PlainBy, PlainPlaces DEF Cat
<1>2. Ls => SessionStep
  BY CallsAreCalm, PlainBy, PlainPlaces DEF Ls
<1> QED
  BY <1>1, <1>2

LEMMA HelloSteps ==
  ASSUME TypeOK, OnDisk, ProcessState, Hello \/ Counter \/ SigTest
  PROVE  SessionStep
<1>1. Hello => SessionStep
  BY CallsAreCalm, PlainBy, PlainPlaces DEF Hello
<1>2. Counter => SessionStep
  BY CallsAreCalm, PlainBy, PlainPlaces DEF Counter
<1>3. SigTest => SessionStep
  BY CallsAreCalm, PlainBy, PlainPlaces DEF SigTest, SessionStep
<1> QED
  BY <1>1, <1>2, <1>3

LEMMA FishSteps ==
  ASSUME TypeOK, OnDisk, ProcessState, Fish
  PROVE  SessionStep
<1>1. FishOpens => SessionStep
  BY CallsAreCalm, PlainBy, PlainPlaces DEF FishOpens
<1>2. FishDraws => SessionStep
  BY CallsAreCalm, PlainBy, PlainPlaces DEF FishDraws
<1>3. FishBlinks => SessionStep
  BY CallsAreCalm, PlainBy, PlainPlaces DEF FishBlinks
<1>4. ASSUME NEW i \in 1 .. 2, FishReads(i)
      PROVE  SessionStep
  <2>1. /\ IsPlain(Got[i]) /\ IsPlain(LookAt[i + 1])
    <3>1. i = 1 \/ i = 2
      BY SMT
    <3> QED
      BY <3>1, PlainPlaces DEF Got, LookAt
  <2>2. Calm /\ \E label, new :
          Then(label, new) /\ DOMAIN new = DOMAIN Me /\ IsPlain(label)
    <3>1. Calm
      BY <1>4, CallsAreCalm DEF FishReads
    <3> DEFINE atEnd == [Me EXCEPT !.data.c[i] = Newline, !.data.eof[i] = TRUE]
               looked == [Me EXCEPT !.data.c[i] = Text(FrameFd(i))[1]]
               new == IF Result = 0 THEN atEnd ELSE IF Result = 1 THEN looked ELSE Me
    <3>2. Then(Got[i], Me) \/ Then(LookAt[i + 1], Me) \/ Then(LookAt[i + 1], new)
      BY <1>4, Zenon DEF FishReads
    <3>3. DOMAIN new = DOMAIN Me
      OBVIOUS
    <3> HIDE DEF new
    <3> QED
      BY <2>1, <3>1, <3>2, <3>3
  <2> QED
    BY <2>2, PlainBy
<1>5. ASSUME NEW i \in 1 .. 2, FishCloses(i)
      PROVE  SessionStep
  <2>1. Calm
    BY <1>5, CallsAreCalm DEF FishCloses
  <2> DEFINE new == IF Seen.eof[i] THEN Me ELSE [Me EXCEPT !.data.c[i] = "0"]
             label == IF Seen.eof = <<TRUE, TRUE>> THEN "fish.rate" ELSE "fish.look1"
  <2>2. \/ Then("fish.close2", new)
        \/ Then(label, [new EXCEPT !.data.row = @ + 1])
    BY <1>5 DEF FishCloses
  <2>3. IsPlain(label) /\ DOMAIN new = DOMAIN Me
    BY PlainPlaces
  <2>4. DOMAIN [new EXCEPT !.data.row = @ + 1] = DOMAIN new
    OBVIOUS
  <2> HIDE DEF new, label
  <2> QED
    BY <2>1, <2>2, <2>3, <2>4, PlainBy, PlainPlaces
<1> QED
  BY <1>1, <1>2, <1>3, <1>4, <1>5 DEF Fish

LEMMA SysErrSteps ==
  ASSUME TypeOK, OnDisk, ProcessState, SysErr
  PROVE  SessionStep
<1>1. \A c : Perform(c) => Calm
  BY CallsAreCalm DEF Perform
<1>2. \A failed \in SUBSET (1 .. 8) : 2 * Cardinality(failed) \in Int
  <2> TAKE failed \in SUBSET (1 .. 8)
  <2>1. IsFiniteSet(1 .. 8)
    <3>1. 1 \in Int /\ 8 \in Int
      BY SMT
    <3> QED
      BY <3>1, FS_Interval
  <2>2. Cardinality(failed) \in Nat
    BY <2>1, FS_Subset, FS_CardinalityType
  <2> QED
    BY <2>2, SMT
<1> DEFINE done == Me.data[Me.k]
           new == [Me EXCEPT
                     !.k = @ + 1,
                     !.count[done[1]] =
                       IF Result = -1 /\ Counted(done) THEN @ + 1 ELSE @]
           tests == {t \in 1 .. 8 : \E k \in DOMAIN Me.data : Me.data[k][1] = t}
           failed == {t \in tests : new.count[t] # Expected(t)}
           chosen == [Me EXCEPT !.data = Plan(Choice[Data[1]]), !.k = 1]
<1>3. \/ /\ \E line : ReadLine(line)
         /\ Then("syserr.choose", Me)
      \/ Quit(<<>>, 0)
      \/ (\E c : Perform(c)) /\ Then("syserr.call", chosen)
      \/ (\E c : Perform(c)) /\ Then("syserr.call", new)
      \/ Quit(<<>>, 2 * Cardinality(failed))
  BY Zenon DEF SysErr
<1>4. DOMAIN new = DOMAIN Me /\ DOMAIN chosen = DOMAIN Me
      /\ failed \in SUBSET (1 .. 8) /\ 0 \in Int
  OBVIOUS
<1> HIDE DEF new, failed, chosen
<1> QED
  BY <1>1, <1>2, <1>3, <1>4, CallsAreCalm, PlainBy, PlainPlaces

LEMMA FailSteps ==
  ASSUME TypeOK, OnDisk, ProcessState, CallFailed
  PROVE  SessionStep
<1>1. \A label : label \in {"cat.open", "cat.read", "cat.write", "ls.read", "ls.write",
        "grep.list", "grep.directory", "grep.name", "grep.file", "grep.scan",
        "grep.close", "sigtest.handlers", "fish.rtc", "fish.file2", "fish.start"}
          => ExitOnError(label) \in {3, 2, -1}
  BY Zenon DEF ExitOnError
<1>2. ExitOnError(pc[running]) \in Int
  BY <1>1, SMT DEF CallFailed
<1> QED
  BY <1>2, PlainBy DEF CallFailed

LEMMA FieldsOfBlank == {"text", "file", "data"} \subseteq DOMAIN Blank
BY DEF Blank

LEMMA BufSizes == BufSize \in Nat /\ BufSize \in Int /\ NameLen \in Int /\ TrySizes \subseteq Int
BY SessionAssumption, SizesAreNat, SMT

LEMMA GrepSteps ==
  ASSUME TypeOK, OnDisk, ProcessState, BufferOK, Grep
  PROVE  SessionStep
<1>1. DOMAIN Me = DOMAIN Blank
  BY PlainBy
<1>2. ASSUME NEW new, DOMAIN new = DOMAIN Me, NEW n \in Int, Read(new.file, n),
             Go("grep.scan", new), new.data \in Seq(STRING)
      PROVE  SessionStep
  BY <1>1, <1>2 DEF Scans, SessionStep
<1>3. CASE At("grep.file")
  <2> DEFINE new == [Me EXCEPT !.file = Result, !.data = <<>>, !.high = 0]
  <2>1. Read(Result, BufSize) /\ Then("grep.scan", new)
    BY <1>3 DEF Grep, GrepScan, At
  <2>2. DOMAIN new = DOMAIN Me /\ new.file = Result /\ new.data = <<>>
    BY <1>1, FieldsOfBlank
  <2>3. <<>> \in Seq(STRING)
    OBVIOUS
  <2> HIDE DEF new
  <2> QED
    BY <1>2, <2>1, <2>2, <2>3, BufSizes DEF Then
<1>4. CASE GrepScan
  <2> DEFINE data == Me.data \o Text(Me.file)
  <2>1. data \in Seq(STRING)
    BY <1>4, ConcatProperties DEF BufferOK, GrepScan
  <2> DEFINE s(stale) == Scan(data, Result, Me.text, stale)
             beyond(stale) == stale /\ Len(data) = BufSize
             open == \A k \in DOMAIN data : k = Len(data) => data[k] # Newline
             filled == IF open THEN Len(data) + 1 ELSE Len(data)
             new(stale) == [Me EXCEPT !.data = s(stale).rest,
                                      !.high = IF filled < @ THEN @ ELSE filled,
                                      !.k = IF beyond(stale) THEN 1 ELSE @]
  <2>2. PICK stale \in BOOLEAN :
          IF Result = 0
            THEN Close(Me.file) /\ Go("grep.close", new(stale))
            ELSE Read(Me.file, BufSize - Len(s(stale).rest)) /\ Go("grep.scan", new(stale))
    BY <1>4, Zenon DEF GrepScan
  <2>3. s(stale).rest \in Seq(STRING)
    BY <2>1, ScanType
  <2>4. BufSize - Len(s(stale).rest) \in Int
    <3> HIDE DEF s
    <3> QED
      BY <2>3, BufSizes, SMT
  <2>5. /\ DOMAIN new(stale) = DOMAIN Me /\ new(stale).file = Me.file
        /\ new(stale).data = s(stale).rest
    BY <1>1, FieldsOfBlank
  <2> HIDE DEF new, s
  <2> QED
    BY <1>2, <2>2, <2>3, <2>4, <2>5, CallsAreCalm, PlainBy, PlainPlaces
<1>5. CASE ~At("grep.file") /\ ~GrepScan
  BY <1>5, CallsAreCalm, PlainBy, PlainPlaces DEF Grep
<1> QED
  BY <1>3, <1>4, <1>5

LEMMA ShellSteps ==
  ASSUME TypeOK, OnDisk, ProcessState, LineOK, Shell
  PROVE  SessionStep
<1>1. running \in Process /\ DOMAIN Me = DOMAIN Blank /\ DOMAIN reply = Process
  BY PlainBy, RunningType
<1>2. CASE Prompt
  <2> DEFINE new == [Me EXCEPT !.text = <<>>]
  <2>1. PICK command \in Typed(inode, running) : ReadLine(Append(command, Newline))
    BY <1>2 DEF Prompt
  <2>2. command \in Seq(STRING) /\ Newline \in STRING
    BY <1>1, <2>1, SessionAssumption DEF OnDisk
  <2>3. Append(command, Newline) \in Seq(STRING)
    BY <2>2, AppendProperties
  <2>4. reply'[running].data = Append(command, Newline)
    BY <1>1, <2>1 DEF ReadLine, OnlyReturn, Return
  <2>5. Go("shell.run", new) /\ DOMAIN new = DOMAIN Me
    BY <1>2 DEF Prompt
  <2> HIDE DEF new
  <2> QED
    BY <1>1, <2>1, <2>3, <2>4, <2>5, CallsAreCalm DEF Types, SessionStep
<1>3. CASE Obey
  <2> DEFINE command == SubSeq(Data, 1, Len(Data) - 1)
  <2>1. \/ Quit(<<>>, 0)
        \/ HaltBase /\ Then("shell", Me)
        \/ UNCHANGED vars /\ Then("shell", Me)
        \/ Run(command, "shell.status")
    BY <1>3, Zenon DEF Obey
  <2>2. Data \in Seq(STRING)
    BY <1>3 DEF Obey, LineOK
  <2>3. command \in Seq(STRING)
    <3>1. Len(Data) - 1 \in Int /\ Len(Data) - 1 <= Len(Data) /\ Len(Data) \in Nat
      BY <2>2, SMT
    <3> QED
      BY <2>2, <3>1, SMT
  <2>4. Run(command, "shell.status") => Runs
    <3> HIDE DEF command
    <3> QED
      BY <2>3 DEF Runs
  <2> HIDE DEF command
  <2> QED
    BY <2>1, <2>4, CallsAreCalm, PlainBy, PlainPlaces DEF SessionStep
<1>4. CASE Report
  BY <1>4, CallsAreCalm, PlainBy, PlainPlaces DEF Report
<1> QED
  BY <1>2, <1>3, <1>4 DEF Shell

LEMMA AnySteps ==
  ASSUME TypeOK, OnDisk, ProcessState, AnyProgram
  PROVE  SessionStep
<1>1. running \in Process /\ DOMAIN Me = DOMAIN Blank
  BY PlainBy
<1>2. CASE Calm /\ Then("any", Me)
  <2>1. "any" \notin Claimed /\ At("any")
    BY DEF Claimed, AnyProgram
  <2> QED
    BY <1>1, <1>2, <2>1 DEF Then, Plain, SessionStep
<1>3. CASE \E command \in TryCommands : Run(command, "any")
  <2>1. At("any") /\ TryCommands \subseteq Seq(STRING)
    BY SessionAssumption DEF AnyProgram
  <2> QED
    BY <1>3, <2>1 DEF Runs, SessionStep
<1>4. CASE \E status \in {0, -1} : Quit(<<>>, status)
  <2>1. \A status \in {0, -1} : status \in Int
    BY SMT
  <2> QED
    BY <1>4, <2>1, PlainBy
<1> QED
  BY <1>2, <1>3, <1>4, CallsAreCalm DEF AnyProgram

LEMMA SessionSteps ==
  ASSUME TypeOK, OnDisk, ProcessState, BufferOK, LineOK, NextSession
  PROVE  SessionStep
BY CatSteps, HelloSteps, FishSteps, SysErrSteps, FailSteps, GrepSteps, ShellSteps,
   AnySteps DEF NextSession

(* Every step is a call of which Streams knows what it promises. *)
LEMMA SessionCallsAny ==
  ASSUME TypeOK, OnDisk, ProcessState, BufferOK, NextSession
  PROVE  AnyCall
<1>1. /\ \A name : Open(name) => AnyCall
      /\ \A fd : \A n \in Int : Read(fd, n) => AnyCall
      /\ \A fd, n : Write(fd, n) => AnyCall
      /\ \A fd : Close(fd) => AnyCall
      /\ \A line : ReadLine(line) => AnyCall
      /\ \A inside : Vidmap(inside) => AnyCall
      /\ \A n : GetArgs(n) => AnyCall
      /\ Refused => AnyCall
      /\ HaltBase => AnyCall
      /\ UNCHANGED vars => AnyCall
  BY DEF AnyCall, HaltBase
<1>2. \A pieces, status : Quit(pieces, status) => AnyCall
  BY DEF Quit, AnyCall
<1>3. \A command, label : Run(command, label) => AnyCall
  BY DEF Run, AnyCall
<1>4. 1 \in Int /\ 4 \in Int
  BY SMT
<1>5. AnyProgram => AnyCall
  BY <1>1, <1>2, <1>3, BufSizes DEF AnyProgram
<1>6. Shell => AnyCall
  BY <1>1, <1>2, <1>3 DEF Shell, Prompt, Obey, Report
<1>7. Cat \/ Ls => AnyCall
  BY <1>1, <1>2, BufSizes DEF Cat, Ls
<1>8. GrepScan => AnyCall
  <2> SUFFICES ASSUME GrepScan
               PROVE  AnyCall
    OBVIOUS
  <2> DEFINE data == Me.data \o Text(Me.file)
             s(stale) == Scan(data, Result, Me.text, stale)
  <2>1. data \in Seq(STRING)
    BY ConcatProperties DEF BufferOK, GrepScan
  <2>2. PICK stale \in BOOLEAN :
          Close(Me.file) \/ Read(Me.file, BufSize - Len(s(stale).rest))
    BY Zenon DEF GrepScan
  <2>3. s(stale).rest \in Seq(STRING)
    BY <2>1, ScanType
  <2> HIDE DEF s
  <2>4. BufSize - Len(s(stale).rest) \in Int
    BY <2>3, BufSizes, SMT
  <2> QED
    BY <1>1, <2>2, <2>4
<1>9. Grep => AnyCall
  BY <1>1, <1>2, <1>8, BufSizes DEF Grep
<1>10. SysErr => AnyCall
  BY <1>1, <1>2, BufSizes DEF SysErr, Perform
<1>11. Hello \/ Counter \/ SigTest => AnyCall
  BY <1>1, <1>2 DEF Hello, Counter, SigTest
<1>12. Fish => AnyCall
  BY <1>1, <1>2, <1>4 DEF Fish, FishOpens, FishReads, FishDraws, FishCloses, FishBlinks
<1>13. CallFailed => AnyCall
  BY <1>2 DEF CallFailed
<1> QED
  BY <1>5, <1>6, <1>7, <1>9, <1>10, <1>11, <1>12, <1>13 DEF NextSession

-----------------------------------------------------------------------------
(* The invariant of a session, one kind of step at a time.                 *)

(* What a step of a process leaves to the others. *)
LEMMA GoType ==
  ASSUME TypeOK, ProcessState, NEW label, NEW new, Go(label, new),
         DOMAIN new = DOMAIN Blank
  PROVE  /\ DOMAIN pc' = Process /\ DOMAIN local' = Process
         /\ pc'[running] = label /\ local'[running] = new
         /\ \A p \in Process \ {running} : pc'[p] = pc[p] /\ local'[p] = local[p]
         /\ \A p \in Process : DOMAIN local'[p] = DOMAIN Blank
BY RunningType DEF ProcessState, Go

LEMMA GoProcesses ==
  ASSUME TypeOK, ProcessState, UNCHANGED running, NEW label, NEW new, Go(label, new),
         DOMAIN new = DOMAIN Blank
  PROVE  ProcessState'
<1>1. running' = running /\ running \in Nat
  BY RunningType
<1>2. \A p \in Process : p < running => p # running
  BY <1>1, SizesAreNat, SMT DEF Process
<1>3. \A p \in Process : p < running => pc'[p] \in {"shell.status", "any"}
  BY <1>2, GoType DEF ProcessState
<1> QED
  BY <1>1, <1>3, GoType DEF ProcessState

(* grep's buffer after a read. *)
LEMMA BytesAreText ==
  ASSUME NEW bytes \in Seq(Byte)
  PROVE  [k \in DOMAIN bytes |-> Disk[bytes[k]]] \in Seq(STRING)
<1>1. Len(bytes) \in Nat /\ DOMAIN bytes = 1 .. Len(bytes)
  BY SMT
<1>2. \A k \in 1 .. Len(bytes) : bytes[k] \in Byte
  BY <1>1, ElementOfSeq
<1>3. \A k \in 1 .. Len(bytes) : Disk[bytes[k]] \in STRING
  BY <1>2, SessionAssumption
<1> QED
  BY <1>1, <1>3, SMT

LEMMA EmptyText ==
  [k \in DOMAIN <<>> |-> Disk[<<>>[k]]] \in Seq(STRING) /\ <<>> \in Seq(STRING)
<1>1. <<>> \in Seq(Byte)
  OBVIOUS
<1> QED
  BY <1>1, BytesAreText

LEMMA ReadGivesText ==
  ASSUME TypeOK, OnDisk, NEW fd, NEW n \in Int, Read(fd, n)
  PROVE  LET data == reply'[running].data IN
         IF fdarray'[running][fd].fops = "file_fops"
           THEN [k \in DOMAIN data |-> Disk[data[k]]] \in Seq(STRING)
           ELSE data \in Seq(STRING)
<1> DEFINE f == Entry(fd)
           data == reply'[running].data
<1>1. running \in Process /\ DOMAIN reply = Process
      /\ fdarray \in [Process -> [Fd -> Descriptor]]
  BY RunningType
<1>2. \A call, value, d : Return(call, value, d) => data = d
  BY <1>1 DEF Return
<1>3. CASE ~(Active(fd) /\ n >= 0)
  <2>1. data = <<>>
    BY <1>2, <1>3 DEF Read, Fail
  <2> QED
    BY <2>1, EmptyText
<1>4. CASE Active(fd) /\ n >= 0
  <2>1. fd \in Fd /\ f \in Descriptor /\ n \in Nat /\ f = fdarray[running][fd]
    BY <1>4, RunningType, SMT DEF Active, Entry
  <2>2. \A entry : SetsDescriptor(fd, entry) => fdarray'[running][fd] = entry
    BY <1>1, <2>1 DEF SetsDescriptor
  <2>3. CASE FileRead(fd, n)
    <3> DEFINE r == ReadData(inode[f.inode_num], f.file_pos, n)
    <3>1. f.inode_num \in DOMAIN inode /\ Inode(inode[f.inode_num]) /\ f.file_pos \in Nat
      BY <2>1, InodesOnDisk, SizesAreNat, SMT DEF Descriptor
    <3>2. r.bytes \in Seq(Byte)
      BY <3>1, ReadDataType DEF ReadOK
    <3>3. data = r.bytes
      BY <1>2, <2>3 DEF FileRead
    <3> HIDE DEF r
    <3>4. \E pos : fdarray'[running][fd] = [f EXCEPT !.file_pos = pos]
      BY <2>2, <2>3 DEF FileRead
    <3>5. f.fops = "file_fops"
      BY <2>3 DEF FileRead
    <3>6. fdarray'[running][fd].fops = "file_fops"
      BY <2>1, <3>4, <3>5 DEF Descriptor
    <3> QED
      BY <3>2, <3>3, <3>6, BytesAreText
  <2>4. CASE DirectoryRead(fd, n)
    <3> DEFINE k == f.file_pos + 1
               name == Directory[k].filename
               read == IF n < Len(name) THEN n ELSE Len(name)
    <3>1. f.fops = "dir_fops"
      BY <2>4 DEF DirectoryRead
    <3>2. CASE k \in DOMAIN Directory
      <4>1. name \in Seq(STRING)
        BY <3>2, ImageAssumption
      <4>2. SubSeq(name, 1, read) \in Seq(STRING)
        BY <2>1, <4>1, CutType
      <4>3. data = SubSeq(name, 1, read)
        BY <1>2, <2>4, <3>2 DEF DirectoryRead
      <4>4. fdarray'[running][fd] = [f EXCEPT !.file_pos = k]
        BY <2>2, <2>4, <3>2 DEF DirectoryRead
      <4> HIDE DEF k, name, read
      <4>5. fdarray'[running][fd].fops = "dir_fops"
        BY <2>1, <3>1, <4>4 DEF Descriptor
      <4> QED
        BY <4>2, <4>3, <4>5
    <3>3. CASE k \notin DOMAIN Directory
      <4>1. OnlyReturn(<<"read", fd, n>>, 0, <<>>)
        BY <2>4, <3>3 DEF DirectoryRead
      <4>2. data = <<>>
        BY <1>2, <4>1 DEF OnlyReturn
      <4> QED
        BY <4>2, EmptyText
    <3> QED
      BY <3>2, <3>3
  <2>5. CASE RtcRead(fd, n)
    <3>1. data = <<>>
      BY <1>2, <2>5 DEF RtcRead, OnlyReturn
    <3> QED
      BY <3>1, EmptyText
  <2> QED
    BY <1>4, <2>3, <2>4, <2>5 DEF Read
<1> QED
  BY <1>3, <1>4

(* What the shells know of what they have executed. *)
CanRun(p) ==
  /\ p + 1 \in Process
  /\ Known(NameOf(local[p].text))
  /\ Executable(inode[Lookup(NameOf(local[p].text)).inode_num])

Reported ==
  AllSound => \A p \in Process : p <= running /\ pc[p] = "shell.status" =>
    /\ p < running => CanRun(p)
    /\ p = running => (reply[p].value = -1 <=> ~CanRun(p))

SessionInv ==
  /\ FilesInv /\ StreamInv /\ ProcessState /\ BufferOK /\ LineOK
  /\ CommandParsed /\ Reported

(* A step of the process that runs, to a place of which at most the shell   *)
(* has something to say.                                                   *)
Stays ==
  /\ UNCHANGED <<inode, running>>
  /\ \A p \in Process : p <= running =>
       /\ program'[p] = program[p]
       /\ p # running => args'[p] = args[p] /\ reply'[p] = reply[p]

LEMMA StayClaims ==
  ASSUME TypeOK, ProcessState, CommandParsed, Reported, Stays,
         NEW label, NEW new, Go(label, new), DOMAIN new = DOMAIN Blank,
         label \notin {"cat", "grep", "sigtest"}, label = "any" => At("any"),
         label = "shell.status" /\ AllSound' =>
           \A p \in Process : p = running => (reply'[p].value = -1 <=> ~CanRun(p)')
  PROVE  CommandParsed' /\ Reported'
<1>1. /\ running' = running /\ running \in Process /\ running \in Nat
      /\ UNCHANGED inode
      /\ \A p \in Process : p <= running =>
           /\ program'[p] = program[p]
           /\ p # running => args'[p] = args[p] /\ reply'[p] = reply[p]
  BY RunningType DEF Stays
<1>2. /\ pc'[running] = label /\ local'[running] = new
      /\ \A p \in Process \ {running} : pc'[p] = pc[p] /\ local'[p] = local[p]
  BY GoType
<1>3. CommandParsed'
  <2> SUFFICES ASSUME NEW p \in Process \ {0}, p <= running,
                      pc'[p] \in {"cat", "grep", "sigtest", "any"}
               PROVE  /\ program'[p] = Lookup(NameOf(local'[p - 1].text)).inode_num
                      /\ pc'[p] # "any" => args'[p] = ArgsOf(local'[p - 1].text)
    BY <1>1 DEF CommandParsed
  <2>1. p - 1 \in Process /\ p - 1 # running
    BY <1>1, SizesAreNat, SMT DEF Process
  <2>2. local'[p - 1] = local[p - 1]
    BY <1>2, <2>1
  <2>3. CASE p = running
    <3>1. pc'[p] = "any" /\ pc[p] = "any"
      BY <1>2, <2>3 DEF At
    <3> QED
      BY <1>1, <2>2, <3>1 DEF CommandParsed
  <2>4. CASE p # running
    BY <1>1, <1>2, <2>2, <2>4 DEF CommandParsed
  <2> QED
    BY <2>3, <2>4
<1>4. Reported'
  <2> SUFFICES ASSUME AllSound', NEW p \in Process, p <= running,
                      pc'[p] = "shell.status"
               PROVE  /\ p < running => CanRun(p)'
                      /\ p = running => (reply'[p].value = -1 <=> ~CanRun(p)')
    BY <1>1 DEF Reported
  <2>1. CASE p = running
    <3>1. ~(p < running) /\ pc'[running] = "shell.status"
      BY <1>1, <2>1, SMT
    <3>2. reply'[p].value = -1 <=> ~CanRun(p)'
      BY <1>2, <2>1, <3>1
    <3> QED
      BY <2>1, <3>1, <3>2
  <2>2. CASE p # running
    <3>1. AllSound /\ pc[p] = "shell.status" /\ p < running
      BY <1>1, <1>2, <2>2, SizesAreNat, SMT DEF AllSound, Process
    <3>2. CanRun(p)
      BY <1>1, <3>1 DEF Reported
    <3>3. CanRun(p)'
      BY <1>1, <1>2, <2>2, <3>2 DEF CanRun
    <3> QED
      BY <2>2, <3>3
  <2> QED
    BY <2>1, <2>2
<1> QED
  BY <1>3, <1>4

LEMMA CalmStays ==
  ASSUME TypeOK, Calm
  PROVE  Stays
BY DEF Calm, Stays

LEMMA PlainKeeps ==
  ASSUME SessionInv, Plain
  PROVE  ProcessState' /\ BufferOK' /\ LineOK' /\ CommandParsed' /\ Reported'
<1>1. PICK label, new : /\ Go(label, new) /\ DOMAIN new = DOMAIN Blank
                        /\ label \notin Claimed /\ (label = "any" => At("any"))
  BY DEF Plain
<1>2. TypeOK /\ ProcessState /\ CommandParsed /\ Reported /\ Stays /\ UNCHANGED running
  BY CalmStays DEF SessionInv, FilesInv, Plain, Stays
<1>3. label \notin {"shell.run", "grep.scan", "shell.status", "cat", "grep", "sigtest"}
  BY <1>1 DEF Claimed
<1>4. ProcessState' /\ pc'[running'] = label
  BY <1>1, <1>2, GoProcesses, GoType
<1>5. BufferOK' /\ LineOK'
  BY <1>3, <1>4 DEF BufferOK, LineOK, At
<1>6. CommandParsed' /\ Reported'
  BY <1>1, <1>2, <1>3, StayClaims
<1> QED
  BY <1>4, <1>5, <1>6

LEMMA TypesKeeps ==
  ASSUME SessionInv, Types
  PROVE  ProcessState' /\ BufferOK' /\ LineOK' /\ CommandParsed' /\ Reported'
<1>1. PICK new : Go("shell.run", new) /\ DOMAIN new = DOMAIN Blank
  BY DEF Types
<1>2. TypeOK /\ ProcessState /\ CommandParsed /\ Reported /\ Stays /\ UNCHANGED running
  BY CalmStays DEF SessionInv, FilesInv, Types, Stays
<1>3. ProcessState' /\ pc'[running'] = "shell.run"
  BY <1>1, <1>2, GoProcesses, GoType
<1>4. BufferOK' /\ LineOK'
  BY <1>2, <1>3 DEF BufferOK, LineOK, At, Data, Types
<1>5. CommandParsed' /\ Reported'
  BY <1>1, <1>2, StayClaims
<1> QED
  BY <1>3, <1>4, <1>5

LEMMA ScansKeeps ==
  ASSUME SessionInv, Scans
  PROVE  ProcessState' /\ BufferOK' /\ LineOK' /\ CommandParsed' /\ Reported'
<1>1. PICK fd, new :
        /\ \E n \in Int : Read(fd, n)
        /\ Go("grep.scan", new) /\ DOMAIN new = DOMAIN Blank
        /\ new.file = fd /\ new.data \in Seq(STRING)
  BY DEF Scans
<1>2. TypeOK /\ OnDisk /\ ProcessState /\ CommandParsed /\ Reported
  BY DEF SessionInv, FilesInv
<1>3. Calm
  BY <1>1, <1>2, ReadIsCalm
<1>4. Stays /\ UNCHANGED running
  BY <1>2, <1>3, CalmStays DEF Stays
<1>5. ProcessState' /\ pc'[running'] = "grep.scan" /\ local'[running'] = new
  BY <1>1, <1>2, <1>4, GoProcesses, GoType
<1>6. IF fdarray'[running][fd].fops = "file_fops"
        THEN [k \in DOMAIN reply'[running].data |-> Disk[reply'[running].data[k]]]
               \in Seq(STRING)
        ELSE reply'[running].data \in Seq(STRING)
  BY <1>1, <1>2, ReadGivesText
<1>7. BufferOK'
  BY <1>1, <1>4, <1>5, <1>6 DEF BufferOK, Me, Text, Entry, Data
<1>8. LineOK'
  BY <1>5 DEF LineOK, At
<1>9. CommandParsed' /\ Reported'
  BY <1>1, <1>2, <1>4, StayClaims
<1> QED
  BY <1>5, <1>7, <1>8, <1>9

(* An execute that fails, or finds the program damaged. *)
LEMMA FailedRunKeeps ==
  ASSUME SessionInv, NEW command \in Seq(STRING), NEW label \in {"shell.status", "any"},
         Run(command, label), label = "any" => At("any"), running' = running
  PROVE  ProcessState' /\ BufferOK' /\ LineOK' /\ CommandParsed' /\ Reported'
<1> DEFINE new == [Me EXCEPT !.text = command]
           program_ == Lookup(NameOf(command)).inode_num
           node == inode[program_]
           next == running + 1
           allowed == next \in Process /\ Known(NameOf(command)) /\ Executable(node)
<1>1. TypeOK /\ OnDisk /\ ProcessState /\ CommandParsed /\ Reported
  BY DEF SessionInv, FilesInv
<1>2. running \in Process /\ running \in Nat /\ DOMAIN reply = Process
      /\ DOMAIN Me = DOMAIN Blank
  BY <1>1, RunningType, PlainBy
<1>3. Execute(command) /\ Go(label, new)
  <2>1. local' = [local EXCEPT ![running] = new]
    BY DEF Run, Me
  <2>2. pc' = [pc EXCEPT ![running] = label]
    BY DEF Run
  <2> QED
    BY <2>1, <2>2 DEF Run, Go
<1>4. DOMAIN new = DOMAIN Blank /\ new.text = command
  BY <1>2, FieldsOfBlank
<1>5. Parse(command).name = NameOf(command)
  BY ParseFinds
<1>6. \/ ~allowed /\ Fail(<<"execute">>)
      \/ /\ allowed
         /\ CopyProgramImage(node).count = -1
         /\ program' = [program EXCEPT ![next] = program_]
         /\ args' = [args EXCEPT ![next] = <<>>]
         /\ Return(<<"execute">>, -1, <<>>)
         /\ UNCHANGED inode
  <2>1. next # running
    BY <1>2, SMT
  <2> HIDE DEF next
  <2> QED
    BY <1>3, <1>5, <2>1 DEF Execute, next
<1>7. Stays
  <2>1. \A p \in Process : p <= running => p # next
    BY <1>2, SizesAreNat, SMT DEF Process
  <2>2. CASE Fail(<<"execute">>)
    BY <1>1, <2>2, FailIsCalm, CalmStays
  <2>3. CASE ~Fail(<<"execute">>)
    <3>1. /\ program' = [program EXCEPT ![next] = program_]
          /\ args' = [args EXCEPT ![next] = <<>>]
          /\ Return(<<"execute">>, -1, <<>>)
          /\ UNCHANGED inode
      BY <1>6, <2>3
    <3>2. DOMAIN program = Process /\ DOMAIN args = Process
      BY <1>1 DEF TypeOK
    <3> HIDE DEF next, program_
    <3> QED
      BY <1>2, <2>1, <3>1, <3>2 DEF Stays, Return
  <2> QED
    BY <2>2, <2>3
<1>8. reply'[running].value = -1
  BY <1>2, <1>6 DEF Fail, Return
<1>9. AllSound' => ~allowed
  <2> SUFFICES ASSUME AllSound', allowed
               PROVE  FALSE
    OBVIOUS
  <2>1. CopyProgramImage(node).count = -1 /\ UNCHANGED inode
    BY <1>6
  <2>2. program_ \in DOMAIN inode /\ Inode(node) /\ Sound(node)
    BY <1>1, <2>1, LookupType, InodesOnDisk DEF AllSound
  <2>3. CopyProgramImage(node) = Done(Content(node)) /\ Len(Content(node)) \in Nat
    BY <2>2, CopySound, ContentType
  <2> HIDE DEF node
  <2> QED
    BY <2>1, <2>3, SMT DEF Done
<1>10. AllSound' => \A p \in Process : p = running =>
         (reply'[p].value = -1 <=> ~CanRun(p)')
  <2> SUFFICES ASSUME AllSound', NEW p \in Process, p = running
               PROVE  ~CanRun(p)'
    BY <1>8
  <2>1. local'[p].text = command /\ UNCHANGED inode
    BY <1>1, <1>3, <1>4, <1>7, GoType DEF Stays
  <2>2. CanRun(p)' => allowed
    BY <2>1 DEF CanRun
  <2> QED
    BY <1>9, <2>2
<1> HIDE DEF new, allowed
<1>11. ProcessState' /\ pc'[running'] = label
  BY <1>1, <1>3, <1>4, GoProcesses, GoType
<1>12. BufferOK' /\ LineOK'
  BY <1>11 DEF BufferOK, LineOK, At
<1>13. label \notin {"cat", "grep", "sigtest"}
  OBVIOUS
<1>14. CommandParsed' /\ Reported'
  BY <1>1, <1>3, <1>4, <1>7, <1>10, <1>13, StayClaims
<1> QED
  BY <1>11, <1>12, <1>14

(* An execute that gives the processor to the new process. *)
LEMMA RunKeeps ==
  ASSUME SessionInv, NEW command \in Seq(STRING), NEW label \in {"shell.status", "any"},
         Run(command, label), label = "any" => At("any"), running' # running
  PROVE  ProcessState' /\ BufferOK' /\ LineOK' /\ CommandParsed' /\ Reported'
<1> DEFINE new == running + 1
           number == Lookup(NameOf(command)).inode_num
           node == inode[number]
           image == CopyProgramImage(node)
           entry == Disk[memory'[new][2]]
<1>1. TypeOK /\ OnDisk /\ ProcessState /\ CommandParsed /\ Reported
  BY DEF SessionInv, FilesInv
<1>2. running \in Process /\ running \in Nat /\ DOMAIN reply = Process
      /\ DOMAIN Me = DOMAIN Blank
  BY <1>1, RunningType, PlainBy
<1>3. Parse(command).name = NameOf(command) /\ Parse(command).arguments = ArgsOf(command)
  BY ParseFinds
<1>4. /\ new \in Process /\ Known(NameOf(command)) /\ Executable(node)
      /\ image.count # -1
      /\ memory' = [memory EXCEPT ![new] = image.bytes]
      /\ program' = [program EXCEPT ![new] = number]
      /\ args' = [args EXCEPT ![new] = ArgsOf(command)]
      /\ Return(<<"execute">>, 0, <<>>)
      /\ running' = new /\ UNCHANGED inode
  <2>1. Execute(command)
    BY DEF Run
  <2> QED
    BY <1>3, <2>1 DEF Execute, Fail
<1>5. /\ pc' = [pc EXCEPT ![running] = label, ![new] = entry]
      /\ local' = [local EXCEPT ![running].text = command]
  BY <1>4 DEF Run
<1>6. entry \notin {"shell.run", "shell.status", "grep.scan"}
  <2>1. number \in DOMAIN inode /\ Inode(node)
    BY <1>1, <1>4, LookupType, InodesOnDisk
  <2>2. image.bytes[2] \in Byte
    BY <1>4, <2>1, EntryPoint
  <2>3. memory'[new] = image.bytes
    BY <1>1, <1>4 DEF TypeOK
  <2> HIDE DEF image, new
  <2> QED
    BY <2>2, <2>3, SessionAssumption
<1>7. new # running /\ new > running /\ \A p \in Process :
        /\ p < new => p < running \/ p = running
        /\ p <= new => p = new \/ p = running \/ p < running
        /\ p < running => p # running /\ p # new
  BY <1>2, SizesAreNat, SMT DEF Process
<1>8. DOMAIN program = Process /\ DOMAIN args = Process /\ DOMAIN pc = Process
      /\ DOMAIN local = Process /\ \A p \in Process : DOMAIN local[p] = DOMAIN Blank
  BY <1>1 DEF TypeOK, ProcessState
<1> HIDE DEF new, number, node, image, entry
<1>9. /\ pc'[running] = label /\ pc'[new] = entry
      /\ local'[running].text = command
      /\ program'[new] = number /\ args'[new] = ArgsOf(command)
      /\ \A p \in Process \ {running, new} : pc'[p] = pc[p]
      /\ \A p \in Process \ {running} : local'[p] = local[p]
      /\ \A p \in Process \ {new} : program'[p] = program[p] /\ args'[p] = args[p]
      /\ DOMAIN pc' = Process /\ DOMAIN local' = Process
      /\ \A p \in Process : DOMAIN local'[p] = DOMAIN Blank
  BY <1>2, <1>4, <1>5, <1>7, <1>8, FieldsOfBlank
<1>10. ProcessState'
  <2>1. \A p \in Process : p < new => pc'[p] \in {"shell.status", "any"}
    BY <1>1, <1>7, <1>9 DEF ProcessState
  <2> QED
    BY <1>4, <1>9, <2>1 DEF ProcessState
<1>11. BufferOK' /\ LineOK'
  BY <1>4, <1>6, <1>9 DEF BufferOK, LineOK, At
<1>12. CommandParsed'
  <2> SUFFICES ASSUME NEW p \in Process \ {0}, p <= new,
                      pc'[p] \in {"cat", "grep", "sigtest", "any"}
               PROVE  /\ program'[p] = Lookup(NameOf(local'[p - 1].text)).inode_num
                      /\ pc'[p] # "any" => args'[p] = ArgsOf(local'[p - 1].text)
    BY <1>4 DEF CommandParsed
  <2>1. CASE p = new
    <3>1. p - 1 = running
      BY <1>2, <2>1, SMT DEF new
    <3> QED
      BY <1>9, <2>1, <3>1 DEF number
  <2>2. CASE p # new
    <3>1. p - 1 \in Process /\ p - 1 # running /\ p <= running
      BY <1>2, <1>7, <2>2, SizesAreNat, SMT DEF Process
    <3>2. local'[p - 1] = local[p - 1] /\ program'[p] = program[p] /\ args'[p] = args[p]
      BY <1>9, <2>2, <3>1
    <3>3. CASE p = running
      <4>1. pc'[p] = "any" /\ pc[p] = "any"
        BY <1>9, <3>3 DEF At
      <4> QED
        BY <1>1, <3>1, <3>2, <4>1 DEF CommandParsed
    <3>4. CASE p # running
      BY <1>1, <1>9, <2>2, <3>1, <3>2, <3>4 DEF CommandParsed
    <3> QED
      BY <3>3, <3>4
  <2> QED
    BY <2>1, <2>2
<1>13. Reported'
  <2> SUFFICES ASSUME AllSound', NEW p \in Process, p <= new,
                      pc'[p] = "shell.status"
               PROVE  p # new /\ CanRun(p)'
    BY <1>2, <1>4, <1>7 DEF Reported
  <2>1. p # new
    BY <1>6, <1>9
  <2>2. CASE p = running
    <3>1. p + 1 \in Process /\ local'[p].text = command
      BY <1>4, <1>9, <2>2 DEF new
    <3> QED
      BY <1>4, <2>1, <3>1 DEF CanRun, node, number
  <2>3. CASE p # running
    <3>1. p < running /\ pc[p] = "shell.status" /\ local'[p] = local[p]
      BY <1>7, <1>9, <2>1, <2>3
    <3>2. AllSound /\ p <= running
      BY <1>2, <1>4, <3>1, SizesAreNat, SMT DEF AllSound, Process
    <3>3. CanRun(p)
      BY <1>1, <3>1, <3>2 DEF Reported
    <3> QED
      BY <1>4, <2>1, <3>1, <3>3 DEF CanRun
  <2> QED
    BY <2>1, <2>2, <2>3
<1> QED
  BY <1>10, <1>11, <1>12, <1>13

(* halt: the caller goes on. *)
LEMMA QuitKeeps ==
  ASSUME SessionInv, NEW pieces, NEW status \in Int, Quit(pieces, status)
  PROVE  ProcessState' /\ BufferOK' /\ LineOK' /\ CommandParsed' /\ Reported'
<1> DEFINE caller == running - 1
           low == status % 256
           r == [call |-> <<"execute">>, value |-> low, data |-> <<>>]
<1>1. TypeOK /\ OnDisk /\ ProcessState /\ CommandParsed /\ Reported
  BY DEF SessionInv, FilesInv
<1>2. running \in Process /\ running \in Nat /\ DOMAIN reply = Process /\ running > 0
  BY <1>1, RunningType DEF Quit, Halt
<1>3. /\ running' = caller /\ UNCHANGED inode
      /\ reply' = [reply EXCEPT ![running] = NoReply, ![caller] = r]
      /\ args' = [args EXCEPT ![running] = <<>>]
      /\ program' = [program EXCEPT ![running] = 0]
      /\ pc' = [pc EXCEPT ![running] = "none"]
      /\ local' = [local EXCEPT ![running] = Blank]
  BY DEF Quit, Halt
<1>4. /\ caller \in Process /\ caller # running /\ caller < running
      /\ \A p \in Process : /\ p <= caller => p < running /\ p <= running /\ p # running
                            /\ p < caller => p < running /\ p # running /\ p # caller
  BY <1>2, SizesAreNat, SMT DEF Process
<1>5. DOMAIN program = Process /\ DOMAIN args = Process /\ DOMAIN pc = Process
      /\ DOMAIN local = Process /\ \A p \in Process : DOMAIN local[p] = DOMAIN Blank
  BY <1>1 DEF TypeOK, ProcessState
<1>6. r.value = low /\ low # -1
  <2>1. low \in 0 .. 255
    BY SMT
  <2> HIDE DEF low
  <2> QED
    BY <2>1, SMT
<1> HIDE DEF caller, low, r
<1>7. /\ reply'[caller].value # -1
      /\ \A p \in Process \ {running} :
           /\ pc'[p] = pc[p] /\ local'[p] = local[p]
           /\ program'[p] = program[p] /\ args'[p] = args[p]
      /\ DOMAIN pc' = Process /\ DOMAIN local' = Process
      /\ \A p \in Process : DOMAIN local'[p] = DOMAIN Blank
  BY <1>2, <1>3, <1>4, <1>5, <1>6
<1>8. ProcessState'
  BY <1>1, <1>3, <1>4, <1>7 DEF ProcessState
<1>9. BufferOK' /\ LineOK'
  <2>1. pc'[caller] \in {"shell.status", "any"}
    BY <1>1, <1>4, <1>7 DEF ProcessState
  <2> QED
    BY <1>3, <2>1 DEF BufferOK, LineOK, At
<1>10. CommandParsed'
  <2> SUFFICES ASSUME NEW p \in Process \ {0}, p <= caller,
                      pc'[p] \in {"cat", "grep", "sigtest", "any"}
               PROVE  /\ program'[p] = Lookup(NameOf(local'[p - 1].text)).inode_num
                      /\ pc'[p] # "any" => args'[p] = ArgsOf(local'[p - 1].text)
    BY <1>3 DEF CommandParsed
  <2>1. p - 1 \in Process /\ p - 1 # running /\ p # running /\ p <= running
    BY <1>2, <1>4, SizesAreNat, SMT DEF Process
  <2> QED
    BY <1>1, <1>7, <2>1 DEF CommandParsed
<1>11. Reported'
  <2> SUFFICES ASSUME AllSound', NEW p \in Process, p <= caller,
                      pc'[p] = "shell.status"
               PROVE  CanRun(p)'
    BY <1>3, <1>7 DEF Reported
  <2>1. AllSound /\ p < running /\ p <= running /\ p # running
    BY <1>3, <1>4 DEF AllSound
  <2>2. CanRun(p)
    BY <1>1, <1>7, <2>1 DEF Reported
  <2> QED
    BY <1>3, <1>7, <2>1, <2>2 DEF CanRun
<1> QED
  BY <1>8, <1>9, <1>10, <1>11

LEMMA SessionKeeps ==
  ASSUME SessionInv, [NextSession]_<<vars, session>>
  PROVE  SessionInv'
<1>1. TypeOK /\ OnDisk /\ StreamInv /\ ProcessState /\ BufferOK /\ LineOK
  BY DEF SessionInv, FilesInv
<1>2. FilesInv'
  BY FilesStep DEF SessionInv
<1>3. AnyCall
  BY <1>1, SessionCallsAny DEF AnyCall
<1>4. StreamInv'
  BY <1>1, <1>3, StreamStep
<1>5. SessionStep
  BY <1>1, SessionSteps DEF SessionStep, session
<1>6. ProcessState' /\ BufferOK' /\ LineOK' /\ CommandParsed' /\ Reported'
  <2>1. CASE Plain
    BY <2>1, PlainKeeps
  <2>2. CASE Types
    BY <2>2, TypesKeeps
  <2>3. CASE Scans
    BY <2>3, ScansKeeps
  <2>4. CASE Runs
    <3>1. PICK command \in Seq(STRING), label \in {"shell.status", "any"} :
            Run(command, label) /\ (label = "any" => At("any"))
      BY <2>4 DEF Runs
    <3> QED
      BY <3>1, FailedRunKeeps, RunKeeps
  <2>5. CASE Quits
    BY <2>5, QuitKeeps DEF Quits
  <2>6. CASE UNCHANGED <<vars, pc, local>>
    BY <2>6 DEF SessionInv, vars, ProcessState, BufferOK, LineOK, CommandParsed, Reported,
                At, Me, Text, Entry, Data, AllSound, CanRun
  <2> QED
    BY <1>5, <2>1, <2>2, <2>3, <2>4, <2>5, <2>6 DEF SessionStep
<1> QED
  BY <1>2, <1>4, <1>6 DEF SessionInv

LEMMA SessionStarts == InitSession => SessionInv
<1> SUFFICES ASSUME InitSession
             PROVE  SessionInv
  OBVIOUS
<1>1. FilesInv /\ StreamInv
  BY FilesInit, StreamInitial DEF InitSession
<1>2. running = 0 /\ 0 \in Process /\ \A p \in Process : ~(p < 0) /\ (p <= 0 => p = 0)
  <2>1. 0 \in Process /\ \A p \in Process : ~(p < 0) /\ (p <= 0 => p = 0)
    BY SizesAreNat, SMT DEF Process
  <2> QED
    BY <2>1 DEF InitSession, Init
<1>3. /\ pc = [p \in Process |-> IF p = 0 THEN "shell" ELSE "none"]
      /\ local = [p \in Process |-> Blank]
  BY DEF InitSession
<1>4. pc[0] = "shell"
  BY <1>2, <1>3
<1>5. ProcessState
  BY <1>2, <1>3 DEF ProcessState
<1>6. BufferOK /\ LineOK
  BY <1>2, <1>4 DEF BufferOK, LineOK, At
<1>7. CommandParsed /\ Reported
  BY <1>2, <1>3, <1>4 DEF CommandParsed, Reported
<1> QED
  BY <1>1, <1>5, <1>6, <1>7 DEF SessionInv

LEMMA SessionInvariant == SpecSession => []SessionInv
<1>1. SessionInv /\ [NextSession]_<<vars, session>> => SessionInv'
  BY SessionKeeps
<1> QED
  BY <1>1, SessionStarts, PTL DEF SpecSession

LEMMA VerdictTells ==
  ASSUME NEW status
  PROVE  Verdict(status) = <<"no such command">> <=> status = -1
<1>1. /\ -1 # 0 /\ -1 # 256 /\ 0 # 256
  BY SMT
<1>2. /\ <<>> # <<"no such command">>
      /\ <<"program terminated by exception">> # <<"no such command">>
      /\ <<"program terminated abnormally">> # <<"no such command">>
  BY SMT
<1>3. CASE status = -1
  <2>1. status # 0 /\ status # 256 /\ status \in {-1, 0, 256}
    BY <1>1, <1>3
  <2>2. Verdict(status) = <<"no such command">>
    BY <1>3, <2>1, Zenon DEF Verdict
  <2> QED
    BY <1>3, <2>2
<1>4. CASE status = 0
  <2>1. status # -1 /\ status # 256 /\ status \in {-1, 0, 256}
    BY <1>1, <1>4
  <2>2. Verdict(status) = <<>>
    BY <1>4, <2>1, Zenon DEF Verdict
  <2> QED
    BY <1>2, <2>1, <2>2
<1>5. CASE status = 256
  <2>1. status # -1 /\ status # 0 /\ status \in {-1, 0, 256}
    BY <1>1, <1>5
  <2>2. Verdict(status) = <<"program terminated by exception">>
    BY <1>5, <2>1, Zenon DEF Verdict
  <2> QED
    BY <1>2, <2>1, <2>2
<1>6. CASE status \notin {-1, 0, 256}
  <2>1. status # -1 /\ status # 0 /\ status # 256
    BY <1>6
  <2>2. Verdict(status) = <<"program terminated abnormally">>
    BY <1>6, <2>1, Zenon DEF Verdict
  <2> QED
    BY <1>2, <2>1, <2>2
<1> QED
  BY <1>3, <1>4, <1>5, <1>6

-----------------------------------------------------------------------------
(* Theorems *)

(* Whatever a program opens, reads, closes or leaves to halt, it is served *)
(* as Streams promises: on any disk, damaged or not, with any descriptors, *)
(* names and sizes.                                                        *)
THEOREM FilesImplementStreams == SpecSession => ImplementsStreams
<1>1. InitSession => Stream!Init
  BY StreamInitial DEF InitSession
<1>2. SessionInv /\ [NextSession]_<<vars, session>> => [Stream!Next]_(Stream!vars)
  <2> SUFFICES ASSUME SessionInv, [NextSession]_<<vars, session>>
               PROVE  [Stream!Next]_(Stream!vars)
    OBVIOUS
  <2>1. TypeOK /\ OnDisk /\ StreamInv /\ ProcessState /\ BufferOK
    BY DEF SessionInv, FilesInv
  <2>2. AnyCall
    BY <2>1, SessionCallsAny DEF AnyCall
  <2> QED
    BY <2>1, <2>2, CallSeen
<1> QED
  BY <1>1, <1>2, SessionInvariant, PTL DEF SpecSession, ImplementsStreams, Stream!Spec

(* A process runs the program that the first word of its command names and *)
(* finds the rest of the line as its arguments, whatever the line is.      *)
THEOREM CommandIsParsed == SpecSession => []CommandParsed
<1>1. SessionInv => CommandParsed
  BY DEF SessionInv
<1> QED
  BY <1>1, SessionInvariant, PTL

(* The shell never takes a status for a failed execute, nor a failed       *)
(* execute for a status.                                                   *)
THEOREM ShellTellsFailure == SpecSession => []ShellReports
<1>1. SessionInv => ShellReports
  <2> SUFFICES ASSUME SessionInv, At("shell.status"), AllSound
               PROVE  (Verdict(Result) = <<"no such command">>) <=> ~CanRun(running)
    BY DEF ShellReports, CanRun, Me
  <2>1. running \in Process /\ running <= running
    <3>1. running \in Process /\ running \in Nat
      BY RunningType DEF SessionInv, FilesInv
    <3> QED
      BY <3>1, SMT
  <2>2. Result = -1 <=> ~CanRun(running)
    BY <2>1 DEF SessionInv, Reported, At, Result
  <2>3. Verdict(Result) = <<"no such command">> <=> Result = -1
    BY VerdictTells
  <2> QED
    BY <2>2, <2>3
<1> QED
  BY <1>1, SessionInvariant, PTL

-----------------------------------------------------------------------------
(* What cat, ls and counter do.  The code of a process is named by the     *)
(* command that its caller has executed.                                   *)

Code(text) == Disk[Content(inode[Lookup(NameOf(text)).inode_num])[2]]
Command == local[running - 1].text
Fits(text) == Len(ArgsOf(text)) < BufSize

(* A command whose output the properties are about. *)
Printer(text) ==
  \/ Code(text) = "cat" /\ Fits(text)
  \/ Code(text) \in {"ls", "counter"}

NameAt(k) == Directory[k].filename
ListUpTo(k) == [i \in 1 .. k |-> NameAt(i)]
CharsUpTo(node, n) == [i \in 1 .. n |-> Disk[Content(node)[i]]]

AllClosed == \A fd \in Fd : Entry(fd).flags = 0

(* fd is open on what name stands for, pos bytes or names behind its start. *)
OpenAt(fd, name, pos) ==
  fd \in Fd /\ Entry(fd) = [flags |-> 1, fops |-> Fops(Lookup(name).filetype),
                            inode_num |-> Lookup(name).inode_num, file_pos |-> pos]

(* cat has printed what is before from, and has just read what follows it. *)
CatHasRead(name) ==
  LET node == inode[Lookup(name).inode_num] IN
  /\ Result \in Nat
  /\ IF Lookup(name).filetype = 2
     THEN \E from \in 0 .. node.length :
            /\ out[running] = CharsUpTo(node, from)
            /\ Data = Piece(node, from, BufSize) /\ Result = Len(Data)
            /\ OpenAt(Me.fd, name, from + Len(Data))
     ELSE \E pos : OpenAt(Me.fd, name, pos)

CatIs(name) ==
  \/ /\ At("cat") /\ args[running] = name /\ name \in Seq(STRING)
     /\ out[running] = <<>> /\ AllClosed
  \/ /\ At("cat.open")
     /\ IF name = <<>> THEN Result = -1 ELSE Result = 0 /\ Data = name
     /\ out[running] = <<>> /\ AllClosed
  \/ /\ At("cat.read") /\ name # <<>>
     /\ IF Known(name) THEN OpenAt(Result, name, 0) ELSE Result = -1
     /\ out[running] = <<>>
  \/ /\ At("cat.write") /\ name # <<>> /\ Known(name)
     /\ CatHasRead(name)

LsIs ==
  \/ At("ls") /\ out[running] = <<>> /\ AllClosed
  \/ At("ls.read") /\ out[running] = <<>> /\ OpenAt(Result, <<Dot>>, 0)
  \/ /\ At("ls.write")
     /\ \E k \in 0 .. Len(Directory) :
          /\ out[running] = ListUpTo(k)
          /\ IF k < Len(Directory)
               THEN /\ Data = NameAt(k + 1) /\ Result = Len(Data)
                    /\ OpenAt(Me.fd, <<Dot>>, k + 1)
               ELSE Result = 0

CounterIs == pc[running] \in {"counter", "counter.count"} /\ out[running] = <<>>

PrinterRuns ==
  /\ Code(Command) = "cat" /\ Fits(Command) => CatIs(ArgsOf(Command))
  /\ Code(Command) = "ls" => LsIs
  /\ Code(Command) = "counter" => CounterIs

(* No process that waits is a printer. *)
CallersDoNotPrint ==
  \A p \in Process : 0 < p /\ p < running => ~Printer(local[p - 1].text)

PrintInv ==
  /\ DOMAIN out = Process
  /\ AllSound => CallersDoNotPrint /\ (running > 0 => PrinterRuns)
  /\ PrintsFaithfully

(* Where each program is when it makes a call. *)
LEMMA ActsAt ==
  /\ Shell => pc[running] \in {"shell", "shell.run", "shell.status"}
  /\ Cat => pc[running] \in {"cat", "cat.open", "cat.read", "cat.write"}
  /\ Ls => pc[running] \in {"ls", "ls.read", "ls.write"}
  /\ Grep => pc[running] \in {"grep", "grep.list", "grep.directory", "grep.name",
                              "grep.file", "grep.scan", "grep.close"}
  /\ SysErr => pc[running] \in {"syserr", "syserr.choose", "syserr.call"}
  /\ Hello => pc[running] \in {"hello", "hello.name", "testprint"}
  /\ Counter => pc[running] \in {"counter", "counter.count"}
  /\ SigTest => pc[running] \in {"sigtest", "sigtest.handlers", "sigtest.name",
                                 "sigtest.fault"}
  /\ AnyProgram => pc[running] = "any"
<1>1. Shell => pc[running] \in {"shell", "shell.run", "shell.status"}
  BY DEF Shell, Prompt, Obey, Report, At
<1>2. Cat => pc[running] \in {"cat", "cat.open", "cat.read", "cat.write"}
  BY DEF Cat, At
<1>3. Ls => pc[running] \in {"ls", "ls.read", "ls.write"}
  BY DEF Ls, At
<1>4. Grep => pc[running] \in {"grep", "grep.list", "grep.directory", "grep.name",
                               "grep.file", "grep.scan", "grep.close"}
  BY Zenon DEF Grep, GrepScan, At
<1>5. SysErr => pc[running] \in {"syserr", "syserr.choose", "syserr.call"}
  BY Zenon DEF SysErr, At
<1>6. Hello => pc[running] \in {"hello", "hello.name", "testprint"}
  BY DEF Hello, At
<1>7. Counter => pc[running] \in {"counter", "counter.count"}
  BY DEF Counter, At
<1>8. SigTest => pc[running] \in {"sigtest", "sigtest.handlers", "sigtest.name",
                                  "sigtest.fault"}
  BY DEF SigTest, At
<1>9. AnyProgram => pc[running] = "any"
  BY DEF AnyProgram, At
<1> QED
  BY <1>1, <1>2, <1>3, <1>4, <1>5, <1>6, <1>7, <1>8, <1>9

FishPlaces ==
  {"fish", "fish.rtc", "fish.file1", "fish.file2", "fish.start", "fish.look1",
   "fish.look2", "fish.draw", "fish.got1", "fish.got2", "fish.close1",
   "fish.close2", "fish.rate", "fish.blink", "fish.mark", "fish.sync",
   "fish.remove", "fish.close", "fish.exit"}

LEMMA FishActsAt == Fish => pc[running] \in FishPlaces
<1>1. FishOpens \/ FishDraws \/ FishBlinks => pc[running] \in FishPlaces
  BY DEF FishOpens, FishDraws, FishBlinks, At, FishPlaces
<1>2. ASSUME NEW i \in 1 .. 2, FishReads(i) \/ FishCloses(i)
      PROVE  pc[running] \in FishPlaces
  <2>1. i = 1 \/ i = 2
    BY SMT
  <2>2. CASE i = 1
    <3>1. pc[running] \in {LookAt[1], Got[1], <<"fish.close1", "fish.close2">>[1]}
      BY <1>2, <2>2, Zenon DEF FishReads, FishCloses, At
    <3> QED
      BY <3>1 DEF LookAt, Got, FishPlaces
  <2>3. CASE i = 2
    <3>1. pc[running] \in {LookAt[2], Got[2], <<"fish.close1", "fish.close2">>[2]}
      BY <1>2, <2>3, Zenon DEF FishReads, FishCloses, At
    <3> QED
      BY <3>1 DEF LookAt, Got, FishPlaces
  <2> QED
    BY <2>1, <2>2, <2>3
<1> QED
  BY <1>1, <1>2 DEF Fish

(* The steps from the places of the printers, and from where the shell     *)
(* reads a status.                                                         *)
LEMMA ActsFrom ==
  ASSUME NextSession
  PROVE  /\ pc[running] \in {"cat", "cat.open", "cat.read", "cat.write"} =>
              Cat \/ CallFailed
         /\ pc[running] \in {"ls", "ls.read", "ls.write"} => Ls \/ CallFailed
         /\ pc[running] \in {"counter", "counter.count"} => Counter
         /\ pc[running] = "shell.status" => Report
<1>1. \/ Shell \/ Cat \/ Ls \/ Grep \/ SysErr \/ Hello \/ Counter \/ SigTest
      \/ Fish \/ CallFailed \/ AnyProgram
  BY DEF NextSession
<1>2. CallFailed =>
        pc[running] \in
          {"cat.open", "cat.read", "cat.write", "ls.read", "ls.write",
           "grep.list", "grep.directory", "grep.name", "grep.file", "grep.scan",
           "grep.close", "sigtest.handlers", "fish.rtc", "fish.file2", "fish.start"}
  BY DEF CallFailed
<1>3. pc[running] = "shell.status" /\ Shell => Report
  BY DEF Shell, Prompt, Obey, At
<1> QED
  BY <1>1, <1>2, <1>3, ActsAt, FishActsAt DEF FishPlaces

-----------------------------------------------------------------------------
(* What a step does to the processes: it stays with the one that runs,     *)
(* starts another or ends it.                                              *)

Continues ==
  /\ UNCHANGED <<inode, running>>
  /\ \A p \in Process : p # running => local'[p] = local[p]
  /\ pc'[running] = "shell.status" => reply'[running].value = -1

Starts ==
  /\ UNCHANGED inode
  /\ running' = running + 1 /\ running' \in Process
  /\ \A p \in Process : p # running => local'[p] = local[p]
  /\ \E command \in Seq(STRING) :
       /\ Known(NameOf(command))
       /\ local'[running].text = command
       /\ args'[running'] = ArgsOf(command)
       /\ fdarray'[running'] = Fresh(fdarray[running'])
       /\ memory'[running'] =
            CopyProgramImage(inode[Lookup(NameOf(command)).inode_num]).bytes
       /\ pc'[running'] = Disk[memory'[running'][2]]
       /\ pc'[running'] # "shell.status"
       /\ out' = [out EXCEPT ![running'] = <<>>]

Ends ==
  /\ UNCHANGED inode
  /\ running > 0 /\ running' = running - 1 /\ running' \in Process
  /\ \A p \in Process : p # running => local'[p] = local[p]

LEMMA OthersKeep ==
  ASSUME TypeOK, ProcessState, NEW label, NEW new, Go(label, new)
  PROVE  /\ pc'[running] = label /\ local'[running] = new
         /\ \A p \in Process : p # running => local'[p] = local[p]
BY RunningType DEF ProcessState, Go

LEMMA RunMoves ==
  ASSUME SessionInv, NEW command \in Seq(STRING), NEW label \in {"shell.status", "any"},
         Run(command, label)
  PROVE  Continues \/ Starts
<1> DEFINE next == running + 1
           number == Lookup(NameOf(command)).inode_num
           node == inode[number]
           image == CopyProgramImage(node)
           entry == Disk[memory'[next][2]]
<1>1. TypeOK /\ OnDisk /\ ProcessState
  BY DEF SessionInv, FilesInv
<1>2. running \in Process /\ running \in Nat /\ DOMAIN reply = Process
      /\ DOMAIN Me = DOMAIN Blank
  BY <1>1, RunningType, PlainBy
<1>3. Parse(command).name = NameOf(command) /\ Parse(command).arguments = ArgsOf(command)
  BY ParseFinds
<1>4. Execute(command) /\ local' = [local EXCEPT ![running].text = command]
  BY DEF Run
<1>5. next # running
  BY <1>2, SMT
<1>6. \/ Fail(<<"execute">>)
      \/ /\ Return(<<"execute">>, -1, <<>>)
         /\ UNCHANGED <<inode, running>>
      \/ /\ next \in Process /\ Known(NameOf(command)) /\ Executable(node)
         /\ image.count # -1
         /\ fdarray' = [fdarray EXCEPT ![next] = Fresh(@)]
         /\ memory' = [memory EXCEPT ![next] = image.bytes]
         /\ args' = [args EXCEPT ![next] = ArgsOf(command)]
         /\ running' = next /\ UNCHANGED inode
  BY <1>3, <1>4 DEF Execute
<1>7. /\ local'[running].text = command
      /\ \A p \in Process : p # running => local'[p] = local[p]
  BY <1>1, <1>2, <1>4, FieldsOfBlank DEF ProcessState
<1>8. CASE \/ Fail(<<"execute">>)
           \/ Return(<<"execute">>, -1, <<>>) /\ UNCHANGED <<inode, running>>
  <2>1. UNCHANGED <<inode, running>> /\ reply'[running].value = -1
    BY <1>2, <1>8 DEF Fail, Return
  <2> QED
    BY <1>7, <2>1 DEF Continues
<1>9. CASE /\ next \in Process /\ Known(NameOf(command)) /\ Executable(node)
           /\ image.count # -1
           /\ fdarray' = [fdarray EXCEPT ![next] = Fresh(@)]
           /\ memory' = [memory EXCEPT ![next] = image.bytes]
           /\ args' = [args EXCEPT ![next] = ArgsOf(command)]
           /\ running' = next /\ UNCHANGED inode
  <2>1. DOMAIN fdarray = Process /\ DOMAIN memory = Process /\ DOMAIN args = Process
        /\ DOMAIN pc = Process
    BY <1>1 DEF TypeOK, ProcessState
  <2>2. /\ pc' = [pc EXCEPT ![running] = label, ![next] = entry]
        /\ out' = [out EXCEPT ![next] = <<>>]
    BY <1>5, <1>9 DEF Run
  <2>3. entry # "shell.status"
    <3>1. number \in DOMAIN inode /\ Inode(node)
      BY <1>1, <1>9, LookupType, InodesOnDisk
    <3>2. image.bytes[2] \in Byte
      BY <1>9, <3>1, EntryPoint
    <3>3. memory'[next] = image.bytes
      BY <1>9, <2>1
    <3> HIDE DEF image, next
    <3> QED
      BY <3>2, <3>3, SessionAssumption
  <2> HIDE DEF number, node, image, entry
  <2>4. /\ args'[next] = ArgsOf(command) /\ fdarray'[next] = Fresh(fdarray[next])
        /\ memory'[next] = image.bytes /\ pc'[next] = entry
    BY <1>5, <1>9, <2>1, <2>2
  <2> QED
    BY <1>7, <1>9, <2>2, <2>3, <2>4 DEF Starts, number, node, image, entry
<1> QED
  BY <1>6, <1>8, <1>9

LEMMA QuitMoves ==
  ASSUME SessionInv, NEW pieces, NEW status, Quit(pieces, status)
  PROVE  /\ Ends
         /\ reply'[running'].value = status % 256
         /\ out' = [out EXCEPT ![running] = @ \o pieces]
<1>1. TypeOK /\ ProcessState
  BY DEF SessionInv, FilesInv
<1>2. running \in Process /\ running \in Nat /\ DOMAIN reply = Process /\ running > 0
  BY <1>1, RunningType DEF Quit, Halt
<1>3. running - 1 \in Process /\ running - 1 # running
  BY <1>2, SizesAreNat, SMT DEF Process
<1>4. /\ running' = running - 1 /\ UNCHANGED inode
      /\ local' = [local EXCEPT ![running] = Blank]
      /\ out' = [out EXCEPT ![running] = @ \o pieces]
  BY DEF Quit, Halt, Prints
<1>5. reply'[running - 1].value = status % 256
  <2> DEFINE low == status % 256
  <2>1. reply' = [reply EXCEPT ![running] = NoReply,
          ![running - 1] = [call |-> <<"execute">>, value |-> low, data |-> <<>>]]
    BY DEF Quit, Halt
  <2> HIDE DEF low
  <2>2. reply'[running - 1].value = low
    BY <1>2, <1>3, <2>1
  <2> QED
    BY <2>2 DEF low
<1>6. \A p \in Process : p # running => local'[p] = local[p]
  BY <1>1, <1>4 DEF ProcessState
<1> QED
  BY <1>2, <1>3, <1>4, <1>5, <1>6 DEF Ends

LEMMA StepMoves ==
  ASSUME SessionInv, NextSession
  PROVE  Continues \/ Starts \/ Ends
<1>1. TypeOK /\ OnDisk /\ ProcessState /\ BufferOK /\ LineOK
  BY DEF SessionInv, FilesInv
<1>2. SessionStep
  BY <1>1, SessionSteps
<1>3. ASSUME Calm, NEW label, NEW new, Go(label, new), label # "shell.status"
      PROVE  Continues
  BY <1>1, <1>3, OthersKeep DEF Calm, Continues
<1>4. CASE Plain
  BY <1>3, <1>4 DEF Plain, Claimed
<1>5. CASE Types
  BY <1>3, <1>5 DEF Types
<1>6. CASE Scans
  BY <1>1, <1>3, <1>6, CallsAreCalm DEF Scans
<1>7. CASE Runs
  BY <1>7, RunMoves DEF Runs
<1>8. CASE Quits
  BY <1>8, QuitMoves DEF Quits
<1>9. CASE UNCHANGED <<vars, pc, local>>
  <2>1. pc[running] # "shell.status"
    <3> SUFFICES ASSUME pc[running] = "shell.status"
                 PROVE  FALSE
      OBVIOUS
    <3>1. Go("shell", Me)
      BY ActsFrom DEF Report
    <3> QED
      BY <1>1, <1>9, <3>1, OthersKeep
  <2> QED
    BY <1>9, <2>1 DEF vars, Continues
<1> QED
  BY <1>2, <1>4, <1>5, <1>6, <1>7, <1>8, <1>9 DEF SessionStep

-----------------------------------------------------------------------------
(* What a printer finds out by a call.                                     *)

LEMMA OpenGives ==
  ASSUME TypeOK, AllClosed, NEW name, Open(name)
  PROVE  /\ UNCHANGED <<running, inode>>
         /\ IF Known(name) THEN OpenAt(Result, name, 0)' ELSE Result' = -1
<1>1. running \in Process /\ DOMAIN reply = Process
      /\ fdarray \in [Process -> [Fd -> Descriptor]]
  BY RunningType
<1> DEFINE entry == [flags |-> 1, fops |-> Fops(Lookup(name).filetype),
                     inode_num |-> Lookup(name).inode_num, file_pos |-> 0]
<1>2. CASE Fail(<<"open", name>>) /\ ~Known(name)
  BY <1>1, <1>2 DEF Fail, Return, Result
<1>3. CASE \E fd \in Fd : /\ Known(name) /\ SetsDescriptor(fd, entry)
                          /\ Return(<<"open", name>>, fd, <<>>)
  <2>1. PICK fd \in Fd : /\ Known(name) /\ SetsDescriptor(fd, entry)
                         /\ Return(<<"open", name>>, fd, <<>>)
    BY <1>3
  <2>2. UNCHANGED <<running, inode>> /\ Result' = fd /\ Entry(fd)' = entry
    BY <1>1, <2>1 DEF SetsDescriptor, Return, Result, Entry
  <2> QED
    BY <2>1, <2>2 DEF OpenAt
<1>4. 2 \in Fd /\ {fd \in Fd : Entry(fd).flags = 0} # {}
  <2>1. 2 \in Fd
    BY SessionAssumption, FileAssumption, SMT DEF Fd
  <2> QED
    BY <2>1 DEF AllClosed
<1>5. \/ Fail(<<"open", name>>) /\ ~Known(name)
      \/ \E fd \in Fd : /\ Known(name) /\ SetsDescriptor(fd, entry)
                        /\ Return(<<"open", name>>, fd, <<>>)
  BY <1>4 DEF Open
<1> QED
  BY <1>2, <1>3, <1>5

LEMMA OpenType ==
  ASSUME TypeOK, NEW fd, NEW name, NEW pos, OpenAt(fd, name, pos), Known(name)
  PROVE  /\ fd \in Fd /\ Active(fd) /\ Entry(fd) \in Descriptor
         /\ Entry(fd).fops = Fops(Lookup(name).filetype)
         /\ Entry(fd).inode_num = Lookup(name).inode_num
         /\ Entry(fd).file_pos = pos /\ pos \in 0 .. Width - 1
         /\ Lookup(name).filetype = 0 => Entry(fd).fops = "rtc_fops"
         /\ Lookup(name).filetype = 1 => Entry(fd).fops = "dir_fops"
         /\ Lookup(name).filetype = 2 => Entry(fd).fops = "file_fops"
         /\ Lookup(name).filetype \in {0, 1, 2}
<1>1. fd \in Fd /\ Entry(fd) \in Descriptor
  BY RunningType DEF OpenAt
<1>2. /\ Entry(fd).flags = 1 /\ Entry(fd).fops = Fops(Lookup(name).filetype)
      /\ Entry(fd).inode_num = Lookup(name).inode_num /\ Entry(fd).file_pos = pos
  BY DEF OpenAt
<1>3. pos \in 0 .. Width - 1
  BY <1>1, <1>2 DEF Descriptor
<1>4. Lookup(name).filetype \in {0, 1, 2}
  <2>1. Lookup(name).filetype \in 0 .. 2
    BY LookupType
  <2> QED
    BY <2>1, SMT
<1>5. /\ Lookup(name).filetype = 0 => Entry(fd).fops = "rtc_fops"
      /\ Lookup(name).filetype = 1 => Entry(fd).fops = "dir_fops"
      /\ Lookup(name).filetype = 2 => Entry(fd).fops = "file_fops"
  BY <1>2, SMT DEF Fops
<1> QED
  BY <1>1, <1>2, <1>3, <1>4, <1>5 DEF Active

(* What a descriptor is open on stays when only its position moves.        *)
LEMMA OpenMoves ==
  ASSUME TypeOK, NEW fd, NEW name, NEW pos, OpenAt(fd, name, pos),
         NEW new, SetsDescriptor(fd, [Entry(fd) EXCEPT !.file_pos = new])
  PROVE  OpenAt(fd, name, new)' /\ UNCHANGED <<running, inode>>
<1>1. running \in Process /\ fd \in Fd
      /\ fdarray \in [Process -> [Fd -> Descriptor]]
  BY RunningType DEF OpenAt
<1>2. Entry(fd)' = [Entry(fd) EXCEPT !.file_pos = new] /\ UNCHANGED <<running, inode>>
  BY <1>1 DEF SetsDescriptor, Entry
<1>3. [Entry(fd) EXCEPT !.file_pos = new] =
        [flags |-> 1, fops |-> Fops(Lookup(name).filetype),
         inode_num |-> Lookup(name).inode_num, file_pos |-> new]
  BY DEF OpenAt
<1> QED
  BY <1>1, <1>2, <1>3 DEF OpenAt

LEMMA ReadFile ==
  ASSUME TypeOK, OnDisk, AllSound, NEW name, Known(name), Lookup(name).filetype = 2,
         NEW fd, NEW pos, OpenAt(fd, name, pos), NEW n \in Nat, Read(fd, n)
  PROVE  /\ UNCHANGED <<running, inode>>
         /\ \E bytes : /\ bytes = Piece(inode[Lookup(name).inode_num], pos, n)
                       /\ Data' = bytes /\ Result' = Len(bytes)
                       /\ OpenAt(fd, name, pos + Len(bytes))'
<1>0. PICK bytes : bytes = Piece(inode[Lookup(name).inode_num], pos, n)
  OBVIOUS
<1> DEFINE node == inode[Lookup(name).inode_num]
           r == ReadData(node, pos, n)
<1>1. running \in Process /\ DOMAIN reply = Process
  BY RunningType
<1>2. /\ Active(fd) /\ fd \in Fd /\ Entry(fd).fops = "file_fops"
      /\ Entry(fd).inode_num = Lookup(name).inode_num
      /\ Entry(fd).file_pos = pos /\ pos \in 0 .. Width - 1 /\ Entry(fd) \in Descriptor
  BY OpenType
<1>3. /\ SetsDescriptor(fd, [Entry(fd) EXCEPT !.file_pos = (pos + r.count) % Width])
      /\ Return(<<"read", fd, n>>, r.count, r.bytes)
  <2>1. n >= 0
    BY SMT
  <2>2. FileRead(fd, n)
    BY <1>2, <2>1 DEF Read, DirectoryRead, RtcRead
  <2>3. [Entry(fd) EXCEPT !.file_pos = (@ + r.count) % Width] =
        [Entry(fd) EXCEPT !.file_pos = (pos + r.count) % Width]
    BY <1>2
  <2> QED
    BY <1>2, <2>2, <2>3 DEF FileRead
<1>4. Lookup(name).inode_num \in DOMAIN inode /\ Inode(node) /\ Sound(node)
  BY LookupType, InodesOnDisk DEF AllSound
<1>5. r = Done(bytes) /\ pos \in Nat
  BY <1>0, <1>2, <1>4, ReadDataSound, SizesAreNat, SMT
<1>6. (pos + Len(bytes)) % Width = pos + Len(bytes)
  BY <1>0, <1>2, <1>4, PieceCut
<1>7. r.count = Len(bytes) /\ r.bytes = bytes
  BY <1>5 DEF Done
<1> HIDE DEF node, r
<1>8. SetsDescriptor(fd, [Entry(fd) EXCEPT !.file_pos = pos + Len(bytes)])
  BY <1>3, <1>6, <1>7
<1>9. OpenAt(fd, name, pos + Len(bytes))' /\ UNCHANGED <<running, inode>>
  BY <1>8, OpenMoves
<1>10. Data' = bytes /\ Result' = Len(bytes)
  BY <1>1, <1>3, <1>7, <1>9 DEF Return, Data, Result
<1> QED
  BY <1>0, <1>9, <1>10

LEMMA ReadDirectory ==
  ASSUME TypeOK, NEW name, Known(name), Lookup(name).filetype = 1,
         NEW fd, NEW pos, OpenAt(fd, name, pos), NEW n \in Nat, Read(fd, n)
  PROVE  /\ UNCHANGED <<running, inode>>
         /\ IF pos + 1 \in DOMAIN Directory
              THEN LET read == IF n < Len(NameAt(pos + 1)) THEN n
                                                           ELSE Len(NameAt(pos + 1))
                   IN /\ Data' = SubSeq(NameAt(pos + 1), 1, read) /\ Result' = read
                      /\ OpenAt(fd, name, pos + 1)'
              ELSE Result' = 0 /\ OpenAt(fd, name, pos)'
<1>1. running \in Process /\ DOMAIN reply = Process
  BY RunningType
<1>2. /\ Active(fd) /\ fd \in Fd /\ Entry(fd).fops = "dir_fops"
      /\ Entry(fd).file_pos = pos
  BY OpenType
<1>3. DirectoryRead(fd, n)
  <2>1. n >= 0
    BY SMT
  <2> QED
    BY <1>2, <2>1 DEF Read, FileRead, RtcRead
<1>4. CASE pos + 1 \in DOMAIN Directory
  <2> DEFINE k == pos + 1
             read == IF n < Len(NameAt(k)) THEN n ELSE Len(NameAt(k))
  <2>1. /\ SetsDescriptor(fd, [Entry(fd) EXCEPT !.file_pos = k])
        /\ Return(<<"read", fd, n>>, read, SubSeq(NameAt(k), 1, read))
    BY <1>2, <1>3, <1>4 DEF DirectoryRead, NameAt
  <2> HIDE DEF k, read
  <2>2. OpenAt(fd, name, k)' /\ UNCHANGED <<running, inode>>
    BY <2>1, OpenMoves
  <2>3. Data' = SubSeq(NameAt(k), 1, read) /\ Result' = read
    BY <1>1, <2>1, <2>2 DEF Return, Data, Result
  <2> QED
    BY <1>4, <2>2, <2>3 DEF k, read
<1>5. CASE pos + 1 \notin DOMAIN Directory
  <2>1. OnlyReturn(<<"read", fd, n>>, 0, <<>>)
    BY <1>2, <1>3, <1>5 DEF DirectoryRead
  <2>2. UNCHANGED <<running, inode, fdarray>> /\ Result' = 0
    BY <1>1, <2>1 DEF OnlyReturn, Return, Result
  <2> QED
    BY <1>5, <2>2 DEF OpenAt, Entry
<1> QED
  BY <1>4, <1>5

LEMMA ReadOther ==
  ASSUME TypeOK, NEW name, Known(name), Lookup(name).filetype # 2,
         NEW fd, NEW pos, OpenAt(fd, name, pos), NEW n \in Nat, Read(fd, n)
  PROVE  /\ UNCHANGED <<running, inode>>
         /\ Result' \in Nat /\ \E new : OpenAt(fd, name, new)'
<1>1. running \in Process /\ DOMAIN reply = Process
  BY RunningType
<1>2. CASE Lookup(name).filetype = 1
  <2>1. CASE pos + 1 \in DOMAIN Directory
    <3> DEFINE len == Len(NameAt(pos + 1))
    <3>1. len \in Nat
      <4>1. NameAt(pos + 1) \in Seq(STRING)
        BY <2>1, ImageAssumption DEF NameAt
      <4> QED
        BY <4>1, SMT
    <3>2. Result' = (IF n < len THEN n ELSE len) /\ OpenAt(fd, name, pos + 1)'
          /\ UNCHANGED <<running, inode>>
      BY <1>2, <2>1, ReadDirectory
    <3> QED
      BY <3>1, <3>2
  <2>2. CASE pos + 1 \notin DOMAIN Directory
    <3>1. Result' = 0 /\ OpenAt(fd, name, pos)' /\ UNCHANGED <<running, inode>>
      BY <1>2, <2>2, ReadDirectory
    <3>2. 0 \in Nat
      BY SMT
    <3> QED
      BY <3>1, <3>2
  <2> QED
    BY <2>1, <2>2
<1>3. CASE Lookup(name).filetype = 0
  <2>1. Active(fd) /\ Entry(fd).fops = "rtc_fops" /\ n >= 0
    BY <1>3, OpenType, SMT
  <2>2. OnlyReturn(<<"read", fd, n>>, 0, <<>>)
    BY <2>1 DEF Read, FileRead, DirectoryRead, RtcRead
  <2>3. UNCHANGED <<running, inode, fdarray>> /\ Result' = 0 /\ 0 \in Nat
    BY <1>1, <2>2, SMT DEF OnlyReturn, Return, Result
  <2> QED
    BY <2>3 DEF OpenAt, Entry
<1> QED
  BY <1>2, <1>3, OpenType

-----------------------------------------------------------------------------
(* cat *)

LEMMA Joins ==
  ASSUME NEW S, NEW a \in Seq(S), NEW s \in Seq(S), NEW b \in Seq(S),
         Len(b) = Len(a) + Len(s),
         \A i \in 1 .. Len(a) : a[i] = b[i],
         \A i \in 1 .. Len(s) : s[i] = b[Len(a) + i]
  PROVE  a \o s = b
<1>1. Len(a) \in Nat /\ Len(s) \in Nat
  BY SMT
<1>2. /\ a \o s \in Seq(S) /\ Len(a \o s) = Len(b)
      /\ \A k \in 1 .. Len(b) :
           (a \o s)[k] = IF k <= Len(a) THEN a[k] ELSE s[k - Len(a)]
  BY ConcatProperties
<1>3. ASSUME NEW k \in 1 .. Len(b)
      PROVE  (a \o s)[k] = b[k]
  <2>1. CASE k <= Len(a)
    <3>1. k \in 1 .. Len(a)
      BY <1>1, <2>1, SMT
    <3> QED
      BY <1>2, <2>1, <3>1
  <2>2. CASE ~(k <= Len(a))
    <3>1. k - Len(a) \in 1 .. Len(s) /\ Len(a) + (k - Len(a)) = k
      BY <1>1, <2>2, SMT
    <3> QED
      BY <1>2, <2>2, <3>1
  <2> QED
    BY <2>1, <2>2
<1> QED
  BY <1>2, <1>3, SeqEqual

(* What a read of the file adds to what has been read before. *)
LEMMA PieceGrows ==
  ASSUME NEW node, Inode(node), Sound(node), NEW from \in 0 .. node.length,
         NEW bytes, bytes = Piece(node, from, BufSize)
  PROVE  /\ Len(bytes) \in Nat /\ from + Len(bytes) \in 0 .. node.length
         /\ Len(bytes) = 0 => from = node.length
         /\ CharsUpTo(node, from) \o [k \in DOMAIN bytes |-> Disk[bytes[k]]]
              = CharsUpTo(node, from + Len(bytes))
<1> DEFINE last == IF from + BufSize < node.length THEN from + BufSize ELSE node.length
           C == Content(node)
           text == [k \in DOMAIN bytes |-> Disk[bytes[k]]]
<1>1. C \in Seq(Byte) /\ Len(C) = node.length /\ node.length \in Nat /\ from \in Nat
  BY ContentType, SMT
<1>2. bytes = SubSeq(C, from + 1, last)
  BY DEF Piece
<1>3. /\ last \in Nat /\ from <= last /\ last <= node.length
      /\ last = from => from = node.length
  BY <1>1, SessionAssumption, SMT
<1> HIDE DEF last, C
<1>4. /\ bytes \in Seq(Byte) /\ Len(bytes) = last - from
      /\ \A k \in 1 .. last - from : bytes[k] = C[from + k]
  BY <1>1, <1>2, <1>3, SMT
<1>5. Len(bytes) \in Nat /\ from + Len(bytes) = last /\ DOMAIN bytes = 1 .. Len(bytes)
  BY <1>1, <1>3, <1>4, SMT
<1>6. text \in Seq(STRING) /\ Len(text) = Len(bytes)
  <2>1. text \in Seq(STRING)
    BY <1>4, BytesAreText
  <2>2. DOMAIN text = 1 .. Len(bytes)
    BY <1>5
  <2> HIDE DEF text
  <2> QED
    BY <1>5, <2>1, <2>2, SMT
<1>7. \A i \in 1 .. node.length : Disk[C[i]] \in STRING
  <2>1. \A i \in 1 .. node.length : C[i] \in Byte
    BY <1>1, ElementOfSeq
  <2> QED
    BY <2>1, SessionAssumption
<1>8. ASSUME NEW n \in Nat, n <= node.length
      PROVE  /\ CharsUpTo(node, n) \in Seq(STRING) /\ Len(CharsUpTo(node, n)) = n
             /\ \A i \in 1 .. n : CharsUpTo(node, n)[i] = Disk[C[i]]
  <2>1. \A i \in 1 .. n : i \in 1 .. node.length
    BY <1>1, <1>8, SMT
  <2>2. \A i \in 1 .. n : Disk[C[i]] \in STRING
    BY <1>7, <2>1
  <2>3. CharsUpTo(node, n) = [i \in 1 .. n |-> Disk[C[i]]]
    BY DEF CharsUpTo, C
  <2> QED
    BY <2>2, <2>3, SMT
<1>9. \A k \in 1 .. Len(bytes) : text[k] = Disk[C[from + k]]
  <2> TAKE k \in 1 .. Len(bytes)
  <2>1. k \in 1 .. last - from /\ k \in DOMAIN bytes
    BY <1>4, <1>5
  <2> QED
    BY <1>4, <2>1
<1> HIDE DEF text
<1>10. PICK a \in Seq(STRING) : /\ a = CharsUpTo(node, from) /\ Len(a) = from
                                /\ \A i \in 1 .. from : a[i] = Disk[C[i]]
  <2>1. from <= node.length
    BY <1>1, SMT
  <2> QED
    BY <1>1, <1>8, <2>1
<1>11. PICK b \in Seq(STRING) : /\ b = CharsUpTo(node, last) /\ Len(b) = last
                                /\ \A i \in 1 .. last : b[i] = Disk[C[i]]
  BY <1>3, <1>8
<1>12. a \o text = b
  <2>1. \A i \in 1 .. Len(a) : i \in 1 .. from /\ i \in 1 .. last
    BY <1>1, <1>3, <1>10, SMT
  <2>2. \A i \in 1 .. Len(a) : a[i] = b[i]
    BY <1>10, <1>11, <2>1
  <2>3. \A i \in 1 .. Len(text) : i \in 1 .. Len(bytes) /\ from + i \in 1 .. last
    BY <1>1, <1>3, <1>5, <1>6, SMT
  <2>4. \A i \in 1 .. Len(text) : text[i] = b[Len(a) + i]
    BY <1>9, <1>10, <1>11, <2>3
  <2>5. Len(b) = Len(a) + Len(text)
    BY <1>5, <1>6, <1>10, <1>11
  <2> QED
    BY <1>6, <2>2, <2>4, <2>5, Joins
<1>13. CharsUpTo(node, from) \o text = CharsUpTo(node, from + Len(bytes))
  BY <1>5, <1>10, <1>11, <1>12
<1> QED
  BY <1>1, <1>3, <1>5, <1>13, SMT DEF text

(* Where cat goes on, and how it ends. *)
CatGoesOn(name) == UNCHANGED <<running, inode>> /\ CatIs(name)'

CatEnds(name) ==
  LET value == reply'[running'].value IN
  /\ Ends
  /\ IF name = <<>> THEN value = 3
     ELSE IF ~Known(name) THEN value = 2
     ELSE /\ value = 0
          /\ Lookup(name).filetype = 2 => out'[running] = TextOf(name)

(* The fields that a step sets. *)
LEMMA NewFields ==
  ASSUME TypeOK, ProcessState
  PROVE  /\ DOMAIN Me = DOMAIN Blank
         /\ \A fd : [Me EXCEPT !.fd = fd].fd = fd
         /\ \A label, new : UNCHANGED running /\ Go(label, new) =>
              At(label)' /\ pc'[running'] = label /\ Me' = new
         /\ \A label, new : UNCHANGED running /\ Then(label, new) =>
              At(label)' /\ pc'[running'] = label /\ Me' = new /\ UNCHANGED out
<1>1. DOMAIN Me = DOMAIN Blank /\ "fd" \in DOMAIN Blank
  BY PlainBy DEF Blank
<1>2. \A label, new : UNCHANGED running /\ Go(label, new) =>
        At(label)' /\ pc'[running'] = label /\ Me' = new
  BY OthersKeep DEF At, Me
<1> QED
  BY <1>1, <1>2 DEF Then

LEMMA CatFails ==
  ASSUME SessionInv, CallFailed, NEW name, CatIs(name)
  PROVE  CatEnds(name)
<1>1. \E status : Quit(<<>>, status) /\ status = ExitOnError(pc[running])
  BY DEF CallFailed
<1>2. Result = -1 /\ pc[running] # "cat"
  BY Zenon DEF CallFailed
<1>3. CASE At("cat.open")
  <2>1. name = <<>>
    <3>1. 0 # -1
      BY SMT
    <3> QED
      BY <1>2, <1>3, <3>1 DEF CatIs, At
  <2>2. ExitOnError("cat.open") = 3 /\ 3 % 256 = 3
    BY SMT DEF ExitOnError
  <2> QED
    BY <1>1, <1>3, <2>1, <2>2, QuitMoves DEF CatEnds, At
<1>4. CASE At("cat.read")
  <2>1. name # <<>> /\ ~Known(name)
    <3>1. -1 \notin Fd
      BY SMT DEF Fd
    <3> QED
      BY <1>2, <1>4, <3>1 DEF CatIs, At, OpenAt
  <2>2. ExitOnError("cat.read") = 2 /\ 2 % 256 = 2
    BY SMT DEF ExitOnError
  <2> QED
    BY <1>1, <1>4, <2>1, <2>2, QuitMoves DEF CatEnds, At
<1>5. CASE At("cat.write")
  <2>1. Result \in Nat
    BY <1>5 DEF CatIs, CatHasRead, At
  <2> QED
    BY <1>2, <2>1, SMT
<1> QED
  BY <1>2, <1>3, <1>4, <1>5 DEF CatIs, At

LEMMA ArgsType ==
  ASSUME NEW command \in Seq(STRING)
  PROVE  ArgsOf(command) \in Seq(STRING)
<1>1. Len(command) \in Nat /\ WordEnd(command) \in Nat
  BY WordEndType, SMT
<1>2. SubSeq(command, WordEnd(command) + 2, Len(command)) \in Seq(STRING)
  BY <1>1, SMT
<1> QED
  BY <1>2, EmptyText DEF ArgsOf

LEMMA CatGetsArgs ==
  ASSUME SessionInv, DOMAIN out = Process, NEW name, Len(name) < BufSize,
         CatIs(name), At("cat"), Cat
  PROVE  CatGoesOn(name)
<1>1. TypeOK /\ OnDisk /\ ProcessState
  BY DEF SessionInv, FilesInv
<1>2. running \in Process /\ DOMAIN reply = Process
  BY <1>1, RunningType
<1>3. GetArgs(BufSize) /\ Then("cat.open", Me)
  BY DEF Cat, At
<1>4. args[running] = name /\ name \in Seq(STRING) /\ out[running] = <<>> /\ AllClosed
  BY DEF CatIs, At
<1>5. /\ UNCHANGED <<running, inode, fdarray>>
      /\ IF name = <<>> THEN Result' = -1 ELSE Result' = 0 /\ Data' = name
  <2>1. CASE name = <<>>
    BY <1>2, <1>3, <1>4, <2>1 DEF GetArgs, Fail, Return, Result
  <2>2. CASE name # <<>>
    <3>1. ~(BufSize < 1) /\ ~(BufSize \in 1 .. Len(name)) /\ ~(BufSize < Len(name))
      BY <1>4, SessionAssumption, SMT
    <3>2. /\ Return(<<"other">>, 0, SubSeq(name, 1, Len(name)))
          /\ UNCHANGED <<running, inode, fdarray>>
      BY <1>3, <1>4, <2>2, <3>1 DEF GetArgs
    <3>3. SubSeq(name, 1, Len(name)) = name
      BY <1>4, SMT
    <3> QED
      BY <1>2, <2>2, <3>2, <3>3 DEF Return, Result, Data
  <2> QED
    BY <2>1, <2>2
<1>6. At("cat.open")' /\ UNCHANGED out
  BY <1>1, <1>3, <1>5, NewFields
<1>7. out'[running'] = <<>> /\ AllClosed'
  BY <1>4, <1>5, <1>6 DEF AllClosed, Entry
<1> QED
  BY <1>5, <1>6, <1>7 DEF CatGoesOn, CatIs

LEMMA CatOpens ==
  ASSUME SessionInv, DOMAIN out = Process, NEW name,
         CatIs(name), At("cat.open"), Cat
  PROVE  CatGoesOn(name)
<1>1. TypeOK /\ OnDisk /\ ProcessState
  BY DEF SessionInv, FilesInv
<1>2. Result = 0 /\ Open(Data) /\ Then("cat.read", Me)
  BY DEF Cat, At
<1>3. name # <<>> /\ Data = name /\ out[running] = <<>> /\ AllClosed
  <2>1. Result # -1
    BY <1>2, SMT
  <2> QED
    BY <2>1 DEF CatIs, At
<1>4. /\ UNCHANGED <<running, inode>>
      /\ IF Known(name) THEN OpenAt(Result, name, 0)' ELSE Result' = -1
  BY <1>1, <1>2, <1>3, OpenGives
<1>5. At("cat.read")' /\ UNCHANGED out
  BY <1>1, <1>2, <1>4, NewFields
<1>6. Known(name)' <=> Known(name)
  BY DEF Known
<1> QED
  BY <1>3, <1>4, <1>5, <1>6 DEF CatGoesOn, CatIs

(* After a read, whatever it was of. *)
LEMMA CatReads ==
  ASSUME SessionInv, AllSound, NEW name, Known(name), name # <<>>,
         NEW fd, Read(fd, BufSize), At("cat.write")', Me'.fd = fd,
         IF Lookup(name).filetype = 2
           THEN \E pos \in 0 .. inode[Lookup(name).inode_num].length :
                  /\ OpenAt(fd, name, pos)
                  /\ out'[running] = CharsUpTo(inode[Lookup(name).inode_num], pos)
           ELSE \E pos : OpenAt(fd, name, pos)
  PROVE  CatGoesOn(name)
<1>1. TypeOK /\ OnDisk /\ BufSize \in Nat
  BY BufSizes DEF SessionInv, FilesInv
<1>2. Known(name)'
  BY DEF Known
<1>3. CASE Lookup(name).filetype # 2
  <2>1. PICK pos : OpenAt(fd, name, pos)
    BY <1>3
  <2>2. /\ UNCHANGED <<running, inode>>
        /\ Result' \in Nat /\ \E new : OpenAt(fd, name, new)'
    BY <1>1, <1>3, <2>1, ReadOther
  <2>3. CatHasRead(name)'
    BY <1>3, <2>2 DEF CatHasRead
  <2> QED
    BY <1>2, <2>2, <2>3 DEF CatGoesOn, CatIs
<1>4. CASE Lookup(name).filetype = 2
  <2> DEFINE node == inode[Lookup(name).inode_num]
  <2>1. PICK pos \in 0 .. node.length :
          OpenAt(fd, name, pos) /\ out'[running] = CharsUpTo(node, pos)
    BY <1>4
  <2>2. PICK bytes : /\ bytes = Piece(node, pos, BufSize)
                     /\ Data' = bytes /\ Result' = Len(bytes)
                     /\ OpenAt(fd, name, pos + Len(bytes))'
                     /\ UNCHANGED <<running, inode>>
    BY <1>1, <1>4, <2>1, ReadFile
  <2>3. Inode(node) /\ Sound(node)
    BY <1>1, LookupType, InodesOnDisk DEF AllSound
  <2>4. Len(bytes) \in Nat
    BY <2>2, <2>3, PieceGrows
  <2>5. node' = node
    BY <2>2
  <2>6. Piece(node, pos, BufSize)' = Piece(node, pos, BufSize)
        /\ CharsUpTo(node, pos)' = CharsUpTo(node, pos)
    BY <2>5 DEF Piece, CharsUpTo, Content
  <2>7. CatHasRead(name)'
    BY <1>4, <2>1, <2>2, <2>4, <2>5, <2>6 DEF CatHasRead
  <2> QED
    BY <1>2, <2>2, <2>7 DEF CatGoesOn, CatIs
<1> QED
  BY <1>3, <1>4

LEMMA CatStarts ==
  ASSUME SessionInv, AllSound, DOMAIN out = Process, NEW name,
         CatIs(name), At("cat.read"), Cat
  PROVE  CatGoesOn(name)
<1>1. TypeOK /\ OnDisk /\ ProcessState
  BY DEF SessionInv, FilesInv
<1> DEFINE node == inode[Lookup(name).inode_num]
<1>2. /\ Result # -1 /\ Read(Result, BufSize)
      /\ Then("cat.write", [Me EXCEPT !.fd = Result])
  BY DEF Cat, At
<1>3. name # <<>> /\ Known(name) /\ OpenAt(Result, name, 0) /\ out[running] = <<>>
  BY <1>2 DEF CatIs, At
<1>4. UNCHANGED running
  BY <1>1, <1>2, CallsAreCalm DEF Calm
<1>5. At("cat.write")' /\ UNCHANGED out /\ Me' = [Me EXCEPT !.fd = Result]
  BY <1>1, <1>2, <1>4, NewFields
<1>6. Me'.fd = Result
  BY <1>1, <1>5, NewFields
<1>7. CASE Lookup(name).filetype = 2
  <2>1. Inode(node)
    BY <1>1, <1>3, LookupType, InodesOnDisk
  <2>2. 0 \in 0 .. node.length
    BY <2>1, SizesAreNat, SMT DEF Inode
  <2>3. CharsUpTo(node, 0) = <<>>
    BY SMT DEF CharsUpTo
  <2>4. out'[running] = CharsUpTo(node, 0)
    BY <1>3, <1>5, <2>3
  <2> QED
    BY <1>2, <1>3, <1>5, <1>6, <1>7, <2>2, <2>4, CatReads
<1>8. CASE Lookup(name).filetype # 2
  BY <1>2, <1>3, <1>5, <1>6, <1>8, CatReads
<1> QED
  BY <1>7, <1>8

LEMMA CatGoesRound ==
  ASSUME SessionInv, AllSound, DOMAIN out = Process, NEW name,
         CatIs(name), At("cat.write"), Cat
  PROVE  CatGoesOn(name) \/ CatEnds(name)
<1>1. TypeOK /\ OnDisk /\ ProcessState /\ running \in Process
  BY RunningType DEF SessionInv, FilesInv
<1> DEFINE node == inode[Lookup(name).inode_num]
<1>2. name # <<>> /\ Known(name) /\ CatHasRead(name) /\ Result \in Nat
  BY DEF CatIs, CatHasRead, At
<1>3. Inode(node) /\ Sound(node)
  BY <1>1, <1>2, LookupType, InodesOnDisk DEF AllSound
<1>4. CASE Result = 0
  <2>1. Quit(<<>>, 0)
    BY <1>4, SMT DEF Cat, At
  <2>2. /\ Ends /\ reply'[running'].value = 0
        /\ out' = [out EXCEPT ![running] = @ \o <<>>]
    <3>1. 0 % 256 = 0
      BY SMT
    <3> QED
      BY <2>1, <3>1, QuitMoves
  <2>3. ASSUME Lookup(name).filetype = 2
        PROVE  out'[running] = TextOf(name)
    <3>1. PICK from \in 0 .. node.length :
            /\ out[running] = CharsUpTo(node, from)
            /\ Data = Piece(node, from, BufSize) /\ Len(Data) = 0
      BY <1>2, <1>4, <2>3 DEF CatHasRead
    <3>2. from = node.length /\ CharsUpTo(node, from) = TextOf(name)
      <4>1. from = node.length
        BY <1>3, <3>1, PieceGrows
      <4>2. DOMAIN Content(node) = 1 .. node.length
        BY DEF Content
      <4> QED
        BY <2>3, <4>1, <4>2 DEF CharsUpTo, TextOf
    <3>3. out[running] \in Seq(STRING)
      <4>1. /\ Content(node) \in Seq(Byte) /\ Len(Content(node)) = node.length
            /\ node.length \in Nat
        BY <1>3, ContentType
      <4>2. [k \in DOMAIN Content(node) |-> Disk[Content(node)[k]]] \in Seq(STRING)
        BY <4>1, BytesAreText
      <4> QED
        BY <2>3, <3>1, <3>2, <4>2 DEF TextOf
    <3>4. out[running] \o <<>> = out[running]
      BY <3>3, ConcatEmptySeq
    <3> QED
      BY <1>1, <2>2, <3>1, <3>2, <3>4
  <2> QED
    BY <1>2, <2>2, <2>3 DEF CatEnds
<1>5. CASE Result > 0
  <2>1. Prints(Text(Me.fd)) /\ Read(Me.fd, BufSize) /\ Go("cat.write", Me)
    BY <1>5, SMT DEF Cat, At
  <2>2. UNCHANGED running
    BY <1>1, <2>1, CallsAreCalm DEF Calm
  <2>3. At("cat.write")' /\ Me' = Me
    BY <1>1, <2>1, <2>2, NewFields
  <2>4. CASE Lookup(name).filetype = 2
    <3>1. PICK from \in 0 .. node.length :
            /\ out[running] = CharsUpTo(node, from)
            /\ Data = Piece(node, from, BufSize)
            /\ OpenAt(Me.fd, name, from + Len(Data))
      BY <1>2, <2>4 DEF CatHasRead
    <3>2. Text(Me.fd) = [k \in DOMAIN Data |-> Disk[Data[k]]]
      BY <1>1, <1>2, <2>4, <3>1, OpenType DEF Text
    <3>3. out'[running] = out[running] \o [k \in DOMAIN Data |-> Disk[Data[k]]]
      BY <1>1, <2>1, <3>2 DEF Prints
    <3>4. PICK bytes : bytes = Data
      OBVIOUS
    <3>5. /\ from + Len(bytes) \in 0 .. node.length
          /\ CharsUpTo(node, from) \o [k \in DOMAIN bytes |-> Disk[bytes[k]]]
               = CharsUpTo(node, from + Len(bytes))
      BY <1>3, <3>1, <3>4, PieceGrows
    <3>6. PICK pos \in 0 .. node.length : pos = from + Len(bytes)
      BY <3>5
    <3>7. OpenAt(Me.fd, name, pos) /\ out'[running] = CharsUpTo(node, pos)
      BY <3>1, <3>3, <3>4, <3>5, <3>6
    <3>8. PICK fd : fd = Me.fd
      OBVIOUS
    <3> QED
      BY <1>2, <2>1, <2>3, <2>4, <3>7, <3>8, CatReads
  <2>5. CASE Lookup(name).filetype # 2
    <3>1. PICK pos : OpenAt(Me.fd, name, pos)
      BY <1>2, <2>5 DEF CatHasRead
    <3>2. PICK fd : fd = Me.fd
      OBVIOUS
    <3> QED
      BY <1>2, <2>1, <2>3, <2>5, <3>1, <3>2, CatReads
  <2> QED
    BY <2>4, <2>5
<1> QED
  BY <1>2, <1>4, <1>5, SMT

LEMMA CatStep ==
  ASSUME SessionInv, AllSound, DOMAIN out = Process, NEW name,
         Len(name) < BufSize, CatIs(name), NextSession
  PROVE  CatGoesOn(name) \/ CatEnds(name)
<1>1. pc[running] \in {"cat", "cat.open", "cat.read", "cat.write"}
  BY DEF CatIs, At
<1>2. Cat \/ CallFailed
  BY <1>1, ActsFrom
<1> QED
  BY <1>1, <1>2, CatFails, CatGetsArgs, CatOpens, CatStarts, CatGoesRound DEF At

-----------------------------------------------------------------------------
(* ls *)

LsGoesOn == UNCHANGED <<running, inode>> /\ LsIs'

LsEnds ==
  /\ Ends
  /\ out'[running] = [k \in DOMAIN Directory |-> Directory[k].filename]

LEMMA DotIsDirectory == Known(<<Dot>>) /\ Lookup(<<Dot>>).filetype = 1
BY DirectoryAssumption

LEMMA NamesFit ==
  ASSUME NEW k \in DOMAIN Directory
  PROVE  /\ NameAt(k) \in Seq(STRING) /\ Len(NameAt(k)) \in Nat /\ Len(NameAt(k)) > 0
         /\ SubSeq(NameAt(k), 1, IF NameLen < Len(NameAt(k)) THEN NameLen
                                                             ELSE Len(NameAt(k)))
              = NameAt(k)
         /\ (IF NameLen < Len(NameAt(k)) THEN NameLen ELSE Len(NameAt(k)))
              = Len(NameAt(k))
<1>1. NameAt(k) \in Seq(STRING) /\ Len(NameAt(k)) <= NameLen /\ NameAt(k) # <<>>
  BY ImageAssumption, DirectoryAssumption DEF NameAt
<1>2. Len(NameAt(k)) \in Nat /\ Len(NameAt(k)) # 0
  BY <1>1, EmptySeq, SMT
<1>3. (IF NameLen < Len(NameAt(k)) THEN NameLen ELSE Len(NameAt(k))) = Len(NameAt(k))
  BY <1>1, <1>2, SizesAreNat, SMT
<1>4. SubSeq(NameAt(k), 1, Len(NameAt(k))) = NameAt(k)
  BY <1>1, SMT
<1> QED
  BY <1>1, <1>2, <1>3, <1>4, SMT

LEMMA LsReads ==
  ASSUME SessionInv, NEW fd, Read(fd, NameLen), At("ls.write")', Me'.fd = fd,
         NEW k \in 0 .. Len(Directory), OpenAt(fd, <<Dot>>, k),
         out'[running] = ListUpTo(k)
  PROVE  LsGoesOn
<1>1. TypeOK /\ NameLen \in Nat
  BY SizesAreNat, SMT DEF SessionInv, FilesInv
<1>2. k \in Nat /\ Len(Directory) \in Nat /\ DOMAIN Directory = 1 .. Len(Directory)
  BY ImageAssumption, SMT
<1>3. CASE k < Len(Directory)
  <2>1. k + 1 \in DOMAIN Directory
    BY <1>2, <1>3, SMT
  <2>2. /\ UNCHANGED <<running, inode>>
        /\ Data' = NameAt(k + 1) /\ Result' = Len(NameAt(k + 1))
        /\ OpenAt(fd, <<Dot>>, k + 1)'
    BY <1>1, <2>1, DotIsDirectory, ReadDirectory, NamesFit
  <2> QED
    BY <1>3, <2>2 DEF LsGoesOn, LsIs, ListUpTo, NameAt
<1>4. CASE ~(k < Len(Directory))
  <2>1. k + 1 \notin DOMAIN Directory
    BY <1>2, <1>4, SMT
  <2>2. UNCHANGED <<running, inode>> /\ Result' = 0
    BY <1>1, <2>1, DotIsDirectory, ReadDirectory
  <2> QED
    BY <1>4, <2>2 DEF LsGoesOn, LsIs, ListUpTo, NameAt
<1> QED
  BY <1>3, <1>4

LEMMA LsOpens ==
  ASSUME SessionInv, DOMAIN out = Process, LsIs, At("ls"), Ls
  PROVE  LsGoesOn
<1>1. TypeOK /\ OnDisk /\ ProcessState
  BY DEF SessionInv, FilesInv
<1>2. Open(<<Dot>>) /\ Then("ls.read", Me)
  BY DEF Ls, At
<1>3. out[running] = <<>> /\ AllClosed
  BY DEF LsIs, At
<1>4. UNCHANGED <<running, inode>> /\ OpenAt(Result, <<Dot>>, 0)'
  BY <1>1, <1>2, <1>3, OpenGives, DotIsDirectory
<1>5. At("ls.read")' /\ UNCHANGED out
  BY <1>1, <1>2, <1>4, NewFields
<1> QED
  BY <1>3, <1>4, <1>5 DEF LsGoesOn, LsIs

LEMMA LsStarts ==
  ASSUME SessionInv, DOMAIN out = Process, LsIs, At("ls.read"), Ls
  PROVE  LsGoesOn
<1>1. TypeOK /\ OnDisk /\ ProcessState
  BY DEF SessionInv, FilesInv
<1>2. Read(Result, NameLen) /\ Then("ls.write", [Me EXCEPT !.fd = Result])
  BY DEF Ls, At
<1>3. out[running] = <<>> /\ OpenAt(Result, <<Dot>>, 0)
  BY DEF LsIs, At
<1>4. UNCHANGED running
  BY <1>1, <1>2, CallsAreCalm DEF Calm
<1>5. At("ls.write")' /\ UNCHANGED out /\ Me' = [Me EXCEPT !.fd = Result]
  BY <1>1, <1>2, <1>4, NewFields
<1>6. Me'.fd = Result
  BY <1>1, <1>5, NewFields
<1>7. ListUpTo(0) = <<>> /\ 0 \in 0 .. Len(Directory)
  BY ImageAssumption, SMT DEF ListUpTo
<1>8. out'[running] = ListUpTo(0)
  BY <1>3, <1>5, <1>7
<1> QED
  BY <1>2, <1>3, <1>5, <1>6, <1>7, <1>8, LsReads

LEMMA LsGoesRound ==
  ASSUME SessionInv, DOMAIN out = Process, LsIs, At("ls.write"), Ls
  PROVE  LsGoesOn \/ LsEnds
<1>1. TypeOK /\ OnDisk /\ ProcessState /\ running \in Process
  BY RunningType DEF SessionInv, FilesInv
<1>2. PICK k \in 0 .. Len(Directory) :
        /\ out[running] = ListUpTo(k)
        /\ IF k < Len(Directory)
             THEN /\ Data = NameAt(k + 1) /\ Result = Len(Data)
                  /\ OpenAt(Me.fd, <<Dot>>, k + 1)
             ELSE Result = 0
  BY DEF LsIs, At
<1>3. k \in Nat /\ Len(Directory) \in Nat /\ DOMAIN Directory = 1 .. Len(Directory)
  BY ImageAssumption, SMT
<1>4. \A n \in 0 .. Len(Directory) : ListUpTo(n) \in Seq(STRING \cup Seq(STRING))
  <2> TAKE n \in 0 .. Len(Directory)
  <2>1. \A i \in 1 .. n : i \in DOMAIN Directory
    BY <1>3, SMT
  <2>2. \A i \in 1 .. n : NameAt(i) \in STRING \cup Seq(STRING)
    BY <2>1, NamesFit
  <2>3. n \in Nat
    BY <1>3, SMT
  <2> QED
    BY <2>2, <2>3, SMT DEF ListUpTo
<1>5. CASE ~(k < Len(Directory))
  <2>1. Result = 0 /\ k = Len(Directory)
    <3>1. \A m \in Nat : \A j \in 0 .. m : ~(j < m) => j = m
      BY SMT
    <3>2. k = Len(Directory)
      BY <1>3, <1>5, <3>1
    <3> QED
      BY <1>2, <1>5, <3>2
  <2>2. Quit(<<>>, 0)
    BY <2>1, SMT DEF Ls, At
  <2>3. Ends /\ out' = [out EXCEPT ![running] = @ \o <<>>]
    BY <2>2, QuitMoves
  <2>4. ListUpTo(k) \o <<>> = ListUpTo(k)
    BY <1>4, ConcatEmptySeq
  <2> QED
    BY <1>1, <1>2, <1>3, <2>1, <2>3, <2>4 DEF LsEnds, ListUpTo, NameAt
<1>6. CASE k < Len(Directory)
  <2>1. k + 1 \in DOMAIN Directory /\ k + 1 \in 0 .. Len(Directory)
    BY <1>3, <1>6, SMT
  <2>2. Result > 0 /\ Data = NameAt(k + 1) /\ OpenAt(Me.fd, <<Dot>>, k + 1)
    BY <1>2, <1>6, <2>1, NamesFit
  <2>3. Prints(<<Data>>) /\ Read(Me.fd, NameLen) /\ Go("ls.write", Me)
    BY <2>2, SMT DEF Ls, At
  <2>4. UNCHANGED running
    BY <1>1, <2>3, CallsAreCalm DEF Calm
  <2>5. At("ls.write")' /\ Me' = Me
    BY <1>1, <2>3, <2>4, NewFields
  <2>6. ListUpTo(k) \o <<NameAt(k + 1)>> = ListUpTo(k + 1)
    <3>1. PICK S : S = STRING \cup Seq(STRING)
      OBVIOUS
    <3>2. PICK a \in Seq(S) : a = ListUpTo(k)
      BY <1>4, <3>1
    <3>3. PICK b \in Seq(S) : b = ListUpTo(k + 1)
      BY <1>4, <2>1, <3>1
    <3>4. PICK name : name = NameAt(k + 1) /\ name \in S
      BY <2>1, <3>1, NamesFit
    <3>5. /\ Len(a) = k /\ \A i \in 1 .. k : a[i] = NameAt(i)
          /\ Len(b) = k + 1 /\ \A i \in 1 .. k + 1 : b[i] = NameAt(i)
      BY <1>3, <3>2, <3>3, SMT DEF ListUpTo
    <3>6. <<name>> \in Seq(S) /\ Len(<<name>>) = 1 /\ <<name>>[1] = name
      BY <3>4, SMT
    <3>7. /\ k + 1 \in 1 .. k + 1 /\ \A i \in 1 .. 1 : i = 1
          /\ \A i \in 1 .. k : i \in 1 .. k + 1
      BY <1>3, SMT
    <3>8. \A i \in 1 .. Len(<<name>>) : <<name>>[i] = b[Len(a) + i]
      BY <3>4, <3>5, <3>6, <3>7
    <3>9. \A i \in 1 .. Len(a) : a[i] = b[i]
      BY <3>5, <3>7
    <3>10. Len(b) = Len(a) + Len(<<name>>)
      BY <3>5, <3>6
    <3>11. a \o <<name>> = b
      BY <3>6, <3>8, <3>9, <3>10, Joins
    <3> QED
      BY <3>2, <3>3, <3>4, <3>11
  <2>7. out'[running] = ListUpTo(k + 1)
    BY <1>1, <1>2, <2>2, <2>3, <2>6 DEF Prints
  <2>8. PICK fd : fd = Me.fd
    OBVIOUS
  <2> QED
    BY <2>1, <2>2, <2>3, <2>5, <2>7, <2>8, LsReads
<1> QED
  BY <1>5, <1>6

LEMMA LsStep ==
  ASSUME SessionInv, DOMAIN out = Process, LsIs, NextSession
  PROVE  LsGoesOn \/ LsEnds
<1>1. pc[running] \in {"ls", "ls.read", "ls.write"}
  BY DEF LsIs, At
<1>2. Ls \/ CallFailed
  BY <1>1, ActsFrom
<1>3. ~CallFailed
  <2> SUFFICES ASSUME CallFailed
               PROVE  FALSE
    OBVIOUS
  <2>1. Result = -1 /\ pc[running] # "ls"
    BY Zenon DEF CallFailed
  <2>2. CASE At("ls.read")
    <3>1. Result \in Fd /\ -1 \notin Fd
      BY <2>2, SMT DEF LsIs, OpenAt, At, Fd
    <3> QED
      BY <2>1, <3>1
  <2>3. CASE At("ls.write")
    <3>1. PICK k \in 0 .. Len(Directory) :
            IF k < Len(Directory)
              THEN Data = NameAt(k + 1) /\ Result = Len(Data) ELSE Result = 0
      BY <2>3 DEF LsIs, At
    <3>2. k < Len(Directory) => k + 1 \in DOMAIN Directory
      BY ImageAssumption, SMT
    <3>3. Result \in Nat
      BY <3>1, <3>2, NamesFit, SMT
    <3> QED
      BY <2>1, <3>3, SMT
  <2> QED
    BY <1>1, <2>1, <2>2, <2>3 DEF At
<1> QED
  BY <1>1, <1>2, <1>3, LsOpens, LsStarts, LsGoesRound DEF At

-----------------------------------------------------------------------------
(* Recursive functions on numbers that descend to 0. *)

Computed(f, n, base, h, next) == IF n = 0 THEN base ELSE h[n][f[next[n]]]

Descends(D, next, V, base, h) ==
  /\ D \in SUBSET Nat /\ 0 \in D
  /\ next \in [D -> D] /\ \A n \in D \ {0} : next[n] < n
  /\ base \in V /\ h \in [D -> [V -> V]]

LEMMA DescentExists ==
  ASSUME NEW D, NEW next, NEW V, NEW base, NEW h, Descends(D, next, V, base, h)
  PROVE  \E f \in [D -> V] : \A n \in D : f[n] = Computed(f, n, base, h, next)
<1> USE DEF Descends
<1> DEFINE Good(f, m) == \A n \in D : n <= m => f[n] = Computed(f, n, base, h, next)
           Extend(g) == [n \in D |-> Computed(g, n, base, h, next)]
<1>1. \A g \in [D -> V] : Extend(g) \in [D -> V]
  <2> TAKE g \in [D -> V]
  <2>1. ASSUME NEW n \in D
        PROVE  Computed(g, n, base, h, next) \in V
    <3>1. next[n] \in D /\ g[next[n]] \in V /\ h[n] \in [V -> V]
      OBVIOUS
    <3> QED
      BY <3>1 DEF Computed
  <2> QED
    BY <2>1
<1>2. \A m \in Nat : \E f \in [D -> V] : Good(f, m)
  <2> SUFFICES ASSUME NEW m \in Nat, ~ \E f \in [D -> V] : Good(f, m)
               PROVE  FALSE
    OBVIOUS
  <2> DEFINE T == {x \in Nat : ~ \E f \in [D -> V] : Good(f, x)}
  <2>1. PICK x \in T : \A y \in T : x <= y
    <3>1. T \in SUBSET Nat /\ m \in T
      OBVIOUS
    <3> HIDE DEF T
    <3> QED
      BY <3>1, Least
  <2>2. x \in Nat /\ ~ \E f \in [D -> V] : Good(f, x)
    OBVIOUS
  <2>3. CASE x = 0
    <3> DEFINE f == [n \in D |-> base]
    <3>1. \A n \in D : n <= 0 => n = 0
      BY SMT
    <3>2. f \in [D -> V] /\ Good(f, 0)
      BY <3>1 DEF Computed
    <3> QED
      BY <2>2, <2>3, <3>2
  <2>4. CASE x # 0
    <3>1. x - 1 \in Nat /\ ~(x <= x - 1)
      BY <2>2, <2>4, SMT
    <3>2. PICK g \in [D -> V] : Good(g, x - 1)
      BY <2>1, <3>1
    <3>3. ASSUME NEW n \in D, n <= x
          PROVE  Extend(g)[n] = Computed(Extend(g), n, base, h, next)
      <4>1. CASE n = 0
        BY <4>1 DEF Computed
      <4>2. CASE n # 0
        <5>1. next[n] \in D /\ next[n] < n
          BY <4>2
        <5>2. next[n] <= x - 1
          <6>1. x \in Nat /\ n \in Nat /\ next[n] \in Nat
            BY <2>2, <5>1
          <6> HIDE DEF Good, Extend
          <6> QED
            BY <3>3, <5>1, <6>1, SMT
        <5>3. g[next[n]] = Extend(g)[next[n]]
          BY <3>2, <5>1, <5>2
        <5> HIDE DEF Extend
        <5>4. Computed(g, n, base, h, next) = Computed(Extend(g), n, base, h, next)
          BY <5>3 DEF Computed
        <5> QED
          BY <5>4 DEF Extend
      <4> QED
        BY <4>1, <4>2
    <3> HIDE DEF Extend
    <3>4. Extend(g) \in [D -> V] /\ Good(Extend(g), x)
      BY <1>1, <3>3
    <3> QED
      BY <2>2, <3>4
  <2> QED
    BY <2>3, <2>4
<1>3. ASSUME NEW f \in [D -> V], NEW g \in [D -> V], NEW m \in Nat,
             Good(f, m), Good(g, m)
      PROVE  \A n \in D : n <= m => f[n] = g[n]
  <2> SUFFICES ASSUME NEW n \in D, n <= m, f[n] # g[n]
               PROVE  FALSE
    OBVIOUS
  <2> DEFINE T == {y \in D : y <= m /\ f[y] # g[y]}
  <2>1. PICK x \in T : \A y \in T : x <= y
    <3>1. T \in SUBSET Nat /\ n \in T
      OBVIOUS
    <3> HIDE DEF T
    <3> QED
      BY <3>1, Least
  <2>2. x \in D /\ x <= m /\ f[x] # g[x]
    OBVIOUS
  <2>3. x # 0
    <3>1. x = 0 => f[x] = g[x]
      BY <1>3, <2>2 DEF Computed
    <3> QED
      BY <2>2, <3>1
  <2>4. next[x] \in D /\ next[x] < x
    BY <2>2, <2>3
  <2>5. next[x] <= m /\ ~(x <= next[x])
    <3>1. x \in Nat /\ next[x] \in Nat
      BY <2>2, <2>4
    <3> QED
      BY <2>2, <2>4, <3>1, SMT
  <2>6. f[next[x]] = g[next[x]]
    BY <2>1, <2>4, <2>5
  <2>7. f[x] = Computed(f, x, base, h, next) /\ g[x] = Computed(g, x, base, h, next)
    BY <1>3, <2>2
  <2> QED
    BY <2>2, <2>3, <2>6, <2>7 DEF Computed
<1> DEFINE Upto(m) == CHOOSE f \in [D -> V] : Good(f, m)
           F == [n \in D |-> Upto(n)[n]]
<1>4. \A m \in Nat : Upto(m) \in [D -> V] /\ Good(Upto(m), m)
  <2> TAKE m \in Nat
  <2>1. \E f \in [D -> V] : Good(f, m)
    BY <1>2
  <2> HIDE DEF Good
  <2> QED
    BY <2>1
<1> HIDE DEF Upto
<1>5. F \in [D -> V]
  BY <1>4
<1>6. ASSUME NEW n \in D
      PROVE  F[n] = Computed(F, n, base, h, next)
  <2>1. n \in Nat /\ n <= n
    BY SMT
  <2>2. F[n] = Computed(Upto(n), n, base, h, next)
    BY <1>4, <2>1
  <2>3. CASE n = 0
    BY <2>2, <2>3 DEF Computed
  <2>4. CASE n # 0
    <3>1. next[n] \in D /\ next[n] < n
      BY <2>4
    <3>2. next[n] \in Nat /\ next[n] <= next[n] /\ next[n] <= n
          /\ \A k \in D : k <= next[n] => k <= n
      <4>1. next[n] \in Nat
        BY <3>1
      <4>2. \A k \in Nat : k <= next[n] => k <= n
        BY <2>1, <3>1, <4>1, SMT
      <4> QED
        BY <2>1, <3>1, <4>1, <4>2, SMT
    <3>3. Good(Upto(n), next[n])
      BY <1>4, <2>1, <3>2
    <3>4. Upto(n)[next[n]] = Upto(next[n])[next[n]]
      <4> HIDE DEF Good
      <4> QED
        BY <1>3, <1>4, <2>1, <3>1, <3>2, <3>3
    <3> QED
      BY <2>2, <2>4, <3>1, <3>4 DEF Computed
  <2> QED
    BY <2>3, <2>4
<1> QED
  BY <1>5, <1>6

-----------------------------------------------------------------------------
(* The numerals of itoa *)

Digit == 0 .. 9

(* The digits that itoa puts first, and what it does with them.            *)
Low == CHOOSE low : low = [n \in Nat |-> IF n = 0 THEN <<>>
                                         ELSE <<n % 10>> \o low[n \div 10]]
Reversed(s) == [k \in DOMAIN s |-> s[Len(s) + 1 - k]]

ValueOf(digits) ==
  CHOOSE value : value = [k \in 0 .. Len(digits) |->
                            IF k = 0 THEN 0 ELSE 10 * value[k - 1] + digits[k]]

LEMMA ItoaReverses ==
  /\ \A n \in Nat \ {0} : Itoa(n, 10) = Reversed(Low[n])
  /\ \A digits : Numeral(digits) = ValueOf(digits)[Len(digits)]
BY DEF Itoa, Low, Reversed, Numeral, ValueOf

LEMMA Decimal ==
  ASSUME NEW n \in Nat
  PROVE  /\ n % 10 \in Digit /\ n \div 10 \in Nat
         /\ n = 10 * (n \div 10) + (n % 10)
         /\ n # 0 => n \div 10 < n
         /\ n \div 10 = 0 => n % 10 = n
BY SMT DEF Digit

LEMMA Prepends ==
  ASSUME NEW n \in Nat, NEW s \in Seq(Digit)
  PROVE  <<n % 10>> \o s \in Seq(Digit)
<1>1. PICK d \in Digit : d = n % 10
  BY Decimal
<1>2. <<d>> \in Seq(Digit)
  OBVIOUS
<1> QED
  BY <1>1, <1>2, ConcatProperties

LEMMA LowDigits ==
  /\ Low \in [Nat -> Seq(Digit)]
  /\ Low[0] = <<>>
  /\ \A n \in Nat \ {0} : Low[n] = <<n % 10>> \o Low[n \div 10]
<1> DEFINE next == [n \in Nat |-> n \div 10]
           h == [n \in Nat |-> [s \in Seq(Digit) |-> <<n % 10>> \o s]]
<1>1. next \in [Nat -> Nat] /\ \A n \in Nat \ {0} : next[n] < n
  BY Decimal
<1>2. h \in [Nat -> [Seq(Digit) -> Seq(Digit)]]
  BY Prepends
<1>3. <<>> \in Seq(Digit) /\ 0 \in Nat /\ Nat \in SUBSET Nat
  BY SMT
<1>4. \E f \in [Nat -> Seq(Digit)] : \A n \in Nat : f[n] = Computed(f, n, <<>>, h, next)
  <2>1. PICK V : V = Seq(Digit)
    OBVIOUS
  <2> HIDE DEF next, h
  <2>2. \E f \in [Nat -> V] : \A n \in Nat : f[n] = Computed(f, n, <<>>, h, next)
    <3>1. PICK D : D = Nat
      OBVIOUS
    <3>2. PICK base : base = <<>>
      OBVIOUS
    <3>3. Descends(D, next, V, base, h)
      BY <1>1, <1>2, <1>3, <2>1, <3>1, <3>2 DEF Descends
    <3>4. \E f \in [D -> V] : \A n \in D : f[n] = Computed(f, n, base, h, next)
      BY ONLY <3>3, DescentExists
    <3> QED
      BY <3>1, <3>2, <3>4
  <2> QED
    BY <2>1, <2>2
<1>5. PICK f \in [Nat -> Seq(Digit)] :
        \A n \in Nat : f[n] = Computed(f, n, <<>>, h, next)
  BY <1>4
<1> DEFINE Body(g, n) == IF n = 0 THEN <<>> ELSE <<n % 10>> \o g[n \div 10]
<1>6. \A n \in Nat : f[n] = Body(f, n)
  <2> TAKE n \in Nat
  <2>1. f[n] = IF n = 0 THEN <<>> ELSE h[n][f[next[n]]]
    BY <1>5 DEF Computed
  <2>2. next[n] = n \div 10 /\ f[n \div 10] \in Seq(Digit)
    BY Decimal
  <2>3. h[n][f[n \div 10]] = <<n % 10>> \o f[n \div 10]
    BY <2>2
  <2> HIDE DEF h, next
  <2> QED
    BY <2>1, <2>2, <2>3
<1>7. f = [n \in Nat |-> Body(f, n)]
  <2> HIDE DEF Body
  <2> QED
    BY <1>6
<1>8. Low = [n \in Nat |-> Body(Low, n)]
  BY <1>7 DEF Low
<1>9. \A n \in Nat : Low[n] = Body(Low, n)
  BY <1>8
<1>10. \A n \in Nat : Low[n] \in Seq(Digit)
  <2> SUFFICES ASSUME NEW n \in Nat, Low[n] \notin Seq(Digit)
               PROVE  FALSE
    OBVIOUS
  <2> DEFINE T == {y \in Nat : Low[y] \notin Seq(Digit)}
  <2>1. PICK x \in T : \A y \in T : x <= y
    <3>1. T \in SUBSET Nat /\ n \in T
      OBVIOUS
    <3> HIDE DEF T
    <3> QED
      BY <3>1, Least
  <2>2. x \in Nat /\ Low[x] \notin Seq(Digit)
    OBVIOUS
  <2>3. x # 0
    BY <1>3, <1>9, <2>2
  <2>4. x \div 10 \in Nat /\ x \div 10 < x
    BY <2>2, <2>3, Decimal
  <2>5. ~(x <= x \div 10)
    BY <2>2, <2>4, SMT
  <2>6. Low[x \div 10] \in Seq(Digit)
    BY <2>1, <2>4, <2>5
  <2>7. <<x % 10>> \o Low[x \div 10] \in Seq(Digit)
    BY <2>2, <2>6, Prepends
  <2> QED
    BY <1>9, <2>2, <2>3, <2>7
<1>11. Low \in [Nat -> Seq(Digit)]
  <2> HIDE DEF Body
  <2>1. Low = [n \in Nat |-> Low[n]]
    BY <1>8
  <2> QED
    BY <1>10, <2>1
<1> QED
  BY <1>3, <1>9, <1>11

(* A count from 0 to a number. *)
Counts(h, m) == h \in [0 .. m -> [Nat -> Nat]]

LEMMA CountExists ==
  ASSUME NEW m \in Nat, NEW h, Counts(h, m)
  PROVE  \E f \in [0 .. m -> Nat] :
           f[0] = 0 /\ \A k \in (0 .. m) \ {0} : f[k] = h[k][f[k - 1]]
<1>1. PICK D : D = 0 .. m
  OBVIOUS
<1>2. PICK V : V = Nat
  OBVIOUS
<1>3. PICK base : base = 0
  OBVIOUS
<1>4. PICK next : next = [k \in D |-> IF k = 0 THEN 0 ELSE k - 1]
  OBVIOUS
<1>5. D \in SUBSET Nat /\ 0 \in D /\ \A k \in D \ {0} : k - 1 \in D /\ k - 1 < k
  BY <1>1, SMT
<1>6. next \in [D -> D]
  BY <1>4, <1>5
<1>7. \A k \in D \ {0} : next[k] < k
  BY <1>4, <1>5
<1>8. Descends(D, next, V, base, h)
  BY <1>1, <1>2, <1>3, <1>5, <1>6, <1>7 DEF Descends, Counts
<1>9. PICK f \in [D -> V] : \A k \in D : f[k] = Computed(f, k, base, h, next)
  BY ONLY <1>8, DescentExists
<1>10. f[0] = 0 /\ \A k \in D \ {0} : f[k] = h[k][f[k - 1]]
  BY <1>3, <1>4, <1>5, <1>9 DEF Computed
<1> QED
  BY <1>1, <1>2, <1>10

(* The recursion of Numeral. *)
LEMMA ValueSteps ==
  ASSUME NEW digits \in Seq(Digit)
  PROVE  LET value == ValueOf(digits) IN
         /\ \A k \in 0 .. Len(digits) : value[k] \in Nat
         /\ value[0] = 0
         /\ \A k \in 1 .. Len(digits) : value[k] = 10 * value[k - 1] + digits[k]
<1> DEFINE D == 0 .. Len(digits)
           h == [k \in D |-> [v \in Nat |-> IF k = 0 THEN 0 ELSE 10 * v + digits[k]]]
           Body(g, k) == IF k = 0 THEN 0 ELSE 10 * g[k - 1] + digits[k]
<1>1. Len(digits) \in Nat /\ D \in SUBSET Nat /\ 0 \in D
      /\ \A k \in D \ {0} : k - 1 \in D /\ k - 1 < k /\ k \in 1 .. Len(digits)
  BY SMT
<1>2. \A k \in D \ {0}, v \in Nat : 10 * v + digits[k] \in Nat
  <2> TAKE k \in D \ {0}, v \in Nat
  <2>1. digits[k] \in Digit
    BY <1>1
  <2>2. digits[k] \in Nat
    BY <2>1, SMT DEF Digit
  <2> QED
    BY <2>2, SMT
<1>3. h \in [D -> [Nat -> Nat]]
  <2>1. \A k \in D : h[k] \in [Nat -> Nat]
    BY <1>2
  <2> QED
    BY <2>1
<1>4. PICK f \in [D -> Nat] :
        f[0] = 0 /\ \A k \in D \ {0} : f[k] = h[k][f[k - 1]]
  <2>1. Counts(h, Len(digits))
    BY <1>3 DEF Counts
  <2> HIDE DEF h
  <2> QED
    BY <1>1, <2>1, CountExists
<1>5. \A k \in D : f[k] = Body(f, k)
  <2> TAKE k \in D
  <2>1. CASE k # 0
    <3>1. f[k - 1] \in Nat
      BY <1>1, <2>1
    <3>2. h[k][f[k - 1]] = 10 * f[k - 1] + digits[k]
      BY <2>1, <3>1
    <3> QED
      BY <1>4, <2>1, <3>2
  <2>2. CASE k = 0
    BY <1>4, <2>2
  <2> QED
    BY <2>1, <2>2
<1>6. f = [k \in D |-> Body(f, k)]
  <2> HIDE DEF Body, D
  <2> QED
    BY <1>5
<1> DEFINE value == ValueOf(digits)
<1>7. value = [k \in D |-> Body(value, k)]
  BY <1>6 DEF ValueOf
<1>8. \A k \in D : value[k] = Body(value, k)
  <2> HIDE DEF Body, D
  <2> QED
    BY <1>7
<1> HIDE DEF value
<1>9. \A k \in D : value[k] \in Nat
  <2> SUFFICES ASSUME NEW n \in D, value[n] \notin Nat
               PROVE  FALSE
    OBVIOUS
  <2> DEFINE T == {y \in D : value[y] \notin Nat}
  <2>1. PICK x \in T : \A y \in T : x <= y
    <3>1. T \in SUBSET Nat /\ n \in T
      BY <1>1
    <3> HIDE DEF T
    <3> QED
      BY <3>1, Least
  <2>2. x \in D /\ value[x] \notin Nat
    OBVIOUS
  <2>3. x # 0
    <3>1. value[0] = 0
      BY <1>1, <1>8
    <3> QED
      BY <2>2, <3>1, SMT
  <2>4. x - 1 \in D /\ x - 1 < x /\ x \in Nat
    BY <1>1, <2>2, <2>3
  <2>5. ~(x <= x - 1)
    BY <2>4, SMT
  <2>6. value[x - 1] \in Nat
    BY <2>1, <2>4, <2>5
  <2>7. value[x] = 10 * value[x - 1] + digits[x]
    BY <1>8, <2>2, <2>3
  <2> QED
    BY <1>2, <2>2, <2>3, <2>6, <2>7
<1>10. \A k \in 1 .. Len(digits) : k \in D /\ k # 0
  BY SMT
<1> QED
  BY <1>1, <1>8, <1>9, <1>10 DEF value

(* A digit more. *)
LEMMA NumeralAppends ==
  ASSUME NEW s \in Seq(Digit), NEW d \in Digit
  PROVE  /\ s \o <<d>> \in Seq(Digit)
         /\ Numeral(s) \in Nat
         /\ Numeral(s \o <<d>>) = 10 * Numeral(s) + d
<1> DEFINE t == s \o <<d>>
           n == Len(s)
<1>1. <<d>> \in Seq(Digit) /\ Len(<<d>>) = 1 /\ <<d>>[1] = d
  OBVIOUS
<1>2. n \in Nat
  BY SMT
<1>3. /\ t \in Seq(Digit) /\ Len(t) = n + 1
      /\ \A k \in 1 .. n : t[k] = s[k]
      /\ t[n + 1] = d
  <2>1. /\ t \in Seq(Digit) /\ Len(t) = n + 1
        /\ \A k \in 1 .. n + 1 : t[k] = IF k <= n THEN s[k] ELSE <<d>>[k - n]
    BY <1>1, ConcatProperties
  <2>2. /\ \A k \in 1 .. n : k \in 1 .. n + 1 /\ k <= n
        /\ n + 1 \in 1 .. n + 1 /\ ~(n + 1 <= n) /\ (n + 1) - n = 1
    BY <1>2, SMT
  <2> HIDE DEF t, n
  <2> QED
    BY <1>1, <2>1, <2>2
<1> HIDE DEF t, n
<1>4. PICK v : v = ValueOf(s)
  OBVIOUS
<1>5. PICK w : w = ValueOf(t)
  OBVIOUS
<1>6. /\ \A k \in 0 .. n : v[k] \in Nat
      /\ v[0] = 0
      /\ \A k \in 1 .. n : v[k] = 10 * v[k - 1] + s[k]
  BY <1>4, ValueSteps DEF n
<1>7. /\ \A k \in 0 .. n + 1 : w[k] \in Nat
      /\ w[0] = 0
      /\ \A k \in 1 .. n + 1 : w[k] = 10 * w[k - 1] + t[k]
  BY <1>3, <1>5, ValueSteps
<1>8. w[n] = v[n]
  <2> SUFFICES ASSUME w[n] # v[n]
               PROVE  FALSE
    OBVIOUS
  <2> DEFINE T == {y \in 0 .. n : w[y] # v[y]}
  <2>1. PICK x \in T : \A y \in T : x <= y
    <3>1. T \in SUBSET Nat /\ n \in T
      BY <1>2, SMT
    <3> HIDE DEF T
    <3> QED
      BY <3>1, Least
  <2>2. x \in 0 .. n /\ w[x] # v[x]
    OBVIOUS
  <2>3. x # 0
    BY <1>6, <1>7, <2>2
  <2>4. x \in 1 .. n /\ x \in 1 .. n + 1 /\ x - 1 \in 0 .. n /\ ~(x <= x - 1)
    BY <1>2, <2>2, <2>3, SMT
  <2>5. w[x - 1] = v[x - 1]
    BY <2>1, <2>4
  <2> QED
    BY <1>3, <1>6, <1>7, <2>2, <2>4, <2>5
<1>9. w[n + 1] = 10 * w[n] + d
  <2>1. n + 1 \in 1 .. n + 1 /\ (n + 1) - 1 = n
    BY <1>2, SMT
  <2> QED
    BY <1>3, <1>7, <2>1
<1>10. Numeral(s) = v[n] /\ Numeral(t) = w[n + 1]
  BY <1>3, <1>4, <1>5, ItoaReverses DEF n
<1>11. n \in 0 .. n
  BY <1>2, SMT
<1> QED
  BY <1>3, <1>6, <1>8, <1>9, <1>10, <1>11 DEF t

LEMMA OneMore ==
  ASSUME NEW r \in Seq(Digit), NEW d \in Digit
  PROVE  /\ r \o <<d>> \in Seq(Digit) /\ Len(r \o <<d>>) = Len(r) + 1
         /\ \A k \in 1 .. Len(r) + 1 :
              (r \o <<d>>)[k] = IF k <= Len(r) THEN r[k] ELSE <<d>>[k - Len(r)]
<1>1. PICK u : u = <<d>>
  OBVIOUS
<1>2. u \in Seq(Digit) /\ Len(u) = 1
  BY <1>1
<1>3. /\ r \o u \in Seq(Digit) /\ Len(r \o u) = Len(r) + Len(u)
      /\ \A k \in 1 .. Len(r) + Len(u) :
           (r \o u)[k] = IF k <= Len(r) THEN r[k] ELSE u[k - Len(r)]
  BY <1>2, ConcatProperties
<1> QED
  BY <1>1, <1>2, <1>3

LEMMA ReversedGrows ==
  ASSUME NEW s \in Seq(Digit), NEW d \in Digit
  PROVE  /\ Reversed(s) \in Seq(Digit)
         /\ Reversed(<<d>> \o s) = Reversed(s) \o <<d>>
<1> DEFINE n == Len(s)
           t == <<d>> \o s
           r == Reversed(s)
<1>1. <<d>> \in Seq(Digit) /\ Len(<<d>>) = 1 /\ <<d>>[1] = d
  OBVIOUS
<1>2. n \in Nat /\ DOMAIN s = 1 .. n
  BY SMT
<1>3. /\ t \in Seq(Digit) /\ Len(t) = n + 1 /\ DOMAIN t = 1 .. n + 1
      /\ \A k \in 1 .. n + 1 : t[k] = IF k <= 1 THEN d ELSE s[k - 1]
  <2>1. /\ t \in Seq(Digit) /\ Len(t) = 1 + n
        /\ \A k \in 1 .. 1 + n : t[k] = IF k <= 1 THEN <<d>>[k] ELSE s[k - 1]
    BY <1>1, ConcatProperties
  <2>2. 1 + n = n + 1 /\ \A k \in 1 .. n + 1 : k <= 1 => k = 1
    BY <1>2, SMT
  <2> HIDE DEF t, n
  <2>3. DOMAIN t = 1 .. Len(t)
    BY <2>1, SMT
  <2> QED
    BY <1>1, <2>1, <2>2, <2>3
<1>4. r \in Seq(Digit) /\ Len(r) = n /\ \A k \in 1 .. n : r[k] = s[n + 1 - k]
  <2>1. \A k \in 1 .. n : n + 1 - k \in 1 .. n
    BY <1>2, SMT
  <2>2. \A k \in 1 .. n : s[n + 1 - k] \in Digit
    BY <1>2, <2>1, ElementOfSeq
  <2>3. r = [k \in 1 .. n |-> s[n + 1 - k]]
    BY <1>2 DEF Reversed
  <2> HIDE DEF r, n
  <2> QED
    BY <1>2, <2>2, <2>3, SMT
<1>5. /\ r \o <<d>> \in Seq(Digit) /\ Len(r \o <<d>>) = n + 1
      /\ \A k \in 1 .. n + 1 : (r \o <<d>>)[k] = IF k <= n THEN r[k] ELSE <<d>>[k - n]
  <2> HIDE DEF r, n
  <2>1. r \in Seq(Digit) /\ Len(r) = n
    BY <1>4
  <2> QED
    BY <2>1, OneMore
<1> HIDE DEF t, r
<1>6. ASSUME NEW k \in 1 .. n + 1
      PROVE  t[n + 2 - k] = (r \o <<d>>)[k]
  <2>1. n + 2 - k \in 1 .. n + 1
    BY <1>2, SMT
  <2>2. CASE k <= n
    <3>1. k \in 1 .. n /\ ~(n + 2 - k <= 1) /\ (n + 2 - k) - 1 = n + 1 - k
      BY <1>2, <2>2, SMT
    <3> HIDE DEF n
    <3> QED
      BY <1>3, <1>4, <1>5, <2>1, <2>2, <3>1
  <2>3. CASE ~(k <= n)
    <3>1. k = n + 1 /\ n + 2 - k = 1 /\ 1 <= 1 /\ k - n = 1
      BY <1>2, <2>3, SMT
    <3> HIDE DEF n
    <3> QED
      BY <1>1, <1>3, <1>5, <2>1, <2>3, <3>1
  <2> QED
    BY <2>2, <2>3
<1> DEFINE q == r \o <<d>>
<1>7. Reversed(t) = [k \in 1 .. n + 1 |-> t[n + 2 - k]]
  <2>1. \A k \in 1 .. n + 1 : Len(t) + 1 - k = n + 2 - k
    BY <1>2, <1>3, SMT
  <2> HIDE DEF n
  <2>2. Reversed(t) = [k \in 1 .. n + 1 |-> t[Len(t) + 1 - k]]
    BY <1>3 DEF Reversed
  <2> QED
    BY <2>1, <2>2
<1>8. q = [k \in 1 .. n + 1 |-> q[k]]
  <2> HIDE DEF q, n
  <2> QED
    BY <1>2, <1>5, SMT DEF q
<1>9. Reversed(t) = q
  <2> HIDE DEF n
  <2> QED
    BY <1>6, <1>7, <1>8
<1> QED
  BY <1>4, <1>9 DEF t, r

LEMMA ItoaIsDecimal ==
  ASSUME NEW n \in Nat, n # 0
  PROVE  Numeral(Itoa(n, 10)) = n /\ Itoa(n, 10)[1] # 0
<1> DEFINE R(y) == Reversed(Low[y])
           Right(y) == /\ Numeral(R(y)) = y
                       /\ y # 0 => Len(R(y)) > 0 /\ R(y)[1] # 0
<1>1. \A y \in Nat : Low[y] \in Seq(Digit)
  BY LowDigits
<1>2. Right(0)
  <2>1. R(0) = <<>>
    <3>1. R(0) = [k \in DOMAIN <<>> |-> <<>>[Len(<<>>) + 1 - k]]
      BY LowDigits DEF Reversed
    <3> QED
      BY <3>1, SMT
  <2>2. <<>> \in Seq(Digit) /\ Len(<<>>) = 0
    OBVIOUS
  <2>3. Numeral(<<>>) = 0
    BY <2>2, ItoaReverses, ValueSteps
  <2> QED
    BY <2>1, <2>3
<1>3. ASSUME NEW x \in Nat, x # 0, Right(x \div 10)
      PROVE  Right(x)
  <2>1. PICK y : y = x \div 10
    OBVIOUS
  <2>2. PICK d : d = x % 10
    OBVIOUS
  <2>3. d \in Digit /\ y \in Nat /\ x = 10 * y + d /\ (y = 0 => d = x)
    BY <2>1, <2>2, Decimal
  <2>4. PICK s : s = Low[y]
    OBVIOUS
  <2>5. s \in Seq(Digit) /\ Low[x] = <<d>> \o s
    BY <1>1, <1>3, <2>1, <2>2, <2>3, <2>4, LowDigits
  <2>6. PICK r : r = Reversed(s)
    OBVIOUS
  <2>7. r \in Seq(Digit) /\ R(x) = r \o <<d>> /\ R(y) = r
    BY <2>3, <2>4, <2>5, <2>6, ReversedGrows
  <2>8. Numeral(r) = y /\ (y # 0 => Len(r) > 0 /\ r[1] # 0)
    BY <1>3, <2>1, <2>7
  <2>9. Numeral(r \o <<d>>) = x
    BY <2>3, <2>7, <2>8, NumeralAppends
  <2>10. Len(r \o <<d>>) > 0 /\ (r \o <<d>>)[1] # 0
    <3>1. /\ Len(r) \in Nat /\ Len(r \o <<d>>) = Len(r) + 1
          /\ \A k \in 1 .. Len(r) + 1 :
               (r \o <<d>>)[k] = IF k <= Len(r) THEN r[k] ELSE <<d>>[k - Len(r)]
      BY <2>3, <2>7, OneMore, SMT
    <3>2. 1 \in 1 .. Len(r) + 1 /\ Len(r \o <<d>>) > 0
      BY <3>1, SMT
    <3>3. CASE Len(r) > 0
      <4>1. (r \o <<d>>)[1] = r[1] /\ Len(r) # 0
        <5>1. 1 <= Len(r) /\ Len(r) # 0
          BY <3>1, <3>3, SMT
        <5> QED
          BY <3>1, <3>2, <5>1
      <4>2. y # 0
        <5> SUFFICES ASSUME y = 0
                     PROVE  FALSE
          OBVIOUS
        <5>1. r = <<>>
          <6>1. r = [k \in DOMAIN <<>> |-> <<>>[Len(<<>>) + 1 - k]]
            BY <2>4, <2>6, LowDigits DEF Reversed
          <6> QED
            BY <6>1, SMT
        <5> QED
          BY <4>1, <5>1
      <4> QED
        BY <2>8, <3>2, <4>1, <4>2
    <3>4. CASE ~(Len(r) > 0)
      <4>1. Len(r) = 0 /\ ~(1 <= 0) /\ 1 - 0 = 1
        BY <3>1, <3>4, SMT
      <4>2. (r \o <<d>>)[1] = d
        BY <3>1, <3>2, <4>1
      <4>3. y = 0
        BY <2>8, <3>4
      <4> QED
        BY <1>3, <2>3, <3>2, <4>2, <4>3
    <3> QED
      BY <3>3, <3>4
  <2> QED
    BY <2>7, <2>9, <2>10
<1> HIDE DEF Right
<1>4. \A y \in Nat : Right(y)
  <2> SUFFICES ASSUME NEW y \in Nat, ~Right(y)
               PROVE  FALSE
    OBVIOUS
  <2> DEFINE T == {z \in Nat : ~Right(z)}
  <2>1. PICK x \in T : \A z \in T : x <= z
    <3>1. T \in SUBSET Nat /\ y \in T
      OBVIOUS
    <3> HIDE DEF T
    <3> QED
      BY <3>1, Least
  <2>2. x \in Nat /\ ~Right(x) /\ x # 0
    BY <1>2
  <2>3. x \div 10 \in Nat /\ x \div 10 < x
    BY <2>2, Decimal
  <2>4. ~(x <= x \div 10)
    BY <2>2, <2>3, SMT
  <2>5. Right(x \div 10)
    BY <2>1, <2>3, <2>4
  <2> QED
    BY <1>3, <2>2, <2>5
<1>5. Itoa(n, 10) = R(n)
  BY ItoaReverses
<1> QED
  BY <1>4, <1>5 DEF Right

-----------------------------------------------------------------------------
(* counter *)

CounterGoesOn == UNCHANGED <<running, inode>> /\ CounterIs'

CounterEnds ==
  /\ Ends
  /\ \/ out'[running] = <<WrongChoice>>
     \/ \E max \in Nat : out'[running] = [k \in 1 .. max |-> Itoa(k, 10)]

LEMMA CounterStep ==
  ASSUME SessionInv, DOMAIN out = Process, CounterIs, NextSession
  PROVE  CounterGoesOn \/ CounterEnds
<1>1. TypeOK /\ ProcessState /\ running \in Process /\ DOMAIN reply = Process
  BY RunningType DEF SessionInv, FilesInv
<1>2. out[running] = <<>> /\ Counter
  BY ActsFrom DEF CounterIs
<1>3. CASE At("counter")
  <2>1. PICK line \in Answers : ReadLine(line) /\ Then("counter.count", Me)
    BY <1>2, <1>3 DEF Counter, At
  <2>2. UNCHANGED <<running, inode>>
    BY <2>1 DEF ReadLine, OnlyReturn
  <2>3. pc'[running'] = "counter.count" /\ UNCHANGED out
    BY <1>1, <2>1, <2>2, NewFields
  <2> QED
    BY <1>2, <2>2, <2>3 DEF CounterGoesOn, CounterIs
<1>4. CASE At("counter.count")
  <2> DEFINE wrong == \/ Len(Data) > 2
                      \/ Len(Data) = 2 /\ Data[1] \notin DOMAIN CountTo
             max == IF Data[1] \in DOMAIN CountTo THEN CountTo[Data[1]] ELSE 0
             numerals == [k \in 1 .. max |-> Itoa(k, 10)]
  <2>1. Quit(IF wrong THEN <<WrongChoice>> ELSE numerals, 0)
    BY <1>2, <1>4, Zenon DEF Counter, At
  <2>2. max \in Nat
    <3>1. 0 \in Nat
      BY SMT
    <3> QED
      BY <3>1, SessionAssumption
  <2> HIDE DEF wrong, max
  <2>3. CASE wrong
    <3>1. Ends /\ out' = [out EXCEPT ![running] = @ \o <<WrongChoice>>]
      BY <2>1, <2>3, QuitMoves
    <3>2. <<>> \o <<WrongChoice>> = <<WrongChoice>>
      <4>1. <<WrongChoice>> \in Seq({WrongChoice})
        OBVIOUS
      <4> QED
        BY <4>1, ConcatEmptySeq
    <3> QED
      BY <1>1, <1>2, <3>1, <3>2 DEF CounterEnds
  <2>4. CASE ~wrong
    <3>1. Ends /\ out' = [out EXCEPT ![running] = @ \o numerals]
      BY <2>1, <2>4, QuitMoves
    <3>2. <<>> \o numerals = numerals
      <4> DEFINE S == {Itoa(k, 10) : k \in 1 .. max}
      <4>1. \A k \in 1 .. max : Itoa(k, 10) \in S
        OBVIOUS
      <4> HIDE DEF S
      <4>2. numerals \in Seq(S)
        BY <2>2, <4>1, SMT
      <4> QED
        BY <4>2, ConcatEmptySeq
    <3> QED
      BY <1>1, <1>2, <2>2, <3>1, <3>2 DEF CounterEnds
  <2> QED
    BY <2>3, <2>4
<1> QED
  BY <1>3, <1>4 DEF CounterIs, At

-----------------------------------------------------------------------------
(* No step takes an output away. *)

LEMMA OutStays ==
  ASSUME DOMAIN out = Process, NextSession
  PROVE  DOMAIN out' = Process
<1> DEFINE Kept == DOMAIN out' = Process
<1>1. \A label, new : Then(label, new) => Kept
  BY DEF Then
<1>2. \A pieces : Prints(pieces) => Kept
  BY DEF Prints
<1>3. \A pieces, status : Quit(pieces, status) => Kept
  BY <1>2 DEF Quit
<1>4. \A command, label : Run(command, label) => Kept
  <2> SUFFICES ASSUME NEW command, NEW label, Run(command, label)
               PROVE  Kept
    OBVIOUS
  <2>1. \/ UNCHANGED out
        \/ \E new : out' = [out EXCEPT ![new] = <<>>]
    BY DEF Run
  <2> QED
    BY <2>1
<1> HIDE DEF Kept
<1>5. Shell => Kept
  <2>1. Prompt => Kept
    BY DEF Prompt, Kept
  <2>2. Obey => Kept
    BY <1>1, <1>3, <1>4 DEF Obey
  <2>3. Report => Kept
    BY <1>2 DEF Report
  <2> QED
    BY <2>1, <2>2, <2>3 DEF Shell
<1>6. Cat \/ Ls \/ CallFailed => Kept
  BY <1>1, <1>2, <1>3, Zenon DEF Cat, Ls, CallFailed
<1>7. Grep => Kept
  BY <1>1, <1>2, <1>3, Zenon DEF Grep, GrepScan
<1>8. SysErr => Kept
  BY <1>1, <1>3, Zenon DEF SysErr
<1>9. Hello \/ Counter => Kept
  BY <1>1, <1>3, Zenon DEF Hello, Counter
<1>10. SigTest => Kept
  BY <1>1, Zenon DEF SigTest, Kept
<1>11. Fish => Kept
  <2>1. FishOpens => Kept
    BY <1>1, Zenon DEF FishOpens
  <2>2. \A i : FishReads(i) => Kept
    BY <1>1, Zenon DEF FishReads
  <2>3. \A i : FishCloses(i) => Kept
    BY <1>1, Zenon DEF FishCloses
  <2>4. FishDraws => Kept
    BY <1>1, <1>2, Zenon DEF FishDraws
  <2>5. FishBlinks => Kept
    <3>1. \A list : out' = [out EXCEPT ![running] = list] => Kept
      BY DEF Kept
    <3> QED
      BY <1>1, <1>2, <1>3, <3>1, Zenon DEF FishBlinks
  <2> QED
    BY <2>1, <2>2, <2>3, <2>4, <2>5 DEF Fish
<1>12. AnyProgram => Kept
  BY <1>1, <1>3, <1>4, Zenon DEF AnyProgram
<1> QED
  BY <1>5, <1>6, <1>7, <1>8, <1>9, <1>10, <1>11, <1>12 DEF NextSession, Kept

-----------------------------------------------------------------------------
(* The invariant *)

LEMMA PrinterMoves ==
  ASSUME SessionInv, DOMAIN out = Process, AllSound, PrinterRuns, NextSession,
         NEW name, name = ArgsOf(Command)
  PROVE  /\ Code(Command) = "cat" /\ Fits(Command) => CatGoesOn(name) \/ CatEnds(name)
         /\ Code(Command) = "ls" => LsGoesOn \/ LsEnds
         /\ Code(Command) = "counter" => CounterGoesOn \/ CounterEnds
<1>1. ASSUME Code(Command) = "cat", Fits(Command)
      PROVE  CatGoesOn(name) \/ CatEnds(name)
  <2>1. CatIs(name) /\ Len(name) < BufSize
    BY <1>1 DEF PrinterRuns, Fits
  <2> QED
    BY <2>1, CatStep
<1> QED
  BY <1>1, LsStep, CounterStep DEF PrinterRuns

(* A command keeps its meaning. *)
LEMMA MeaningStays ==
  ASSUME UNCHANGED inode
  PROVE  /\ AllSound' = AllSound
         /\ \A text : Code(text)' = Code(text)
BY DEF AllSound, Code, Content

LEMMA PrintContinues ==
  ASSUME SessionInv, NextSession, PrintInv, Continues
  PROVE  PrintInv'
<1>1. UNCHANGED <<inode, running>> /\ running \in Process /\ DOMAIN out = Process
  BY RunningType DEF Continues, SessionInv, FilesInv, PrintInv
<1>2. DOMAIN out' = Process
  BY <1>1, OutStays
<1>3. PrintsFaithfully'
  <2>1. At("shell.status")' => Result' = -1
    BY <1>1 DEF Continues, At, Result
  <2>2. \A code : ~Ended(code)'
    BY <2>1 DEF Ended
  <2> QED
    BY <2>2 DEF PrintsFaithfully, CatPrints, LsPrints, CounterCounts
<1>4. ASSUME AllSound'
      PROVE  CallersDoNotPrint' /\ (running' > 0 => PrinterRuns')
  <2>1. AllSound /\ \A text : Code(text)' = Code(text)
    BY <1>1, <1>4, MeaningStays
  <2>2. CallersDoNotPrint /\ (running > 0 => PrinterRuns)
    BY <2>1 DEF PrintInv
  <2>3. \A p \in Process : 0 < p /\ p <= running =>
          p - 1 \in Process /\ p - 1 # running
    BY <1>1, SizesAreNat, SMT DEF Process
  <2>4. CallersDoNotPrint'
    <3> SUFFICES ASSUME NEW p \in Process, 0 < p, p < running
                 PROVE  ~Printer(local[p - 1].text)'
      BY <1>1 DEF CallersDoNotPrint
    <3>1. p <= running
      BY <1>1, SizesAreNat, SMT DEF Process
    <3>2. local'[p - 1] = local[p - 1]
      BY <2>3, <3>1 DEF Continues
    <3>3. PICK text : text = local[p - 1].text
      OBVIOUS
    <3>4. ~Printer(text)
      BY <2>2, <3>3 DEF CallersDoNotPrint
    <3>5. Printer(text)' <=> Printer(text)
      BY <2>1 DEF Printer, Fits
    <3> QED
      BY <3>2, <3>3, <3>4, <3>5
  <2>5. ASSUME running' > 0
        PROVE  PrinterRuns'
    <3>1. PrinterRuns /\ 0 < running /\ running <= running
      BY <1>1, <2>2, <2>5, SizesAreNat, SMT DEF Process
    <3>2. Command' = Command
      BY <1>1, <2>3, <3>1 DEF Continues, Command
    <3>3. PICK text : text = Command
      OBVIOUS
    <3>4. PICK name : name = ArgsOf(text)
      OBVIOUS
    <3>5. ~Ends
      <4>1. running # running - 1
        BY <1>1, SizesAreNat, SMT DEF Process
      <4> QED
        BY <1>1, <4>1 DEF Ends
    <3>6. /\ Code(text) = "cat" /\ Fits(text) => CatIs(name)'
          /\ Code(text) = "ls" => LsIs'
          /\ Code(text) = "counter" => CounterIs'
      BY <1>1, <2>1, <3>1, <3>3, <3>4, <3>5, PrinterMoves
         DEF CatGoesOn, LsGoesOn, CounterGoesOn, CatEnds, LsEnds, CounterEnds
    <3>7. Code(text)' = Code(text) /\ Command' = text
      BY <2>1, <3>2, <3>3
    <3> QED
      BY <3>4, <3>6, <3>7 DEF PrinterRuns, Fits
  <2> QED
    BY <2>4, <2>5
<1> QED
  BY <1>2, <1>3, <1>4 DEF PrintInv

LEMMA PrintStarts ==
  ASSUME SessionInv, NextSession, PrintInv, Starts
  PROVE  PrintInv'
<1>1. TypeOK /\ OnDisk /\ UNCHANGED inode /\ running \in Process /\ running \in Nat
      /\ DOMAIN out = Process /\ running' = running + 1 /\ running' \in Process
  BY RunningType DEF Starts, SessionInv, FilesInv, PrintInv
<1>2. PICK command \in Seq(STRING) :
        /\ Known(NameOf(command))
        /\ local'[running].text = command
        /\ args'[running'] = ArgsOf(command)
        /\ fdarray'[running'] = Fresh(fdarray[running'])
        /\ memory'[running'] =
             CopyProgramImage(inode[Lookup(NameOf(command)).inode_num]).bytes
        /\ pc'[running'] = Disk[memory'[running'][2]]
        /\ pc'[running'] # "shell.status"
        /\ out' = [out EXCEPT ![running'] = <<>>]
  BY DEF Starts
<1>3. DOMAIN out' = Process /\ out'[running'] = <<>>
  BY <1>1, <1>2
<1>4. PrintsFaithfully'
  <2>1. \A code : ~Ended(code)'
    BY <1>2 DEF Ended, At
  <2> QED
    BY <2>1 DEF PrintsFaithfully, CatPrints, LsPrints, CounterCounts
<1>5. ASSUME AllSound'
      PROVE  CallersDoNotPrint' /\ PrinterRuns'
  <2>1. AllSound /\ \A text : Code(text)' = Code(text)
    BY <1>1, <1>5, MeaningStays
  <2>2. CallersDoNotPrint /\ (running > 0 => PrinterRuns)
    BY <2>1 DEF PrintInv
  <2>3. CallersDoNotPrint'
    <3> SUFFICES ASSUME NEW p \in Process, 0 < p, p < running'
                 PROVE  ~Printer(local[p - 1].text)'
      BY DEF CallersDoNotPrint
    <3>1. p - 1 \in Process /\ p - 1 # running /\ (p < running \/ p = running)
      BY <1>1, SizesAreNat, SMT DEF Process
    <3>2. local'[p - 1] = local[p - 1]
      BY <3>1 DEF Starts
    <3>3. PICK text : text = local[p - 1].text
      OBVIOUS
    <3>4. Printer(text)' <=> Printer(text)
      BY <2>1 DEF Printer, Fits
    <3>5. CASE p < running
      BY <2>2, <3>2, <3>3, <3>4, <3>5 DEF CallersDoNotPrint
    <3>6. CASE p = running
      <4>1. PrinterRuns /\ text = Command
        BY <2>2, <3>3, <3>6 DEF Command
      <4>2. PICK name : name = ArgsOf(text)
        OBVIOUS
      <4>3. running' # running /\ ~(running' = running - 1)
        BY <1>1, SMT
      <4>4. ~Printer(text)
        BY <1>1, <2>1, <4>1, <4>2, <4>3, PrinterMoves
           DEF Printer, CatGoesOn, LsGoesOn, CounterGoesOn, CatEnds, LsEnds,
               CounterEnds, Ends
      <4> QED
        BY <3>2, <3>3, <3>4, <4>4
    <3> QED
      BY <3>1, <3>5, <3>6
  <2>4. Command' = command
    <3>1. running' - 1 = running
      BY <1>1, SMT
    <3> QED
      BY <1>2, <3>1 DEF Command
  <2>5. pc'[running'] = Code(command)
    <3> DEFINE node == inode[Lookup(NameOf(command)).inode_num]
    <3>1. Inode(node) /\ Sound(node)
      BY <1>1, <1>2, <2>1, LookupType, InodesOnDisk DEF AllSound
    <3>2. CopyProgramImage(node).bytes = Content(node)
      BY <3>1, CopySound DEF Done
    <3> QED
      BY <1>2, <3>2 DEF Code
  <2>6. AllClosed'
    <3>1. ASSUME NEW fd \in Fd
          PROVE  Entry(fd)'.flags = 0
      <4>1. fdarray[running'][fd] \in Descriptor
        BY <1>1, RunningType
      <4>2. Entry(fd)' = [fdarray[running'][fd] EXCEPT !.flags = 0]
        BY <1>2 DEF Entry, Fresh
      <4> QED
        BY <4>1, <4>2 DEF Descriptor
    <3> QED
      BY <3>1 DEF AllClosed
  <2>7. Code(command)' = Code(command)
    BY <2>1
  <2>8. Code(command) = "cat" => CatIs(ArgsOf(command))'
    BY <1>2, <1>3, <2>5, <2>6, ArgsType DEF CatIs, At
  <2>9. Code(command) = "ls" => LsIs'
    BY <1>3, <2>5, <2>6 DEF LsIs, At
  <2>10. Code(command) = "counter" => CounterIs'
    BY <1>3, <2>5 DEF CounterIs
  <2> QED
    BY <2>3, <2>4, <2>7, <2>8, <2>9, <2>10 DEF PrinterRuns
<1> QED
  BY <1>3, <1>4, <1>5 DEF PrintInv

LEMMA PrintEnds ==
  ASSUME SessionInv, NextSession, PrintInv, Ends
  PROVE  PrintInv'
<1>1. UNCHANGED inode /\ running \in Process /\ running \in Nat /\ running > 0
      /\ DOMAIN out = Process /\ running' = running - 1 /\ running' \in Process
  BY RunningType DEF Ends, SessionInv, FilesInv, PrintInv
<1>2. DOMAIN out' = Process
  BY <1>1, OutStays
<1>3. running' # running /\ running' + 1 = running
  BY <1>1, SMT
<1>4. local'[running'] = local[running - 1]
  BY <1>1, <1>3 DEF Ends
<1>5. Me'.text = Command /\ Printed' = out'[running]
  BY <1>1, <1>3, <1>4 DEF Me, Command, Printed
<1>6. PICK text : text = Command
  OBVIOUS
<1>7. PICK name : name = ArgsOf(text)
  OBVIOUS
<1>8. ASSUME AllSound
      PROVE  /\ Code(text) = "cat" /\ Fits(text) => CatEnds(name)
             /\ Code(text) = "ls" => LsEnds
             /\ Code(text) = "counter" => CounterEnds
  <2>1. PrinterRuns
    BY <1>1, <1>8 DEF PrintInv
  <2> QED
    BY <1>1, <1>3, <1>6, <1>7, <1>8, <2>1, PrinterMoves
       DEF CatGoesOn, LsGoesOn, CounterGoesOn
<1>9. ASSUME NEW code, Ended(code)'
      PROVE  AllSound /\ Code(text) = code
  <2>1. AllSound' /\ Code(Me.text)' = code
    BY <1>9 DEF Ended, Code
  <2>2. AllSound /\ Code(text)' = Code(text)
    BY <1>1, <2>1, MeaningStays
  <2>3. Me'.text = text
    BY <1>5, <1>6
  <2> QED
    BY <2>1, <2>2, <2>3
<1>10. CatPrints'
  <2> SUFFICES ASSUME Ended("cat")', Len(ArgsOf(Me.text))' < BufSize
               PROVE  IF name = <<>> THEN Result' = 3
                      ELSE IF ~Known(name) THEN Result' = 2
                      ELSE /\ Result' = 0
                           /\ Lookup(name).filetype = 2 => Printed' = TextOf(name)'
    BY <1>5, <1>6, <1>7 DEF CatPrints
  <2>1. Fits(text)
    BY <1>5, <1>6 DEF Fits
  <2>2. CatEnds(name)
    BY <1>8, <1>9, <2>1
  <2>3. TextOf(name)' = TextOf(name)
    BY <1>1 DEF TextOf, Content
  <2> QED
    BY <1>5, <2>2, <2>3 DEF CatEnds, Result
<1>11. LsPrints'
  BY <1>5, <1>8, <1>9 DEF LsPrints, LsEnds
<1>12. CounterCounts'
  <2> SUFFICES ASSUME Ended("counter")', Printed' # <<WrongChoice>>,
                      NEW k \in DOMAIN Printed'
               PROVE  Numeral(Printed'[k]) = k /\ Printed'[k][1] # 0
    BY DEF CounterCounts
  <2>1. PICK max \in Nat : Printed' = [j \in 1 .. max |-> Itoa(j, 10)]
    BY <1>5, <1>8, <1>9 DEF CounterEnds
  <2>2. k \in 1 .. max
    BY <2>1
  <2>3. k \in Nat /\ k # 0
    BY <2>1, <2>2, SMT
  <2>4. Printed'[k] = Itoa(k, 10)
    BY <2>1, <2>2
  <2> QED
    BY <2>3, <2>4, ItoaIsDecimal
<1>13. ASSUME AllSound'
       PROVE  CallersDoNotPrint' /\ (running' > 0 => PrinterRuns')
  <2>1. AllSound /\ \A other : Code(other)' = Code(other)
    BY <1>1, <1>13, MeaningStays
  <2>2. CallersDoNotPrint
    BY <2>1 DEF PrintInv
  <2>3. \A other : Printer(other)' <=> Printer(other)
    BY <2>1 DEF Printer, Fits
  <2>4. ASSUME NEW p \in Process, 0 < p, p <= running'
        PROVE  ~Printer(local[p - 1].text)'
    <3>1. p - 1 \in Process /\ p - 1 # running /\ p < running
      BY <1>1, <2>4, SizesAreNat, SMT DEF Process
    <3>2. local'[p - 1] = local[p - 1]
      BY <3>1 DEF Ends
    <3>3. PICK other : other = local[p - 1].text
      OBVIOUS
    <3>4. ~Printer(other)
      BY <2>2, <2>4, <3>1, <3>3 DEF CallersDoNotPrint
    <3> QED
      BY <2>3, <3>2, <3>3, <3>4
  <2>5. CallersDoNotPrint'
    <3>1. \A p \in Process : p < running' => p <= running'
      BY <1>1, SizesAreNat, SMT DEF Process
    <3> QED
      BY <2>4, <3>1 DEF CallersDoNotPrint
  <2>6. ASSUME running' > 0
        PROVE  PrinterRuns'
    <3>1. 0 < running' /\ running' <= running'
      BY <1>1, <2>6, SMT
    <3>2. ~Printer(Command)'
      BY <1>1, <2>4, <3>1 DEF Command
    <3> QED
      BY <3>2 DEF PrinterRuns, Printer
  <2> QED
    BY <2>5, <2>6
<1> QED
  BY <1>2, <1>10, <1>11, <1>12, <1>13 DEF PrintInv, PrintsFaithfully

LEMMA PrintInitial == InitSession => PrintInv
<1> SUFFICES ASSUME InitSession
             PROVE  PrintInv
  OBVIOUS
<1>1. running = 0 /\ 0 \in Process /\ ~(0 > 0) /\ \A p \in Process : ~(0 < p /\ p < 0)
  <2>1. 0 \in Process /\ ~(0 > 0) /\ \A p \in Process : ~(0 < p /\ p < 0)
    BY SizesAreNat, SMT DEF Process
  <2> QED
    BY <2>1 DEF InitSession, Init
<1>2. DOMAIN out = Process
  BY DEF InitSession
<1>3. pc[0] = "shell"
  BY <1>1 DEF InitSession
<1>4. \A code : ~Ended(code)
  BY <1>1, <1>3 DEF Ended, At
<1>5. PrintsFaithfully
  BY <1>4 DEF PrintsFaithfully, CatPrints, LsPrints, CounterCounts
<1>6. CallersDoNotPrint
  BY <1>1 DEF CallersDoNotPrint
<1> QED
  BY <1>1, <1>2, <1>5, <1>6 DEF PrintInv

LEMMA PrintKeeps ==
  ASSUME SessionInv, PrintInv, [NextSession]_<<vars, session>>
  PROVE  PrintInv'
<1>1. CASE NextSession
  BY <1>1, StepMoves, PrintContinues, PrintStarts, PrintEnds
<1>2. CASE UNCHANGED <<vars, session>>
  <2>1. UNCHANGED <<inode, running, fdarray, reply, args, pc, local, out>>
    BY <1>2 DEF vars, session
  <2>2. AllSound' = AllSound /\ \A text : Code(text)' = Code(text)
    BY <2>1, MeaningStays
  <2>3. CallersDoNotPrint' = CallersDoNotPrint
    BY <2>1, <2>2 DEF CallersDoNotPrint, Printer, Fits
  <2>4. PrinterRuns' = PrinterRuns
    <3>1. \A name : CatIs(name)' = CatIs(name)
      BY <2>1 DEF CatIs, CatHasRead, At, AllClosed, OpenAt, Entry, Me, Result, Data,
                  Known, CharsUpTo, Piece, Content
    <3>2. LsIs' = LsIs
      BY <2>1 DEF LsIs, At, AllClosed, OpenAt, Entry, Me, Result, Data, ListUpTo, NameAt
    <3>3. CounterIs' = CounterIs /\ Command' = Command
      BY <2>1 DEF CounterIs, Command
    <3> QED
      BY <2>2, <3>1, <3>2, <3>3 DEF PrinterRuns, Fits
  <2>5. PrintsFaithfully' = PrintsFaithfully
    <3>1. UNCHANGED <<Me, Result, Printed>>
      BY <2>1 DEF Me, Result, Printed
    <3>2. \A code : Ended(code)' = Ended(code)
      BY <2>1 DEF Ended, AllSound, At, Result, Me, Content
    <3>3. \A name : TextOf(name)' = TextOf(name)
      BY <2>1 DEF TextOf, Content
    <3> QED
      BY <3>1, <3>2, <3>3 DEF PrintsFaithfully, CatPrints, LsPrints, CounterCounts
  <2> QED
    BY <2>1, <2>2, <2>3, <2>4, <2>5 DEF PrintInv
<1> QED
  BY <1>1, <1>2

-----------------------------------------------------------------------------
(* Whatever a session has done before, cat prints a file from its first to *)
(* its last character, ls every name of the directory and counter the      *)
(* decimal numerals: on any sound disk, for any file, buffer size and      *)
(* count.                                                                  *)
THEOREM ProgramsPrintFaithfully == SpecSession => []PrintsFaithfully
<1>1. PrintInv => PrintsFaithfully
  BY DEF PrintInv
<1>2. SessionInv /\ PrintInv /\ [NextSession]_<<vars, session>> => PrintInv'
  BY PrintKeeps
<1> QED
  BY <1>1, <1>2, PrintInitial, SessionInvariant, PTL DEF SpecSession
=============================================================================
