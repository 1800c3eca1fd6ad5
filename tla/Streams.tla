------------------------------ MODULE Streams ------------------------------
(***************************************************************************)
(* What open, read, write and close promise to a program: a descriptor is  *)
(* a place in an object that nobody changes.  A read of a file gives the   *)
(* next bytes, as many as were asked for and are left; a read of the       *)
(* directory gives the next name, cut to the size asked for; the clock     *)
(* gives nothing.  Of a damaged file nothing is promised.                  *)
(***************************************************************************)
EXTENDS Integers, Sequences

CONSTANTS Process, Fd,   \* the descriptors that open hands out
          Object,        \* the object behind each name
          Closed

VARIABLES
  content,    \* of each object: its kind, its items, and whether it is sound
  fds,        \* of each process
  reply       \* to the latest of these calls of each process

vars == <<content, fds, reply>>

NoReply == [call |-> <<>>, value |-> 0, data |-> <<>>]

Init ==
  /\ fds = [p \in Process |-> [fd \in Fd |-> Closed]]
  /\ reply = [p \in Process |-> NoReply]

Reply(p, value, data) ==
  reply' = [reply EXCEPT
              ![p] = [call |-> reply'[p].call, value |-> value, data |-> data]]

Fails(p) == Reply(p, -1, <<>>) /\ UNCHANGED fds
IsOpen(p, fd) == fd \in Fd /\ fds[p][fd] # Closed
Cut(seq, first, n) ==
  SubSeq(seq, first, IF first + n - 1 < Len(seq) THEN first + n - 1 ELSE Len(seq))

(* The lowest descriptor that is closed, and from the start. *)
Open(p, name) ==
  LET closed == {fd \in Fd : fds[p][fd] = Closed} IN
  IF name \notin DOMAIN Object \/ closed = {} THEN Fails(p)
  ELSE \E fd \in closed :
         /\ \A other \in closed : fd <= other
         /\ fds' = [fds EXCEPT ![p][fd] = [object |-> Object[name], pos |-> 0]]
         /\ Reply(p, fd, <<>>)

Take(p, fd, moved, data) ==
  /\ fds' = [fds EXCEPT ![p][fd].pos = @ + moved]
  /\ Reply(p, Len(data), data)

ReadOpen(p, fd, n) ==
  LET object == content[fds[p][fd].object]
      pos == fds[p][fd].pos
      bytes == Cut(object.items, pos + 1, n)
  IN \/ object.kind = "file" /\ object.sound /\ Take(p, fd, Len(bytes), bytes)
     \/ /\ object.kind = "directory"
        /\ IF pos < Len(object.items)
             THEN Take(p, fd, 1, Cut(object.items[pos + 1], 1, n))
             ELSE Take(p, fd, 0, <<>>)
     \/ object.kind = "rtc" /\ Take(p, fd, 0, <<>>)
     \/ /\ ~object.sound
        /\ fds' = [fds EXCEPT ![p][fd].pos = fds'[p][fd].pos]
        /\ reply' = [reply EXCEPT ![p] = reply'[p]]

Read(p, fd, n) ==
  IF IsOpen(p, fd) /\ n >= 0 THEN ReadOpen(p, fd, n) ELSE Fails(p)

(* Only the clock can be written to. *)
Write(p, fd) ==
  \/ Fails(p)
  \/ /\ IsOpen(p, fd)
     /\ content[fds[p][fd].object].kind = "rtc"
     /\ Reply(p, 0, <<>>)
     /\ UNCHANGED fds

Close(p, fd) ==
  IF ~IsOpen(p, fd) THEN Fails(p)
  ELSE /\ fds' = [fds EXCEPT ![p][fd] = Closed]
       /\ Reply(p, 0, <<>>)

(* A call of another kind. *)
Other(p) == Reply(p, 0, <<>>) /\ UNCHANGED fds

(* The end of a process leaves nothing open; its caller hears of it. *)
Exit(p) ==
  /\ fds' = [fds EXCEPT ![p] = [fd \in Fd |-> Closed]]
  /\ \E caller \in Process :
       reply' = [reply EXCEPT ![p] = NoReply, ![caller] = NoReply]

Next ==
  /\ UNCHANGED content
  /\ \E p \in Process :
       LET call == reply'[p].call IN
       \/ call # <<>> /\ call[1] = "open" /\ Open(p, call[2])
       \/ call # <<>> /\ call[1] = "read" /\ Read(p, call[2], call[3])
       \/ call # <<>> /\ call[1] = "write" /\ Write(p, call[2])
       \/ call # <<>> /\ call[1] = "close" /\ Close(p, call[2])
       \/ call = <<>> /\ Other(p)
       \/ Exit(p)

Spec == Init /\ [][Next]_vars
=============================================================================
