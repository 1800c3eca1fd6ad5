# A verification of Device_OS

Device_OS is a small operating system for one x86 processor: three text
terminals, up to six processes, a round-robin scheduler driven by the PIT, a
read-only file system, an RTC driver and a mouse.  This directory holds TLA+
modules of its kernel, TLC configurations that check them on small instances
and TLAPS proofs of what holds for every instance.

File names below are relative to
`src/mp3_group_08-master/mp3_group_08-master/student-distrib/`.

Contents: [inventory](#inventory), [how the parts interact](#how-the-parts-interact),
[modules](#modules), [runs](#runs), [bounds](#bounds), [fairness](#fairness),
[proofs](#proofs), [disagreements](#disagreements), [not modelled](#not-modelled),
[plan](#plan).

## Inventory

| Component | State it keeps | Operations | What is hard | What makes it correct |
|---|---|---|---|---|
| Processes (`system_calls.c`) | PCBs, `pid_mask`, `shell_mask`, `typing_mask`, `pid_arr`, `halt_value` | `execute`, `halt`, `map_program_mem` | `halt` runs with interrupts enabled; a child resumes its parent by a jump into the parent's saved frame | nobody jumps to a frame that is not there; the caller gets its own child's status; pids are neither lost nor used twice |
| Scheduler (`pit.c`) | `terminal_process_index`, the saved `program_ESP` of each PCB, `tss.esp0`, the mapped image | `pit_handler`, `schedule` | preempts every call at any store; saves into the PCB that `pid_arr` names, not into "the interrupted one"; passes over idle shells | a switch resumes what was interrupted; displayed and busy terminals are not starved |
| Exceptions (`idt.c`) | none | 20 handlers | they print on the display, with interrupts enabled, and never return | the rest of the system goes on |
| RTC driver (`rtc.c`) | the flag `rtc_interrupt`, the clock's rate, register C | `rtc_handler`, `open`, `read`, `write`, `close` | one flag and one clock for all readers | no read returns early, none loses an interrupt; the rate serves the frequency |
| Line editor (`keyboard.c`, `terminal.c`) | for each terminal `keyboard_buf`, `keyboard_idx`, `enter_flag`, ten rows of history, `command_pos` | `keyboard_handler`, `terminal_read`, the right click | a handler changes the line between any two bytes that `terminal_read` copies or resets | the line shown at Enter is the line delivered and recalled; no line outgrows its buffer |
| Screens (`terminal.c`, `lib.c`, `paging.c`, vidmap in `system_calls.c`) | the VGA page, one hidden frame for each terminal, one page table entry, the TLB, cursors, the characters on the page | `terminal_write`, echo, `switch_terminal`, `vidmap`, the last lines of `schedule`; `putc`, `shift_screen`, `clear`, `set_cursor` | handlers change the entry under the interrupted program and restore it; the TLB is not told; `vidmap` takes pages away for a moment; the right edge and the last row meet in one `putc` | each screen holds its terminal's output and nothing else, at the places where one would print it; the line edited is the line shown |
| File system (`file_system.c`, `system_calls.c`) | the image (constant), descriptors of each PCB | `open`, `read`, `close`, `read_data`, `directory_read`, `copy_program_image` | block arithmetic; descriptors and PCBs that are used again | a file is delivered from its first byte on without gap; 0 means its end |
| Command line (`system_calls.c:151-202`, `getargs`) | argument buffer of the PCB | parsing | fixed arrays and a loop that stops in four ways | the shell says "no such command" exactly of what cannot run; programs get the arguments typed |
| Mouse and paint (`mouse.c`) | pointer, the character under it, button, `paint` | packet handler | shares the page and `enter_flag` with the keyboard; puts back what it read at the packet before | the pointer spoils no text |
| Interrupt controller (`i8259.c`), linkage (`assembly_linkage.S`), boot (`kernel.c`) | masks, requests, lines in service, the interrupt flag | `i8259_init`, `enable_irq`, `send_eoi`, the `iret`s, `entry` | an acknowledgement is sent by another thread than the one that owes it; handlers nest; interrupts are enabled in the middle of the boot | nothing is in service while interrupts are enabled; every request is served |
| User programs (`../syscalls`, `../fish`) | their buffers | shell, cat, ls, grep, syserr, hello, counter, testprint, sigtest, fish | reads in pieces that cut lines and names; statuses that stand for errors | they print what the files hold; the tests of wrong calls pass |
| Paging set-up, library, signals | fixed data, or none | | run once, or hold no state | - |

The hazards, each with the line where it bites and the properties that watch
it, are listed in `PROJECT.json`.

## How the parts interact

There is one processor.  A system call enters through a *trap* gate, which
leaves interrupts enabled (`idt.c`); exceptions do too; device handlers and the
timer enter through *interrupt* gates, which mask them.  `execute` masks
interrupts itself until just before its `iret`; `terminal_write` and
`rtc_change_rate` mask them around their bodies.  Hence the grain of the
modules: a handler, or code under `cli()`, is one step; `halt`,
`terminal_read` down to its bytes, `vidmap`, the messages of the exception
handlers and the loop of `rtc_read` are one step per store or test that
somebody else can see.

- The timer calls `schedule`, which saves the running thread in the PCB of the
  process on top of its terminal and resumes the process on top of the next
  terminal, or starts a shell on one that has none.
- A shell calls `execute`, which leaves the caller inside the call, on its own
  kernel stack, until the child's `halt` jumps to `finish_execute` there.
- The keyboard handler edits the line of the displayed terminal, echoes through
  page 0xB8 and calls `switch_terminal`.  Which frame the page is depends on
  the process that was interrupted.
- The RTC handler sets one flag; readers of all terminals poll it.
- `execute` reads the file system; `halt` closes descriptors.
- A program's system calls go through the linkage, which checks the number, and
  through the descriptor's table of operations to the terminal, the files or the
  RTC.
- Every device handler acknowledges its interrupt itself: the keyboard's and the
  mouse's before their work, the RTC's after it, the timer's after the context
  switch or, for a new shell, before it.

## Modules

| Module | Models | Lines it stands for |
|---|---|---|
| `Kernel` | `execute`, `halt` store by store, `pit_handler` and `schedule`, faults, the choice of the displayed terminal | `system_calls.c:79-138, 151-304, 599`; `pit.c:27-103`; `idt.c:110-250`; `terminal.c:182-225` |
| `Sessions` | abstract specification: what `execute` and `halt` promise | - |
| `KernelSessions` | the refinement mapping from `Kernel` to `Sessions` | - |
| `Rtc` | the RTC driver, the clock's interrupt line | `rtc.c` |
| `TerminalLine` | one terminal's line editor and reader | `keyboard.c:56-311`; `terminal.c:53-107`; `mouse.c:99-130` |
| `Video` | screens, the page entry, the TLB, cursors, `vidmap`, messages of exceptions | `terminal.c:116-137, 182-258`; `system_calls.c:491-531`; `pit.c:27-103`; `lib.c:176-214, 556-565`; `idt.c:110-306` |
| `Screen` | the characters of one terminal's page: `putc`, scrolling, clearing, the echo of every key, the pointer | `lib.c:17-31, 163-241`; `terminal.c:96-177, 233-258`; `keyboard.c:99-311`; `mouse.c:51-169` |
| `Paper` | abstract specification: a sheet without end | - |
| `Pic` | the interrupt controllers, the IDT, the handlers' acknowledgements, the boot | `i8259.c`; `idt.c:38-88`; `assembly_linkage.S:10-36`; `pit.c:33-103`; `kernel.c:156-193` |
| `Files` | the system calls of a program: files, directory, descriptors, `execute` with its parser, `getargs`, `halt` | `file_system.c:12-354`; `system_calls.c:79-141, 151-260, 316-531, 587-647`; `assembly_linkage.S:38-70` |
| `Streams` | abstract specification: what `open`, `read`, `write` and `close` promise | - |
| `Programs` | the shell and the programs it executes, on `Files` | `../syscalls`, `../fish/fish.c`, `../fish/blink.S:187-379` |
| `MCKernel`, `MCRtc`, `MCTerminalLine`, `MCVideo`, `MCScreen`, `MCPrograms` | values for TLC, and what comments of the code promise | - |
| `KernelProofs`, `RtcProofs`, `TerminalLineProofs`, `VideoProofs`, `ScreenProofs`, `PicProofs`, `FilesProofs`, `ProgramsProofs` | theorems | - |

**Kernel.**  A process, the kernel thread that serves it and its kernel stack
share the pid.  `pc[p]` says where thread p is; the steps of `halt` are named by
the store that comes next.  `stack[p]` says on whose stack p's frames are
(`execute` builds the child's first frame on the caller's stack).  A thread that
returns to user mode will enter the kernel again at the top of the stack
`tss.esp0` names: `ToUser` puts into `lost` every thread whose frames that
overwrites.  `crashed` records a jump or a stack switch to something that was
not saved, after which the processor does anything and the module stops.
`halt` reads its parent once, into `pid_temp`; its local variables are gone when
it jumps.  `derailed` collects five *hazards*, circumstances the code does not
defend itself against:

- `halt_preempted`: the timer interrupts `halt`;
- `launch_preempted`: it interrupts the instruction between `sti` and `iret`
  of a base shell's launch;
- `undisplayed_execute`: a command is executed by a shell whose terminal is not
  displayed, and is filed under the one that is;
- `base_pid_taken`: a command takes a pid below 3 before all base shells run;
- `image_damaged`: the image cannot be copied after its PCB is made and its page
  is mapped, and `execute` returns -1 to a caller whose image is mapped no more
  (`ExecuteDamaged`; `Files` has what makes the copy fail).

`Clean` says that none has happened.  Properties that start with `Clean =>` hold
until the first of them; the others hold always.

**Sessions** is what a user of the terminals expects: one stack of processes
for each terminal, `execute` pushes, `halt` pops and hands its status to the
process below, terminals do not affect each other.  `KernelSessions` maps a
process in the middle of `halt` to one that is still on top of its terminal and
`exiting`, and `finish` to a pending reply.

**Rtc.**  `irqf` is the clock's line, which stays up until the handler has read
register C, `pending` an edge in the interrupt controller.  `since` and
`disturbed` are history: which reader has had an interrupt since its own reset,
and which has seen another reader's reset.

**TerminalLine.**  The handler works on local copies (`LocalBuf`, `LocalIdx`),
which are empty when `enter_flag` is set, and clears the flag on every key, as
the code does; only some keys write the copies back.  `Escape` is the character
NUL.  `i` may be uninitialised when the flag is set on entry.  `terminal_read` is
a step for each byte that it copies, compares, moves to the next row of the
history or clears, and for each of the stores behind its loops (`terminal.c:80`
to `:104`): a key may come between any two.  So `StoreIdx`, `ClearIdx` and
`ResetPos` are three: after the first the newest row may be an empty one, on
which Up and Down rest until the third.  A read may be of any size, also beyond
the 128 bytes of the line, as the shell's 1023 is; the loop stops at the end of
the line because no line reaches the end of its buffer, which is `LineFits`.
`memset` is byte by byte, the finest that it can be.  `entered`, `dirty` and
`clean` are history: the line on the screen at Enter, whether a key
came between a pass of the loop and Enter, and whether the read met none of the
disturbances described under [disagreements](#disagreements).

**Video.**  An output is a pair of terminal and number; a screen is a set of
outputs, wherever they are on it.  `Through(p)` is the frame that a store to
page 0xB8 reaches.  `pc` says where the top process of each terminal is: in
`vidmap`, whose stores to the page directory, to the entry of page 0xB8 and to
the entries of the hidden terminals are a step each, or in the handler of an
exception, which stores a character of its message, moves the hardware's cursor
and records the cursor in three steps.  Between the first store of the first
`vidmap` and the last, pages are missing (`present`, `Absent`): a store to one
faults, and so does the message of that fault, so that nothing happens any more
(`Crash`, `dead`); a copy of a page that stops in its middle is not looked at.  A
message belongs to the terminal whose program faulted and goes where the cursor of
the display is.  A fault inside `terminal_write`, under `cli()`, stops the machine
likewise.  `putc` reads the cursor before it stores the character; the model
reads it when it moves the hardware's, which is the same unless somebody else
prints meanwhile, and then `raced` is set.  `derailed` is set when a handler, a
`vidmap` or a message from a hidden terminal finds the page set up for somebody
else; `raced` when somebody prints on the display between the steps of a message.

**Screen** keeps the page twice: `screen` is what the user sees, `text` the same
without the pointer, and what has scrolled off is kept above it, where only the
refinement looks.  `line`, `command_pos` and `saved` are there for what they do
to the page; their races with a reader are `TerminalLine`'s.  `ShowsPaper` says
that the page is the end of a sheet on which everything since the last clear is
printed one after the other (**Paper**): the handler's way of blanking a line
and printing another over it, too, is one `Retype` there.  `intact`, `clean` and
`touched` are history: nothing has parted the line from the cursor, the packets
so far found the page as they had left it, and the page has changed since the
latest.  Escape types the character 0.  The page shows it as a character, but
`puts` ends there (`CString`) when Up or Down recall the line, and an unset
`prev_char` is the same 0: `intact` and `clean` end where these are confused.

**Pic.**  A thread is the sequence of its instructions ahead that concern
interrupts: an interrupt puts its handler's in front, `iret` is one of them, and
user mode is the empty sequence.  `schedule` leaves the rest of a thread's
`pit_handler` behind for whoever switches back.  Which terminal is next, and what
happens when `schedule` saves into the wrong PCB, are `Kernel`'s.

**Files.**  A byte is its place on the disk, which has a character.  The
processes of one terminal form a stack; only the last one runs, so a system call
is one step.  The code reads with three counters; a file's reference definition
is `Content`.  The image need not be sound: blocks that are not on the disk
make `read_data` fail where the code finds them.

**Programs** adds to each process its program counter and variables.  One step
is a system call with what the program does up to the next one.  A program is
known by the character at its entry point: if `execute` loaded another image,
another program would run.  Of `fish` there is the list of the places that blink,
which `blink.S` keeps: both frames, the mark that is added, set to the pace of
the first place and removed again by its place alone, so that the newest entry of
that place must be the mark.  Of `blink.S` the pace itself is left out, the
tasklet that counts interrupts down; a place is a row and a column, of lines
shorter than the screen; and fish waits once where it waits 100 times.  `execute`
has arrays for 128 characters of arguments and does not look whether they are
full (`system_calls.c:161`, `:189`): no line of 72 characters fills them, and the
model has no such limit.  `any` stands for the executables of the image that
are not in the repository: it makes up to `TryCalls` calls of its choice.

Operators such as `ParentPrevious` next to `Parent` are mistakes the code could
have made.  Nothing uses them but the mutants of `PROJECT.json`: with each of
them in place of its neighbour, the run named there fails.

## Runs

| Run | Question | Size |
|---|---|---|
| `kernel` | Do the tables keep their types, finds an empty terminal always a pid, has every live pid a parent, is no base shell freed, and does a program that halts give its pid back, in every interleaving, hazards included? | 2 terminals, 3 pids, 42 thousand states |
| `kernel_sessions` | While no hazard happens: is every stack pointer valid, is the running process mapped, do PCBs, masks and waiting threads agree, is no terminal starved that is displayed or busy, and does `Kernel` implement `Sessions`, each caller being told its own child's status? | 3 terminals, 5 pids, 79 thousand states |
| `kernel_paging` | Is the parent's paging restored, as a comment says? **No.** | 2 terminals, 3 pids |
| `rtc` | Does no read return early or miss an interrupt unless another reader resets the flag, does a lone reader return, and does a write of a power of two set the clock to it? | 2 processes, 13 frequencies, 97 thousand states |
| `rtc_lost_wakeup` | Does a read return at the next interrupt, as a comment says? **No.** | 2 processes |
| `line` | Do lines and history rows stay within the limit, does recall never rest on an empty row but for two steps of a read, is the line shown at Enter the one that is delivered and filed, is a lasting Enter heard? | limit 1, 3 rows, reads of 1 and 3 bytes, 765 thousand states |
| `line_size` | Does a read write at most `nbytes` bytes, as a comment says? **No.** | limit 2 |
| `video` | Does each screen, shown or saved, hold its terminal's output and nothing else; is the cursor right; has a drawing program its own screen, while others are in `vidmap` or fault? | 2 terminals, 518 thousand states |
| `video_switch` | Does `switch_terminal` remap the page, as its comment says? **No.** | 2 terminals |
| `screen` | Does the page show what a sheet without end would, is the line before the cursor the line to be delivered, does the pointer spoil nothing? | 2 columns, 2 rows, 115 thousand states |
| `pic` | Is in service exactly what the running thread will end, nothing while interrupts are enabled, and is every request served? | 2 threads and the boot, nesting to 2, 11 thousand states |
| `programs` | Are `open`, `read`, `write` and `close` what `Streams` promises, are programs loaded whole, commands parsed, statuses reported; do cat, ls, counter and fish print and grep find what the files hold; do syserr's tests pass? | 3 processes, 3 descriptors, 102 images, 78 thousand states |

`rtc` does not check for deadlock: after a write of frequency 1 the clock is
off, and a system of readers stops for good (see below).  `RateServesFrequency`
is about the powers of two above it; what the code does with other frequencies
is a disagreement with `rtc.c:89`, told below, and no property of the project
calls it right.

## Bounds

- *Terminals and pids.*  The code has 3 and 6.  `kernel` needs the full set of
  interleavings with every hazard and is kept at 2 and 3 (one spare pid, which
  two terminals compete for); its four safety properties are proved for all
  numbers.  `kernel_sessions` has the code's 3 terminals, so that `pit_handler`
  has somebody to pass over, and two pids to spare, so that two programs run or
  nest.
- *Hazards* end the behaviours of `kernel_sessions` (`HazardFreeSpec`).  It loses
  nothing for properties that say nothing afterwards.  `NoTerminalStarves` means:
  in every behaviour without a hazard.  `HaltGivesBackPid` is checked in
  `kernel`, with the hazards.
- *Status.*  `OwnStatus` gives the programs of each terminal a status of their
  own, so that one terminal's cannot be taken for its neighbour's.
- *Frequencies.*  `EdgeFrequencies` holds 1, 2, 32, 512 and 1024, and the values
  next to them, two of which `rtc_write` refuses: the rate computation changes
  its result between a power of two and its successor only.
- *Line.*  A limit of 1 character reaches every boundary: empty, full, and
  refused.  Three rows are the least with a row between the newest and the last.
  Reads are of a full line's length and of more than the buffer has, so that the
  loop ends by the size of the read and by the end of the line.  A line torn by a
  key while it is copied needs two characters; the proofs have it, like the sizes
  of the code: 72, 128, 10 and 1023.
- *Video.*  Two terminals: one on display and one hidden, each in the middle of
  `vidmap`, of a message, drawing or idle; a third would be one more of
  the hidden ones, and whom `PitNext` passes over is `Kernel`'s question.
  `MaxOut` bounds the outputs of each terminal to one.  A missing or misplaced
  output shows with one; the proofs hold for any number of both.
- *Screen.*  Two columns and rows: a line of two characters wraps wherever it
  begins, and every newline is in the first or the last row.  `Scrolls` lets one
  row leave the page; what is above is not looked at again, so that a second one
  adds nothing.  Output is a character and a newline at once, the history has two
  commands of different lengths.  The constraint `Followed` ends a behaviour when
  something is printed under the pointer after its first packet: nothing is
  promised of the pointer then, and nothing of the text depends on it; and when
  an Enter before the right click starts a program that prints over the picture,
  or the pointer has come up and a command is recalled.  `OnFirstRow` keeps lines
  with a 0 to the first row of a page without other text.  The proofs need none
  of these.  `Up` and `Down` are bounded, in the module, to lines that begin on
  the cursor's row.
- *Depth* of `Pic` is how many handlers may be under way on a thread when a
  device asks: two, a handler inside the keyboard's last instructions.
- *Images* of `Programs`: one directory, and two text files that differ: all
  contents of up to three blocks of two characters for `grep`, so that newlines
  fall on, before and behind the end of a buffer and of a block; pairs of
  pictures for `fish`, one of which ends first, with the mark on a place that some
  of them use (`MarkPlace`); files of length 0; blocks that
  are not on the disk, in a text and in a program.  A program is longer than the
  chunk it is copied in.
- *Typed* commands: all words of up to three parts `cat`, `f` and blanks and up
  to five of a character and blanks, which go beyond `NameLen` (3, for 32), and
  each program by itself.  `BufSize` is 3 for 1024, `FdTop` 5 for 8, `NProcess` 3
  for 6, so that every table fills.  `Width`, 32 for 2^32, is larger than any
  file and its successor slot.  `TryCalls` lets `any` make three calls, which is
  what it takes to fail, and to use what the failure has left.

## Fairness

- `WF(Tick)`: the PIT interrupts for ever and no state of `Kernel` has
  interrupts masked for ever; even an exception's loop is preempted.
- `SF(run = p /\ (Launch \/ HaltMove))`: a slice lasts ten milliseconds, thousands
  of instructions, so a thread that gets the processor again and again takes the
  next step of `halt`.  Strong, because between slices the step is disabled.
- `WF(Elapse)`, `WF(Handler)`: a running clock ticks and interrupts are enabled
  whenever a reader polls.  `WF(Poll)`, `WF(ChangeRate)`: by the scheduler.
- `WF(ReadStep)`: a process that reads is on a terminal that is scheduled.
- `Pic`: the processor goes on (`WF(Instruction)`), takes at its next instruction
  what it may take (`SF(Interrupt(q))`), and the devices leave time for what their
  handlers interrupt (`SF(Nesting = n /\ Instruction)`): the fastest asks 1024
  times a second, and a handler takes microseconds.
- Nobody need ever press a key, call `execute` or halt.

## Proofs

TLAPS proves, for all values of the constants:

| Theorem | Module | Says |
|---|---|---|
| `TypeCorrect` | `KernelProofs` | `TypeOK` of `Kernel` |
| `TerminalsStart` | `KernelProofs` | a terminal without a process has its base pid free |
| `ParentAlwaysNamed` | `KernelProofs` | every pid in use has a parent |
| `BaseShellsNeverFreed` | `KernelProofs` | no step frees a base shell's pid |
| `CrashFree` | `KernelProofs` | no thread is resumed from a frame that is not there |
| `RunnerIsMapped` | `KernelProofs` | a thread in user mode has its own image, its own stack in the TSS, and is the caller system calls see |
| `CallerAgreed` | `KernelProofs` | image, frame and stack that `halt` restores are the caller's |
| `TerminalsKeepApart` | `KernelProofs` | a terminal shows a process that was executed there |
| `SlotsKept`, `MasksFit` | `KernelProofs` | no PCB slot is lost or used twice; the masks are right about every process |
| `KernelImplementsSessions`, `HazardFreeImplements` | `KernelProofs` | `Kernel` implements `Sessions` while no hazard happens |
| `NoReadReturnsEarly` | `RtcProofs` | `rtc_read` returns only after an interrupt of its own |
| `UndisturbedReader` | `RtcProofs` | an interrupt is not lost unless another read begins |
| `FrequencyServed`, `TypeCorrect` | `RtcProofs` | each power of two from 2 to 1024 gets a rate that serves it exactly; no rate needs more than four bits |
| `LinesAlwaysFit` | `TerminalLineProofs` | no line outgrows the limit, and `terminal_read` stays inside `keyboard_buf`, whatever size it is asked for |
| `RecalledLinesExist` | `TerminalLineProofs` | recall never rests on an empty row, also while a read moves the rows byte by byte, but for the row just filed until the position is reset |
| `TypeCorrect` | `TerminalLineProofs` | the variables keep their types for reads of any size |
| `LineIsDelivered`, `LineIsRecalled` | `TerminalLineProofs` | the line shown at Enter is the line delivered, and a shell's is the one Up shows first |
| `ScreensAlwaysFaithful`, `TextAlwaysFaithful`, `CursorAlwaysShown`, `OwnScreenAlwaysMapped`, `TypeCorrect` | `VideoProofs` | the properties of `video` |
| `ShowsWhatIsPrinted` | `ScreenProofs` | `Screen` implements `Paper`: the page is the end of all that has been printed since the last clear |
| `LineIsShown` | `ScreenProofs` | before the cursor stands the line that Enter will deliver |
| `PointerIsHarmless` | `ScreenProofs` | the pointer hides one character and spoils none |
| `ServiceAlwaysMatches` | `PicProofs` | in service is exactly the line that the running thread has still to end, nothing while interrupts are enabled |
| `ProgramsLoaded`, `TypeCorrect` | `FilesProofs` | every running program has all of its file in memory and nothing else; descriptors, positions and memory keep their types |
| `FilesImplementStreams` | `ProgramsProofs` | the system calls on descriptors implement `Streams` |
| `CommandIsParsed` | `ProgramsProofs` | a process runs the program its command names and finds the rest of the line as its arguments |
| `ShellTellsFailure` | `ProgramsProofs` | the shell says "no such command" exactly when `execute` could not run it |
| `ProgramsPrintFaithfully` | `ProgramsProofs` | `cat` prints its file whole, `ls` every name once and in order, `counter` the decimal numerals of 1, 2, 3 and so on |

*Kernel.*  From `SizeAssumption` (at least one terminal, a pid for each),
`ProgramAssumption` and `StatusAssumption`.  The properties are not inductive.
`halt` frees `halt_pid`, so that `BaseShellsStay` needs `HaltPidOK`: a thread
inside `halt` has a `halt_pid` of at least `NTerm`.  `EmptyTerminalHasPid` needs
that an `execute` which takes a pid at or above `NTerm` finds every terminal
occupied (`AllLaunched`), which in turn is `EmptyTerminalHasPid` with the choice
of the lowest free pid.  `ParentNamed` needs that the chain of parents never
leads to `NONE`, also from freed PCBs, since `halt` puts `parentid` into
`pid_arr` after it has freed the pid (`ParentsOK`).  `BaseInv` is their
conjunction with `TypeOK`.

*Kernel without a hazard.*  `CleanInv` is `Clean => Orderly`, and hazards are
remembered, so that a step can only be from an orderly state or to one that
promises nothing.  `Orderly` has eight parts.  `RunnerOK` says how far `halt` has
come for each value of `pc[run]`: which of `pid_arr`, the page directory, the TSS
and `halt_value` are the parent's already.  `OthersOK`: every other thread waits
or is on top of its terminal with its registers in its own PCB.  `CallerOK` is
the tree: a process that was executed has a waiting shell of its own as its
parent, of the same terminal, and `prev_ESP` and `TSS_prev_esp0` name that
parent.  `StacksOK`: whose stack a thread is on, the one place where a child is
on its parent's being before its `iret`.  `BootOK`: the terminals start in
order.  `SlotsOK`, `MasksOK` and `TopOK` tie the tables to the processes.  None
is inductive alone: that `jump` finds a frame needs the tree, the tree needs that
a child's pid was free, and that needs the runner.

*Refinement of Sessions.*  The mapping is a function of the state, so each action
of `Kernel` has one lemma: a `Tick` that starts a shell is `Boot`, `Execute` is
`Run`, the call of `halt` is `Exit`, its jump `Leave` and `Finish` `Return`; any
other tick, `SwitchTerminal` and the stores of `halt` in between are stutters.  `KernelImplementsSessions` is about the runs whose
steps all end in a clean state, the weakest form of "no hazard";
`HazardFreeImplements` is the specification that the run `kernel_sessions` uses.

*Rtc.*  `FlagInv`: while the flag is set, every reader has had an interrupt
since its reset.  Only the handler sets the flag, and it tells every reader.
For the rate, `RateInv` is `TypeOK` with: a process about to change the rate
carries the one its frequency asks for.  The loop of `rtc_write` that halves the
frequency is a recursive function (`halvings`).  Its equation is proved from the
least number at which it could fail; `RateOfFrequency` then gives the rate for
each of the ten powers of two.

*TerminalLine.*  From `SizeAssumption` (1 <= Limit < BufSize, Depth > 1, and
reads of any size at all).  The loop of `terminal_read` does not look at the size
of its buffer; that it never leaves it is proved: a line has a NUL at `Limit`
(`LineFits`) that no key moves further, so that the loop stops there at the latest
(`LoopFits`).  `RecalledLineExists` is not inductive: while
`terminal_read` moves the rows, the row recalled receives its neighbour's index,
so that *all* rows from 1 to `command_pos` must have one (`RowsOK`), but for the
first between its store and the reset of `command_pos`.  `DeliversLine` needs
`PassOK`, what a pass of the copy loop has copied as long as no key came in
between, and `EnteredOK`, which says at each later step that the line entered is
what has been copied.  `RecallsLine` needs `FiledOK`: how much of row 1 has been
filed, byte by byte, while the line stays the line entered.

*Video.*  `PageOK` says what the entry and the TLB are in each situation of the
running process (displayed; hidden and drawing; hidden and not drawing; in the
middle of `vidmap`); `PageReached` derives from it which frame each kind of store
reaches, and the screens follow.  `VidmapFirst` says that nothing goes wrong before the
first `vidmap` and the first fault, and that whoever draws has had its page marked
present (`Marked`).  `CursorOK` follows the two cursor stores of a message's
character, of which only one is coming out at a time.

*Screen.*  From `ScreenAssumption`: sizes that are not zero, characters that are
strings, output without a 0 (`terminal_write` skips it), a title and commands
that fit, no newline in a line, and a blank that is not the 0.  `SheetOf` is the
refinement mapping as a function of a page.  `InkShows` is its centre: `putc`
on the page, with its five cases at the right edge and in the last row, is one
character of ink on the sheet.  `PutsShows` carries it over a text by induction
up to its length, which `Inductive` states for a set instead of a predicate;
`ErasedShows`, `RedrawnDoes` and `ClearShows` do the like for Backspace, the two
passes of Up and Down, and clearing.  `SheetNext` restates the abstract steps as
a relation of two sheets, and one lemma for each action shows which of them it
is.  For `LineShown` a cell has one number, `y * Width + x`: `Advances` says that
a character moves the cursor on by one, and that a scroll takes `Width` from
every number, so that what stands before the cursor keeps its distance to it
(`ShownTo`).  `ScreenInv` joins the types with `LineShown`, `PointerHarmless`
and two facts: with and without the pointer the cursor is at the same place
(`PagesType`), since every key asks the page where it is; and the page and the
text are equal until the first packet (`NoPointer`).  `PointerHarmless` is then
inductive: what a packet puts back is what the text has there (`PutBack`).

*Pic.*  For any number of terminals and any bound of nesting.  `ServiceMatches`
is about the running thread; `PicInv` says of *every* thread what it has ahead:
the sequence is `Tidy` (at most one acknowledgement, none behind an `sti` or
`iret`, and the scheduler only as the first instruction, with the timer's
acknowledgement next), a thread that was switched away owes the timer's
acknowledgement and nothing else, and one that was never started has nothing
ahead.

*Files.*  `SpecSession` is any sequence of the sessions' calls.
`ImageAssumption` is the form of the image: a shell, inodes of a block's size
whose lengths their slots can hold, a directory that names existing inodes with
names of at most `NameLen` characters.  It does *not* say that block numbers are on the disk.  The loops of `read_data` and
`copy_program_image` are recursive functions chosen by their equations.  That
such functions exist is `LoopExists`, for any loop whose states have a measure
that falls; it is proved with sets alone, from a least counterexample.
`ReadDataSound` is the block arithmetic: the counters satisfy
`slot * BlockSize + place = offset` before every byte, so that what is delivered
is the next piece of `Content`; `CopySound` joins the chunks.
`FilesInv` is `TypeOK`, `LoadsProgram` and `OnDisk` (the image is one of
`Images`); a program that is loaded partly or over its caller would break it at
`Execute`, and the return to the caller's image at `Halt`.

*Streams and sessions.*  The mapping is a function of the state: `Handles`, the
open descriptors as object and position, `Replies`, the last call of each
process with what it was told, and `Contents`.  `StreamWords` restates the
abstract steps in these words, and one lemma for each system call shows which of
them it is; on damaged data `Streams` leaves open what a read returns, and so
does the lemma.  `StreamInv` says what the mapping needs: an open descriptor is
of an object in the directory, and a process that does not run has called
nothing.  `CommandParsed` and `ShellReports` are about what a process remembers
across the life of another.  `SessionInv` adds to `FilesInv` and `StreamInv`:
`ProcessState`, that whoever has a running child waits at `shell.status` or is
`any`; `LineOK` and `BufferOK`, that what a read delivered is text where the
next step cuts it; and `Reported`, that a shell waiting for a running child
*could* run its command and a shell that has its answer could not exactly if the
answer is -1.  Parsing is the loop of `execute` with its blank, its end and its
two arrays; `ParseFinds` shows of any command that it stops at `NameOf` and
`ArgsOf`.  `ScanType` does the like for the loop of `grep`: whatever it reads,
it goes on with text.

*Printers.*  `PrintsFaithfully` is about the end of a program; `PrintInv` says
how it gets there.  For each program counter of `cat`, `ls` and `counter`
(`CatIs`, `LsIs`, `CounterIs`) it tells what has been printed, where the
descriptor stands in the file or directory, and what the last call returned: at
`cat.write` the buffer holds the piece of the text behind what is printed, which
is `ReadDataSound` again.  A printer executes nothing, so that no process that
waits is one (`CallersDoNotPrint`); every other step `Continues`, `Starts` or
`Ends` a program without touching what a printer has.  `ItoaIsDecimal` is the
arithmetic of `counter`: the digits of `ece391_itoa`, reversed, have the value
that was given, for every number, although the loop and `Numeral` are recursive
functions; `DescentExists` gives their equations, and the number where the
numeral would go wrong first is less than itself.  `cat` finds its argument only
if the buffer of `getargs` is longer: `BufSize` is 1024 in the code and a line
has 128 characters.

What is assumed of the sessions, `SessionAssumption`: names and lines are
sequences of strings, a program in the image is not called by a label that the
model gives to a step of the shell or of `grep`, `cat`'s buffer is not empty, a
process can open a file besides stdin and stdout, and `counter` counts to a
natural number.  `DirectoryAssumption`: the image lists `.` as a directory,
which `ls` opens, and no empty name.

Only model-checked: all liveness (it is out of the prover's reach, like
`ENABLED`); and `LinesExact` (`grep` and `fish`) and `SysErrPasses` of
`Programs`.  `grep` and `fish` take a text apart into lines that reads have cut,
and what that recursion computes for every text would need an induction over
data, which the prover has not; the recursive functions named above are the ones
for which it was worth replacing it by the least counterexample.  `SysErrPasses`
would have to say what each of its calls must answer at each program counter.

## Disagreements

Four runs show the code doing something else than a comment says of it:

- `kernel_paging`: preempted between mapping the parent and leaving its pid,
  `halt` is resumed with the child's image mapped and returns to the parent so.
- `rtc_lost_wakeup`: a reader preempted after its interrupt misses it when
  another process begins a read before it looks at the flag.
- `line_size`: a line that fills the size of the read gets its newline one byte
  past the buffer, and `nbytes + 1` is returned.
- `video_switch`: the entry that `switch_terminal` sets is overwritten by its
  caller, `keyboard_handler`, with the one from before.

The models contain others, for which no run is kept:

- `halt_value` is shared: preempted between storing and returning it
  (`system_calls.c:131`, `:303`), a program returns another terminal's status.
  This is why the refinement of `Sessions` is of runs without `halt_preempted`.
- A command started from a terminal that is no longer displayed is filed on top
  of the displayed one (`system_calls.c:284`, `:599`): the hazard
  `undisplayed_execute`.
- The shell expects an exception to end the program with status 256
  (`../syscalls/ece391shell.c:30`), but the handlers loop (`Fault`).
- `rtc_write` is to return "-1 if the frequency is not a power of 2" (`rtc.c:89`).
  It refuses only 0 and what is above 1024 (`:96`); for any other frequency it
  returns 0 and sets the next higher power of two (`:105`).  For frequency 1, a
  power of two, the rate 16 is cut to 0, which turns the clock off (`:36`).
  The rate belongs to the clock: any open or write changes it for all readers.
- The key event after Enter, be it the release of Enter, clears `enter_flag`
  (`keyboard.c:101`); a reader that did not run in between never sees it.
  `EnterHeard` is about an Enter that lasts.
- Between `terminal.c:96` and `:98` the row just filed may be an empty one and
  still be the one recalled: Up and Down start from an empty row there.
- After an Enter that nobody has read, most keys clear the flag and leave the
  line, and Backspace brings back old characters behind the index
  (`keyboard.c:128`).  Escape is stored as a NUL and hides the rest of the line.
- A shell that is switched to while it runs goes on printing to its hidden frame
  until the next context switch, which need not come (`pit.c:34-36`); and a key
  typed while a hidden program draws is echoed into that program's frame, since
  the TLB is not flushed (`keyboard.c:114`).  Both set `derailed` in `Video` once
  the page is in use.
- The message of an exception appears on the displayed terminal, whichever terminal
  the program that faulted runs in (`idt.c:303`), and what others print there
  meanwhile lands on the same place.
- `vidmap` hands page 0xB8 over to a table in which it is not present yet
  (`system_calls.c:501`): a key, a mouse packet or a write of the displayed terminal
  that comes before line 506 faults, and so does the message of that fault.
- A read that fails on a damaged inode moves `file_pos` by -1
  (`file_system.c:254`); at the start of a file the next read reports its end.
- A damaged program is found out only after its page is mapped: `execute` returns
  -1 into the new program's image (`system_calls.c:232-237`).  `LoadsProgram` is
  about disks without damage.
- A name of 32 characters loses its arguments, a longer one is cut to 32 and may
  then be a file's (`system_calls.c:194`).
- `getargs` tests a byte behind the buffer when the arguments fill it
  (`system_calls.c:473`): it succeeds or fails by what the caller left there.
- `grep` looks at the byte behind what it has read (`../syscalls/ece391grep.c:33`):
  a newline that an earlier read has left there makes it search an unfinished
  line.  `GrepExact` is about lines no longer than the buffer.
- What is printed under the pointer is lost when it moves on, and the first
  packet leaves an `S` where the pointer starts (`mouse.c:144-147`).
- A line with an Escape is shown only up to it when it is recalled, while
  `keyboard_idx` counts all of it (`keyboard.c:224`, `:250`), and a pointer that
  passes over the 0 of an Escape leaves an `S` there (`mouse.c:144`).
- After Backspace, row 0 of the history has the line before the deletion: Down
  shows a character that is not in the line (`keyboard.c:130`).
- Up and Down on a wrapped line compute a column below zero, kept in a byte
  (`keyboard.c:218`).
- `mouse_init` polls for answers while the keyboard's interrupt may be enabled, whose
  handler can take them for scan codes (`mouse.c:25`).
- A mouse packet that overflows leaves two bytes behind, and the stream stays out
  of step (`mouse.c:62`).
- `rtc_init` enables interrupts in the middle of the boot (`rtc.c:42`), before the
  keyboard's buffers and the pages are set up.

## Not modelled

- *Paging set-up, descriptor tables, multiboot checks* are straight-line code over
  fixed data that runs once; `Init` of each module, and `entry` in `Pic`, are what
  they leave.
- *Attribute bytes* on the page, and the colours `init_colors` gives to a row.
- *`printf`, strings and memory* of `lib.c` are library routines.
- *The bytes of scan codes and mouse packets*: keys are the handler's cases, a
  packet is its buttons and movement, and any may come at any time.
- *pingpong* prints for ever and ends by no call; *`ece391emulate.c`* runs the
  programs on another system; of *`blink.S`* the pace of fish's list, and so which
  of the two characters of a place is on the screen at a time.
- *Kernel tests*: `launch_tests` calls none.
- Stack depth, and what an interrupt handler leaves in registers.

## Plan

1. Done: the modules and runs above, and the theorems.
2. Prove next: `SysErrPasses`, with what its program counters promise; then
   `LinesExact` for `grep`, whose reads `ReadDataSound` describes already.
3. Model next, if anything: a composition of `Kernel` with `Files`, in which
   `read` looks up its caller as `pid_arr` has it after a preemption.
