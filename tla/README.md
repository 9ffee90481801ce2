# A verification project for the SBUnix-style x86-64 kernel

The repository is a small 64-bit kernel for one CPU (`src/sys`), a C library
(`src/libc`), a start file (`src/crt`) and a few programs (`src/bin`: the shell
`sbush`, `ls`, `cat`, `echo`, `ps`, `kill`). It is cooperative: a process keeps
the CPU until it makes a system call that gives it up, and system calls come
through an interrupt gate, so a handler is not interrupted unless it enables
interrupts itself. The hard parts are therefore not locks but protocols that
span many calls of many processes: who is in the run queue, who reports to whom,
who still references a page, what a failing call leaves behind.

## 1. Inventory

| Component | State | Operations | Talks to | What is hard |
|---|---|---|---|---|
| Process table, run queue (`task_manager.c`, `syscall.c`) | `all_pro[100]`, `proc_descriptor`, `proc_Q[101]`, `proc_start/end`, `active`, `global_pid` | switch, exit, wait, fork, exec, kill, create | everything | one report slot per parent, polling waiters, two ways of dying, slots searched by pid, failing exec, kill |
| Shell session (`bin/sbush`, `crt1.c`) | the line, the script being read, the child it waits for | read a line, split it, run a command or a script: fork, exec, wait | process calls, terminal | a command needs two deaths in order; slots must come back; words compared by prefix; lines that are rejected |
| Physical pages, page tables, VMAs (`phy_mem_manager.c`, `paging.c`, `virt_mem.c`, `yomama.c`) | free list and its counter, `ref_count`, page tables, VMA lists, `heap_top` | page fault, copy on write, mmap, munmap, and the memory half of fork, exec, exit, kill | process calls, libc malloc/free | reference counts across families of processes, inclusive/exclusive ends, running out |
| Terminal and keyboard (`terminal.c`, `keyboardMap.c`) | `stdin`, `stdinlength`, `READMODEON`, `shiftKey`, `ctrlKey` | `read`, keyboard interrupt, echo | libc `gets`, the shell, the screen | the only code that runs with interrupts on: handler and reader share a buffer without a lock |
| Tar file system (`vfs.c`, `tarfs.c`) | inode tree, archive | boot-time walk, insertion, lookup | file calls, loader | nine entries per directory, comparison by prefix |
| Files, directories, working directory (`syscall.c`, `libc/dirent.c`, `libc/unistd.c`) | `fd[20]`, file and directory objects, `currentDir` | open, read, close, opendir, readdir, closedir, chdir, getcwd | fork, exec, exit, kill | what fork shares, `currentDir` edited in place, objects never recycled |
| Program loader (`tarfs.c`, `virt_mem.c`) | bytes of the image, `heap_top` | `scan_tarfs`, `read_elf`, `file_map` | boot, exec, memory | byte ranges, similar names, strings written into the image |
| Timer and sleep (`yomama.c`, `pit.c`, `libc/unistd.c`) | `frac_time`, `time`, `time_in_sec` | tick, `sleep` | the screen's clock | equality test on time, 0 means not started |
| Screen (`kprintf.c`, `putchar.c`) | cells, `video`, `data_written` | write, echo, backspace, scroll, clock | terminal, timer, programs | position kept twice; scrolls in the middle of a line |
| Formatting, boot tables, disk | - | - | - | layout and straight-line set-up |

What makes each correct: the *process part* must hold each runnable process in
the queue exactly once, give no pid twice, reap each exited child by its own
parent and by nobody else, and let a ready process run. *Memory* must never free
a block that is still mapped, keep its counter equal to its list, and give each
block at most one writer. The *terminal* must deliver exactly the line that was
typed while the program read, and the *screen* must show it. A *sleep* must end,
and on time. A *line* typed at the prompt must run its commands, once each, and
bring the prompt back. A *process* must have the bytes of its own binary. The *file system* must find each member with its
own bytes, and one process's descriptors must be nobody else's business.

## 2. Modules

| Module | Models |
|---|---|
| `Scheduler` | process table, run queue and the process calls |
| `ProcessLife` | abstract: a process is created once, exits once, is released once, by its parent |
| `MCScheduler` | instance for TLC and the refinement mapping to `ProcessLife` |
| `SchedulerProofs`, `ProcessLifeProofs` | theorems about `Scheduler`, and its refinement of `ProcessLife` |
| `Shell`, `MCShell` | `sbush` composed with `Scheduler`: lines, words and scripts, whose commands are fork, exec, wait on the same variables |
| `Memory`, `MCMemory` | blocks, page tables and VMAs of the private half of the address spaces |
| `LineEditor` | abstract: what a program that reads a line is promised |
| `Terminal` | the read loop, one action per statement that matters, and the keyboard interrupt |
| `Screen` | text output as functions from screens to screens |
| `Timer` | the clock interrupt and the polling loop of `sleep` |
| `Console`, `MCConsole` | `Terminal`, `Screen` and `Timer` composed: two interrupts and one process that reads, writes or sleeps |
| `Files` | inode tree, descriptors, directory streams, working directories |
| `Loader`, `MCFiles` | `Files` composed with the images of the processes |
| `ShellProofs`, `MemoryProofs`, `ConsoleProofs`, `FilesProofs` | theorems about the module they are named after; those about `Terminal` are in `ConsoleProofs` |
| `ArchiveProofs` | theorems about what `Files` and `Loader` make of the archive: entries, working directories, images |
| `Induction` | induction and recursion in the form the other proofs use them |

Operators whose comment begins with "Mutant" are plausible bugs of the operator
they stand before. They are used by no specification; they show that a property
notices the bug.

### Scheduler

Each field of a PCB is a function from slots; a process is named by its slot as
in `proc_Q`. `cpu` says whether user code runs, the loop of `syscall_switch`
runs, or the machine has stopped (hung in a `while(1)`, crashed, or with memory
past the process table overwritten). A handler is one action; the handlers that
end in `syscall_switch` leave `cpu = "switch"`, and each turn of that loop
is one action of `SwitchStep`: skip a stale entry, run, go on waiting, reap and
return from wait, go on waiting to die, or die (`kill_proc`). `kstack` records
whether a slot's kernel stack still holds the context that will be resumed:
`create_kstack` zeroes twice the stack size and so the stack of the next slot.
Reads past the end of the table or of unset entries are explicit stops.

The specifications differ in what programs may call: `CoreSpec` (every exec
finds its binary, no kill), `NoKillSpec` (exec may fail), `Spec` (everything);
`FairCoreSpec` and `FairNoKillSpec` add fairness.
Inputs that no program of the image makes are left out: a process that kills its
own pid, and exit or exec of the first shell, which runs for ever.

### Shell

`Shell` extends `Scheduler` with the line, the rest of the running script, where
the shell is and what each slot runs, and restricts the calls to those the shell,
its child and the binary make. A line is a sequence of blanks and pieces of
words; a piece stands for characters that the shell compares as a whole, so that
`lsx` (pieces `ls`, `x`) is taken for `ls` as `strncmp(cmd, "ls", 2)` takes it.
`ls`, `cat`, `echo` and `ps` share one protocol, `Command`; `cat` and `echo`
without an argument dereference a null pointer, the first in the child (GetAbsolutePath,
before its exec), the second in its binary. A script's lines wait in `script` while
the commands of the lines before them run; comment lines are skipped and the last
character of a line, the carriage return of the repository's script, is cut off.
`cd` changes no process and its effect is in `Files`. `started`, the pid counter
when the line was typed, is a history variable.

### Memory

Addresses, pages and blocks are small integers. `pte` has one entry per page of
each address space, with its block and whether it is writable; `walk` tells for
which regions page tables exist, since tables take blocks too and are never
given back. The kernel half, shared by all, with stacks and PML4 pages per slot,
is left out. The order of the free list is abstracted to "lowest block first".
Three leaks of the code are in the model: `cow` does not free a block whose
count reaches 0, `exit` maps page 0 by reading `active->waitstate` with `active`
NULL, and page tables are never freed; so is the over-counting of pages that lie
in two VMAs. Page contents are not modelled.

Four simplifications. `Exec` counts one VMA and one reference for the strings; the
code makes one for each argument and one for the file name (`syscall.c:745-750`), which
only adds counts of the same kind. `count_args` of a NULL argument list
reads address 0 and so maps page 0 of the caller (`syscall.c:580`), which is left out.
`cow` is taken by user-mode writes; a write of the kernel to a shared read-only page of
the caller is not modelled (`yomama.c:95-107`). And `fork` leaves the parent's entries
writable (`task_manager.c:336`), as in the code: `OneWriter` says that no block has two
writable entries, not that the parent's writes are hidden from a child that has not
copied the page yet.

### Terminal

`read` is split where an interrupt can matter: `sti`, `READMODEON = 1`, the end
of the spin loop, each turn of the copy loop, the clearing of the buffer, and
`stdinlength = 0`. The interrupt handler may run between any two of them.
Decoding is a table (`ScanCodeMap`) of the keys that are not ordinary characters,
with what shift, which subtracts 32, makes of each: Enter and Tab become negative,
the space becomes 0, `*` becomes Enter, and a released key, otherwise ignored, a
character. Keys the source does not map have the code 0. A store of the copy loop
is eight bytes wide (`WORD`), and `stdin[i]` is a signed char: the bytes behind it
are its sign, 0 or ones (`Extension`).

### Screen, Timer and Console

A screen is a record of cells, `video` as a cell number, `data_written`, and the
value the clock shows. The operations are those of `kprintf.c`; colours are left
out, which makes `flush` and `flushcolor` one. `Timer` keeps the three counters
and the local variables of the one `sleep` call there can be: `sleep` polls and
never yields. `Seen` states that a poll happens in every second, which a loop of
system calls with nobody else on the CPU does thousands of times over.
`Console` joins them: `Keyboard` is the handler of Terminal with its echo, `Tick`
draws the clock, and the process computes and writes through `putchar`, the only
caller of `write` in libc, reads, or sleeps. `putchar` passes the address of an
`int`, and the kernel shows all up to a 0 whatever the count (`StringAt`): one cell
for a char below 0x80, none for 0, and for a negative one the char, the other bytes of
the `int` (`INT` of them in all) and whatever the stack holds behind it (`Residue`,
any sequence with or without a newline). `literal`, `wide` and `slept` are history
variables: a backspace typed with ctrl was echoed as a glyph, the last thing shown
was a negative character of a program, and the ticks since `sleep` was called.

### Files

Names are sequences of letters because lookups compare prefixes and `chdir` joins
strings; a path is the sequence of its names. The archive is a constant laid out
as `tar` does it, with sizes in octal digits, and boot walks it header by header.
`ASSUME ArchiveAssumption` is what the Makefile's `find` and `tar` guarantee:
directories come before what is in them, no path twice, and sizes of at most nine
octal digits (`oct_to_dec` reads them as a decimal `int`, and a tenth digit would
overflow it). `ASSUME FindAssumption` says that `find` goes through a directory
before it goes on. The type of the root inode is never assigned; it is a directory
because the memory taken at boot holds zeros (`Init`). `kill` clears the caller's
descriptors and directory whether the victim is alive or gone. Any live process may
make the next call. Absolute paths come with or without a last slash, relative ones are
single names; programs read only descriptors they opened. `kmalloc`'s own limit
can never be hit, so `MaxObjects` bounds the objects made.

### Loader

`Loader` adds `image`: for each process its name, its bytes and `heap_top`. A byte
is named by where it comes from, an address of the archive, a zero, or a string.
`scan_tarfs` walks the archive as boot does and compares whole names; `read_elf`
loads all program headers but the last; `file_map` copies and zeroes. After that
`exec` writes its name and arguments at the addresses they had in the caller
(`Strings`). `ASSUME LoaderAssumption` is what the linker does: segments in
ascending order and apart from each other. `ASSUME ShellAssumption` says that the
shell is in the archive and restricts the model to sessions in which no second
shell is started: the bytes that `exec`'s strings replace are told from others by
the name of the image. The code leaves two kinds of bytes
wrong, the first one after the file part of a segment (`virt_mem.c:64` tests
`i>fsize`) and those under the strings; both are in the model, and `ImageOfBinary`
excepts them by name.

## 3. Runs

Runs that pass:

| Run | Instance | Shows |
|---|---|---|
| `sched_kill` | 3 slots, 4 pids, statuses 0 and 1, all calls | types, unique pids, the shell stays alive, no dead process runs again |
| `sched_nokill` | 3 slots, 5 pids, exec may fail, fair | run queue sound, no runnable process lost, ring never full when stored into, unread reports name exited children, `ProcessLife` implemented, a ready process gets the CPU |
| `shell_session` | 3 slots, 31 pids: 15 commands; 17 lines and the repository's test script | each line runs its commands once, both slots of each come back, nobody waits for a child that cannot report, the prompt returns, and only the lines of `Fatal` stop the machine |
| `memory` | 3 address spaces, 9 blocks, 4 pages of 2 addresses | no mapped block is free, counter equals list, one writer; up to running out of memory |
| `console` | a limit of 3 characters, 8 kinds of keys, two text rows of 2 cells, ints of 2 bytes with nothing or a newline behind them, 3 seconds of 2 ticks | buffer bounds, termination unless the last character is negative, `LineEditor` implemented, finished lines arrive; cursor, clock row and echo; sleep ends, in time |
| `files` | 11 members, 3 children per directory, 2 descriptors, 3 processes, 3 binaries | members found with their own bytes, working directories exist, offsets stay in the file, open files isolated, images of the right binary |

Runs that violate what the repository says of itself:

| Run | The code |
|---|---|
| `kill_queue` | `kill` takes the victim's slot for an index of the run queue and drops other entries (`syscall.c:1317` against the comment at 1313) |
| `exec_not_found` | a failing exec keeps its new slot as a child that never runs; the next wait can block on it (`syscall.c:704` against 628) |
| `kernel_stacks` | creating a process zeroes the kernel stack of the next slot (`task_manager.c:531` against `syscall.c:605`) |
| `wait_twice` | two exits before the parent looks leave one report; the second `waitpid` of the repository's own test never returns (`syscall.c:359` against `sbush.c:361`) |
| `blank_line` | a line of blanks is rejected, and `free` of the NULL that stands for it stops the machine (`sbush_test.c:27` against `Assignment_One.c:20` and `sbush_test.c:24`) |
| `munmap_boundary` | `free` leaves the last page mapped when the VMA ends on the first byte of a page (`paging.c:453` against `virt_mem.c:184`) |

Two more disagreements are in the model and are excepted by name in properties that
pass. The bytes behind a negative character that a program writes, as in `cat` of a
binary, get into the last row (`putchar.c:6` and `terminal.c:44-48`), which the comment
at `kprintf.c:77` keeps "for clock and keypress": `ClockRowFree` and `CursorSound` say
that nothing else does and that the cursor comes back. And the first byte of `.bss` is
whatever follows the segment in the file (`virt_mem.c:64`), although the comment above
it says that "this section needs to be set to 0": `ImageOfBinary` leaves it out.

**Bounds.** Three slots hold the shell, a child and its binary or two children, the
smallest table in which slots are reused while others live; four are needed for the
findings with a process above a freed slot. Pids only grow, and five suffice for every
slot to be used again. Fifteen commands wrap the ring of the session many times. Nine
blocks let a family of three fork, copy and run out. A limit of three characters with
a buffer of five has the same margin (two bytes) as 1022 and 1024. The keys leave out
the space and the keys without a code, whose 0 is stored and shown like any letter;
the proofs have all keys. Two text rows of two cells scroll in the middle of a typed
line, of a written one, and under the message at the limit; a backspace after a scroll
erases in the upper row. An `int` of two bytes already writes past the end of the text
when its character is in the last cell. Two ticks make a second, so that a sleep may
start between two seconds, and three seconds hold one of two seconds that starts in
the first or in the second. A session's lines are typed only while the pids last
(`Affordable`). The archive of `files` has a directory that overflows, a name hidden
by a longer one, two names that join into a third, and sizes of whole and of broken
blocks; two objects are a file and its copy after fork.

**Fairness.** There is one CPU that always executes: weak fairness of the switch
loop, which runs with interrupts off, and of user code (`Fairness`). The second
is an assumption on programs, not on the kernel: the scheduler is cooperative,
and a program that spins without a process call keeps the CPU for ever. The
programs of the image end or wait. Which call a program makes is left open, so
`ReadyRuns` does not depend on any program exiting. In `ShellFairness` the four
binaries reach the end of `main` however often they yield before, hence strong
fairness of `BinaryExits`; nothing is assumed of the person at the prompt. A script goes on with
its next line (`ScriptLine`). In `Console` the process that has the CPU goes on
(`Reading`, `Sleeping`) and the interval timer ticks (`Tick`); keys may or may not
arrive, and a program need not write.

## 4. Proofs

Everything below is proved for every value of the constants under the assumptions
named; nothing is assumed besides them. Each property was checked by TLC on the
instance of section 3 before it was proved.

### Processes

Assumptions: `PROC_SIZE > 1`, `MaxPid > 0`, statuses are numbers. For `Spec`, kill
and failing exec included (`SchedulerProofs`):

* `TypeCorrect`: `[]TypeOK`. Not inductive alone: user code indexes the table with
  `active`, so `TInv` adds `CpuOwner` (in user mode `active` is a slot, in the
  switch loop it is NULL).
* `PidsAreUnique`: `[]PidsUnique`, from `TInv` and the fact that a new pid is above
  all others.
* `ShellStaysAlive`: `[]ShellAlive`. Slots are freed by `wait`, by `kill_proc` and by
  `kill`, the first two with the pid in a report. The invariant `ShellInv` says that
  a report a running process has not consumed names a younger pid
  (`ReportsAreYounger`), that a slot in use knows its number, and that the shell
  never waits to die: what is freed is younger than who frees it, and the shell is
  the oldest.
* `TheDeadStayDead`: `NoResurrection`, an action property.

For `NoKillSpec`: `RunQueueIsSound`, `RingIsNeverFull`,
`ReportsNameZombieChildren` and the action property `NoProcessIsLost`. They lean on
one another and are proved from one inductive invariant
`QInv = TInv /\ PidsUnique /\ SlotsSound /\ RunQueueSound /\ ReportsAreReapable`.
Reaping frees a slot found by the pid in a report: that it does not free the slot
of a queued process needs `ReportsAreReapable` and `PidsUnique`; that a report
stays reapable needs `SlotsSound` (a slot in use knows its own number and holds
a process). The ring has one place more than there are slots; as the occupied
places hold different slots and never the active one, a pigeonhole argument
(`FS_PigeonHole`) shows a free place whenever the kernel stores. Kill breaks
these invariants, which is the finding of `kill_queue`.

`ProcessLifeProofs` proves the refinement, `ProcessCallsImplementLife`: `NoKillSpec`
implements `ProcessLife` under the mapping of `MCScheduler`, which looks up each pid
in the table. One lemma per kind of step (create, exit, reap, die in `kill_proc`)
shows that the entry of one process changes as `ProcessLife` allows and, by `QInv`,
that all others are kept; the other steps stutter.

### Shell session

Assumptions: the table has three slots or more (the code has 100), 0 is among the
statuses (crt1 ends every program with `exit(0)`), and lines and scripts are sequences
of pieces. For `ShellSpec` (`ShellProofs`), whatever is typed and whatever scripts
there are:

* `SessionsNeverStop`: `[]SessionNeverStops`. Only a fatal line stops the machine;
  `Fatal` names the lines: blanks only, `cat` or `echo` alone, and a path where some
  script has `cat` or `echo` alone on a line.
* `CommandsAreReclaimed`: `[]CommandsReclaimed`.
* `WaitsCanEnd`: `[]WaitedChildCanReport`. With the calls in any order this is false
  (`exec_not_found`); it holds of the calls the shell makes.

None of the three is inductive. The invariant `PInv` adds to `QInv` where the session
is in the protocol of a command (`Phase`): idle; forked, the child having the CPU;
busy, the child waiting to die with its binary; the binary exited and not yet seen by
the switch loop; the child dead and the shell not yet resumed. In each phase it says
which of the slots 0, 1 and 2 are in use, that no other one is, what their wait states
and parents are, that every live process is scheduled (`AllScheduled`), which program
each slot runs and that one that will read at NULL was started by a fatal line
(`Programs`), and that what is left of a script comes from a path that was typed
(`Started`). The cases of the switch loop that halt (empty queue, zeroed stack,
report without a child, full table) are then shown to be impossible one by one.

### Terminal, clock and screen

Assumptions: `LIMIT > 1`, the buffer has two bytes more than the limit, and a store
is wider than a byte (the code has 1022, 1024 and 8); a screen has at least one row
and column in each half; the tick divides the second (50 and 1000 milliseconds,
and the handler tests for equality); the message at the limit is made of characters
that can be written; an `int` has at least one byte, and what is behind it on the stack
is any string of bytes and newlines.

Of the terminal alone, `ConsoleProofs` proves bounds (`TerminalTypeCorrect`), termination
(`CopiesAreTerminated`) and `TerminalIsLineEditor`, the refinement of `LineEditor`.
The invariant `TerminalInv` ties the reader's place in `k_read` to the buffer: the
length passes the limit by at most one and is 0 before the handler may store
(`Progress`), the line in the buffer is made of letters (`Typed`), and the bytes copied
so far are those of the line, with the sign of the last one behind them that the
eight-byte store leaves (`CopyIsPrefix`), although the handler may run between any two
steps. That sign is the terminator of a line that the limit ended, unless its last
character is negative; `LineTerminated` excepts that case, in which the code's line has
no end.

It proves the same of the composition (`ConsoleTypeCorrect`,
`ConsoleLineTerminated`, `ConsoleIsLineEditor`), because each step of the console is
a step of the terminal or leaves it alone, and adds `CursorIsSound`,
`ClockRowIsFree`, `EchoIsTheLine` and `SleepLastsItsSeconds`. The set `Screens` is
the invariant of the output functions: `video` and `data_written` agree, and the clock
row holds nothing but stray bytes; `Fit` are those with the cursor in the text or at
its end. Every function but `flush` of a negative character leads from `Screens` or
`Fit` to `Fit`: `checkForScroll` brings any cursor back (`ScrollKeeps`), and the first
character of a string goes into the text, so that only what is behind it can be in the
clock's row (`PutKeeps`, `FlushKeeps`). A backspace does not look at the scroll; that it
never meets a cursor outside the text needs that `wide` is false while a line is typed
(`ScreenInv`). `kprintf` is recursive over
its string; the lemmas show that each character keeps `Fit`, and induction on the
length does the rest. The echo is stated relative to the cursor (the i-th cell before
it holds the i-th last character), so that a scroll changes nothing.
`SleepLength` follows from `ClockSound` (`time` is whole seconds and `frac_time` whole
ticks) and `SleepSound` (which second the loop counts from).

### Memory

`SpacesAssumption` types the constants; `BootAssumption` says that the boot image
fits in the blocks there are, since otherwise there is no initial state.
`MemoryProofs` proves `MemoryTypeCorrect`, `NoBlockIsUsedAfterFree`,
`FreeListIsNeverEmpty` and `BlocksHaveOneWriter`, for any number of spaces and any
VMAs, overlapping ones included. The core of the invariant is `FramesOK`: the list
is not empty and the counter is its length less one; a block has at most as many
users as its count says; a listed block has count 0; no block has two
writable entries. It is stated over values, not variables, because the calls take and drop
blocks many at a time and the lemmas follow them from one intermediate table to the
next. The count is an upper bound of the users and not equal to them: `fork` counts a
page once for each VMA it lies in, and the leaks listed in section 2 leave counts
behind. That is why the theorems are about safety and none says that memory comes
back.

### Files

`ArchiveAssumption` (section 2) and `CallsAssumption`, which types paths and counts.
`FilesProofs` proves `FilesTypeCorrect`, `OffsetsStayInFile`, the action property
`OpenFilesAreIsolated`, and `LoaderKeepsFiles`: the system with the loader, which the
run checks, implements the file calls, so the three hold of it too. The argument:

* `SizeIsRead`: `oct_to_dec`, which reads octal digits as a decimal number and weights
  its digits with `power`, gives back the size that tar wrote. `HeaderStep`: hence the
  walk goes from header to header (`HeaderPlaces`) and what it inserts lies in the
  archive.
* `InsertIntoRootKeeps`: for a path of any length the tree stays a tree (`Trees`):
  children were made after their parent, no family outgrows its array. `GetInodeKnown`:
  a lookup ends in the tree.
* `RankNumbers` and `CopiesMade`: fork numbers the open descriptors without gaps or
  repetition, and each copy equals its original.
* `FilesInv` adds that every file object is a file with an offset in its bytes, and
  `Private`: no object is reached through two descriptors, those of dead processes
  included, since a slot's table is used again.

`ArchiveProofs` proves what becomes of the archive. It adds `FindAssumption`
(section 2) and, for the loader, `LoaderAssumption` and `ShellAssumption`.

`EntriesAreFound`: `[]EntriesFound`. The invariant `TreeInv(tree, c)` holds after the
first c members have been read. `InsertIntoRoot` and the lookup are both a walk from
the root; `Way` is the sequence of inodes a path goes by, staying where it is at a name
that is not found. `TreeInv` says that the way of every member read so far is settled
(each name is found, or there is no room for it, so that later members do not change
it), that every inode was made for a member and no member listed before that one comes
by it (`Owned`), that the child of an inode was made for a member whose directories
lead there and not before (`ChildrenArrived`), that brothers have different names, and
that visible members end at their own inode (`VisibleFound`). The hard part is that a
full directory sends the paths below it astray: names are then inserted at the wrong
place and take room there. `SameDirectory` shows that this never happens where a
visible member goes: such a stray path would have to come by the inode of its
directory, and by `find`'s order it is then in that directory. Hence the children there
are siblings of the member (`ChildOfParent`), there are fewer of them than there are
places (`VisibleHasRoom`, with `FS_Injection`), and the member gets its inode.

`CwdStaysDirectory`: `NoFileHides => (Spec => []CwdIsDirectory)`. The condition is
needed. A file `ab` before a directory `a` is taken for it, the members of `a` become
children of the file, and `cd /a/c`, `cd ..` lands on a file. `NoFileHides` says that no
directory's name begins the name of a file listed before it; it is true of the
repository's rootfs and of the archive of the run, where TLC evaluates it. Under it
files have no children (`Leaves`): the way of a directory goes through directories only
(`DirectoryWay`). So the parent of a directory is a directory, which is what `cd ..`
relies on.

`ImagesAreBinaries`: `LoaderSpec => []ImageOfBinary`. `ScanFinds`: the walk of
`scan_tarfs` ends at the member with exactly the name asked for. `LoadKeeps` and
`ElfLoop`: a segment stays in memory while those after it are loaded, because they lie
above it, and `heap_top` is after all of them. `ImageInv` says of every process, dead
ones too, that its image is one that loading some binary leaves, with or without the
strings of `exec`.

### Recursion

The library's induction theorems take a predicate as a parameter, which the provers
cannot instantiate. `Induction` states induction with the property as a set
(`NatSetInduction`, from the least element of a set of numbers) and the existence of
recursive functions on an interval (`RecursionOnInterval`, `StaysIn`); the proofs show
with them what a recursive definition computes.

### Only model-checked

* Liveness (`ReadyRuns`, `PromptReturns`, `ReadReturns`, `WaitReturns`, `SleepEnds`):
  fairness and ENABLED are beyond the prover.
* `LineRunsItsCommands`: it compares with a table of expected counts for the lines of
  the instance.

## 5. Not modelled

The digits that `kprintf` and `printf` make of numbers, and colours; boot set-up
of descriptor tables and interrupt controller (their effect is `Init`); the disk
driver, which nothing calls; `sbush.c`, the test driver of the repository, whose
calls are among those the scheduler model allows; the shell's hosted leftovers
(`pipe` and `dup2` have no system call); the shell's `kill` command, which in a
session without background jobs names no live process but the shell (a line that
begins with it does nothing in the model, `Assignment_One.c:423`); what a page
contains, apart from the image of a binary; names without a slash in `exec`,
which no program passes and for which the search over the paths has no end; the
end of `int time` after 24 days. An empty line in a script stores a byte before
an array on the stack (`ExecuteShell.c:241`); the byte is taken to be unused.

## 6. Plan

1. Done: all modules with their findings; the proofs of section 4, which cover every
   invariant and every safety property of the runs but `LineRunsItsCommands`.
2. Left: the liveness properties, with a prover that has fairness, and
   `LineRunsItsCommands`, which stays with the lines of the instance: a script may name
   itself, and such a line has no number of commands to compare with.
