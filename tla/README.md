# A TLA+ development of the SBUnix kernel

SBUnix is a small cooperative multitasking kernel for x86-64 with a shell
(`oxTerm`) and a handful of commands.  These modules model the parts of it in
which state changes in an order that nobody can see from one function: the task
list and its scheduler, the programs that drive them, the line buffer shared
with the keyboard interrupt, the page allocator, the page tables and address
spaces, the file system, the text screen, the command line on its way from the
shell to the kernel, and the disk driver with the controller it shares registers
and memory with.  TLC checks small instances; TLAPS proves the most important
invariants, and that the scheduler implements its abstract specification, for
every instance.

## The system

| part | source | module |
| --- | --- | --- |
| task list, scheduler, fork, exit, kill, wait, sleep, idle loop | `sys/process.c`, `sys/main.c` | `Process`, which implements `Scheduler` |
| process system calls, page fault, exceptions | `sys/idt.c`, `sys/gidt.c` | `Process` |
| timer | `sys/idt.c` (`irq_timer_handler`) | `Process` |
| shell and commands | `bin/` | `Session`, over `Process`; `CommandLine` |
| keyboard interrupt, `gets`, `read` | `sys/idt.c` | `Terminal` |
| physical pages | `sys/mem.c` | `PageAlloc` |
| task creation by the ELF loader | `sys/elf64.c` | `Process` (`NewTask`, `SysExec`) |
| page tables | `sys/paging.c` | `Paging` |
| address spaces of programs | `sys/elf64.c`, `sys/mem.c`, `sys/process.c` | `AddressSpace`, over `Paging` |
| file system, `cat` | `sys/tarfs.c`, `sys/idt.c` | `TarFS` |
| text screen, echo | `sys/kprintf.c`, `sys/idt.c` | `Screen` |
| strings and numbers | `sys/strings.c`, `sys/utils.c`, `libc/string.c` | `CommandLine`, and where they are used |
| AHCI driver (its call is commented out) | `sys/pci.c` | `Ahci` |
| unused paging code, descriptor tables, port access, boot loader | `sys/ptmgr.c`, `sys/ptops.c`, `sys/gdt.c`, `sys/portio.c`, `rootfs/` | not modelled |

How they interact: a program enters the kernel through `int 0x80`; the handler
changes the task list and calls `schedule`, which picks the next runnable task
and switches stacks.  All gates are interrupt gates, so a system call runs to
its context switch undisturbed, with two exceptions: `gets` and `read` execute
`sti` and poll, and the idle task calls `schedule` in a loop with interrupts on.
There the timer (which wakes sleepers) and the keyboard (which fills the line
buffer) interleave with the kernel, and there the models are fine-grained.

## Process

A list node and the `task_struct` it carries are one number in `Nodes`, handed
out in order of allocation (neither is ever freed).  `next`, `queue_head`,
`running_task` and `previous` are the pointers of `process.c`; `listed` is the
set of nodes a walk from `queue_head` meets, kept beside them so that properties
can speak about it.  `rsp[n]` says whose context the saved stack pointer of `n`
leads to, `NULL` when it is outdated; `cpu` is the context that is loaded.

`SysFork`, `SysYield`, `SysExec`, `SysExit`, `SysWait`, `SysWaitpid`, `SysSleep`,
`SysKill` and `PageFault` are one action each, with the call of `schedule`
inside: `ScheduleFrom` is the scan, `Released` the clearing of `is_waiting` on
the way, `SwitchTo` the exchange of contexts.  `schedule(1)` after the running
task has been deleted is `ScheduleNext`.  The idle loop's `schedule(0)` is
`IdleTest`, `IdleBody` and `IdlePick`; `Tick` may come between any two of them.
The programs are arbitrary: any call with any argument at any time, with one
exception (`MayKill`): a task whose parent is the kernel does not kill pid 0.
The code would then unlink the head of the list; `Session` checks that no shipped
program does this (`KillIsAllowed`).  Not modelled: the general protection fault
handler, which stops the machine.

`EveryTaskRuns` says that every listed task runs again, is removed, or is found
waiting for a process that sleeps, if only finitely many tasks are created.  It
claims no more for a task that waits: the process may sleep again and again.  The
premise is needed: `schedule(1)` starts behind `previous`, so a task that goes on
calling `exec`, or forks children that exit, keeps the others from running.  And
it says *that* a sleep ends, not when: a sleep of 0 seconds is decremented to
2^64 - 1 by the first tick (`sys/process.c:43`).

Data left out: names (only the kernel's is ever compared, and no other task can
have it), stack contents, page tables, exit codes and return values.  `task_count`, which
`kill` does not decrement, is followed but nothing is claimed of it: the test
that would read it (`sys/main.c:35`) is commented out.

## Scheduler

What the task manager promises its programs, with none of the list, the cursors,
the counters and the saved contexts: a set of tasks, one of which has the CPU.
Whoever has it is alive and ready; a sleeper becomes ready only through the timer,
a waiter only when the process it waits for is gone or awake; a task blocks only
itself; no task is used twice; the root task neither ends nor blocks.
`ImplementsScheduler` in `Process` is `Scheduler!Spec` under the mapping that
takes the listed tasks for the live ones and those with
`is_sleeping` set for the sleepers.
"Gone or awake" is the code's `is_child_done`, not what one would expect of
`wait`; the scan clears `is_waiting` on its way, so any number of waits may end
in one step.

## Session

`Process` under the shipped programs.  `upc` is the next system call of each
task, `cmd` the command line.  The shell reads a line (`Gets`), forks, yields
and waits; the child execs the command, which makes one call and exits.
Commands without a scheduling call are all `other`; a name without a file is
`missing`; `oxterm` starts a shell from the shell.

`ForegroundFirstAlone` is about sessions without nested shells: `wait()` picks
the first child in the list, and when that is a nested shell, which is awake and
so counts as done, the prompt is back while the foreground sleep sleeps
(`sys/process.c:479`; `README.md:47` promises otherwise).

## Terminal

The k-th key press stores the number k, so that each character can be followed
from the keyboard to the program.  The system call is one step per access to
shared state: poll, `str_len`, each byte of `memcpy`, each byte of `memset`,
`buf_idx = 0`, `new_line = 0`.  Leaving the loop of `read` is one step although
it reads two variables: `new_line` is lowered only by the reader, so reading it
earlier delays the exit by a round at most.  The value `read` returns is left
out.  `patient`, chosen once, says whether the user types only while a program
waits with room for a full line; some properties are about such users only.
`str_len` as a whole is one step, which is a simplification: it reads byte by byte
with interrupts on, and a key that comes meanwhile is taken to come before or after.
Assumption (`MayType`): the user does not type more than `char_buf` holds, which
the handler does not check.

## CommandLine

A line is cut three times: by the shell into command and argument, by `exec`,
which drops an argument equal to the command's name, and by the handlers of
`sleep`, `kill` and `cat`, whose pieces keep the blank in front of them.  The
buffers of the shell live from one line to the next, and `gets` copies no
terminating 0, so the model runs lines through the same buffers.  The name of a
program is one character; other strings are sequences of characters.
`RunsAsTyped` compares what runs with what was typed; `HandledAsTyped` compares
the seconds and the pid with `itoap`, the way `ps` prints numbers, `ShownAsTyped`
the file name of `cat` and the text of `echo`.  `RunsAsTyped` and `ShownAsTyped` except an argument
that is the program's own name: `echo echo` shows the usage (`sys/idt.c:312`), although
`README.md:41` says that `echo` "displays the text passed as argument".  `Weight` is
what `atoi` makes of a character that is no digit: `sleep 5&` sleeps 40 seconds,
and nothing is claimed of such a line, nor of `kill 3`, which reads an array
element that nobody wrote (`Leftovers`).  Two blanks before the number make it
the empty piece, hence `sleep 0`.  Assumptions: a line fits the 50 bytes of the
shell, past which `gets` would write before the shell can refuse the line, and the
pieces fit the arrays of the handlers (`CommandLineAssumption`); pids have at most
two digits, as `out[3]` of the kill handler has room for no more.  For a line
without an argument the shell writes a 0 to `arg[-1]` (`bin/oxterm/oxterm.c:31`),
taken to be the last byte of another of its buffers, which is 0 already, or unused.

## PageAlloc

`used` and `block_size` are the fields of the page records.  The records lie in
the memory they describe, and `kmalloc` clears what it hands out: records in a
block become `wiped` (a record wiped in part counts as wiped).  A search that
runs out of the list, which the test for `NULL` does not stop, is `wild`, and
nothing is claimed of what follows.  `calculate_free_list` marks `TablePages`
pages for the records, rounded down; `KeptRecords` is the number of records that
lie in them.  The others, less than a page of them, lie in the page behind, which
the first block gets and wipes.  `KeptRecordsSpared` says that this is all that is
lost, and `WildOnlyWhenFull` that it does not matter until the pages of the kept
records are used up.  `kmalloc_init` and `kmalloc_stack` search as `kmalloc` does.
`physfree` is taken to be a page boundary.
`ref_count` and `free` are left out: nothing calls `free` or reads the count.

## Paging and AddressSpace

`Paging` is `init_map_virt_phys_addr` as an operator on a memory image: the
entries of every frame, as numbers with their flags, and the next frame
`kmalloc` hands out (in order, as `PageAlloc` shows for a kernel that frees
nothing).  A write behind the end of a table goes to the frame that follows.
That happens at every boot: line 214 of `paging.c` subtracts `pte_off` tables
where it means the number already filled, so the last table of a long mapping is
written as many entries as all tables before it together.  The frames hit are
free, and `kmalloc` clears them before use; `KernelMapped` shows that nothing
comes of it (the kernel sees memory from `physbase` on, and the screen, in every
address space, and all of memory in its own).

`AddressSpace` has one action each for `init_paging`, `load_sbush`, `exec`, an
`exec` of a missing file, `sys_fork` and `page_fault_handler`, with every page
they allocate on the way.  `tasks` holds what a `task_struct` says of its address
space; `family` and `given` are histories.  The contents of pages that are not
tables are left out, and so is what `fork` does to the parent's data: it maps new
pages at the parent's addresses too, since the lower tables are shared.
`SegmentsPresent` says that there are pages, not what they hold.

Assumptions (`AddressSpaceAssumption`): less than 1 GB of memory, so that one
page directory suffices, a kernel that starts at the beginning of a page table,
as it does at 2 MB, and the last top level entry for the kernel alone.  Programs
(`ProgramsAssumption`) are linked below the stacks and not at the kernel's
addresses, as they are where the linker puts them by default, and have one or two
segments.  `vma_malloc` adds 64 to a pointer to a structure of 64 bytes
(`mem.c:167`), so every vma but the first lies in the page behind the one before,
which was not allocated for it: the second overwrites the beginning of the first
page of the data, after `exec`, or of the code, after `fork`; a third could
overwrite a page table.  The model takes the vmas as stable, that is, no program
stores to these 64 bytes.  A task for which
memory does not suffice is not created: what `kmalloc` does then is in
`PageAlloc`.

## TarFS

`init_tarfs` walks over an archive, one step per header; the tar format itself
(`Layout`, `OctalField`) is given, and `Atoi`, `OctTodec` and `Stride` are the
code's.  `bytesdone` is the one position that all reads share.  Files are
abstracted to a size and the set of positions that hold a 0 byte, since
`read_file` moves the position by the length of a string; `reached`, `skipped`,
`repeated`, `strayed`, `whole` and `text` record what the caller has got.
Archives mix texts and programs, which have 0 bytes but do not begin with one
(`TarFSAssumption`; the archive of the build holds ELF files).  At a 0 byte the
position stops moving, so `cat` of a program need not return; `CatReturns` is
about texts.  Programs open,
read in any of `ReadSizes` and close, or call `cat`, which loops in the kernel.
One file is open at a time (`MayOpen`), as no shipped program but `cat` reads
one.  Reads of 0 bytes, which would move the position before the file, are left
out.  For an empty file `cat` prints a buffer nobody has written (`CatEmpty`).

## Screen

`print_seq` and `scroll_up` are operators on the screen, `X` and `Y`.  Whatever
the kernel prints with interrupts off, and the echo in the keyboard handler, is
one step.  The prompt is printed after the `sti` of `gets`: reading `X`, reading
`Y`, each character, each row of a scroll and each write of `X` and `Y` is a step,
and keys and ticks come between any two.  (A scroll moves bytes; no property
tells a row half moved from one moved or not.)  `paper` is a history: all that has
been printed since the last `clear`, as lines of any length, from which
`ShowsTail` says what the screen must look like.  It is given up when a key is
echoed amid the prompt, which then is printed over, when a Backspace reaches back
beyond its line, because output came between typing and deleting, and after a
carriage return, which no shipped program prints.

`print_seq` does not check its position.  When Backspace has taken `X` back before
the first cell (keys without a character are stored in the line buffer and not
shown, and `clear` leaves the line buffer as it is), the next character is written
below the video page, which is not mapped: `scr.fault`.  The page fault handler
then starts a shell and removes the task, as in `Process`, and in `Screen` only the
clock goes on.  `NoFaultAtPrompt` says that this never happens to a user who types
characters at the prompt.

The string that `%c` makes of a key is not terminated: `Residues` is what may
follow it on the stack, taken to hold no control characters.  The colours are left
out: `clear_screen` and `scroll_up` set the attribute bytes to 0 and `print_seq`
does not set them.  So are the hardware cursor and the conversions of `kprintf`.

## Ahci

The driver scans the buses, resets the controller, probes its ports, sets up
port 0 and then writes a sector and reads it back.  Each access to `cmd`, `ci`,
`is`, `tfd` and `ssts` is a step of its own, and the controller's steps come
between any two: it starts and stops its engines, brings the link up, begins and
ends commands, moves data by DMA and fails.  Controller and disk are external,
modelled from what the driver waits for.  `header` is what the lists and tables
in memory order; `clean` says that the flags of a header were cleared, which
`memset(…, sizeof(port->clb))` does for slot 0 only.

What the model shows beside its properties: `is_rwc = 0xffff` does not clear bit
30, so that after a failed command the next call returns failure at once while
its own command is in flight, and a late read may still write the buffer
(`CallsAlone` therefore ends with the first failure, `ReadsBack` and
`TablesOwned` do not).  A port without a signature counts as a disk and port 0 is
used whichever port was found, so without a disk at port 0 the driver waits for
the link for ever; `stop_cmd` returns only because the reset has stopped the
engines before; with no controller the scan goes round for ever; a
controller of 1 or 17 slots is taken to have none.  `SearchEnds` is therefore
about a single controller with a disk at port 0.

The HBA reset is taken to be over when it has been written, and the reads of the
configuration space to return what is there (`pciConfigReadWord`, which first
writes the base address, is not modelled).  Counts above 1, for which the regions
of a command would overlap, are not passed by any call.

## Runs

| run | shows |
| --- | --- |
| `process` | for arbitrary programs: list, kernel, `previous`, runnable, context and pid invariants, the refinement of `Scheduler`; once no new tasks come, every task runs again, is removed, or is found waiting for a process that sleeps |
| `session` | pids are unique, `MayKill` is respected, no prompt while a foreground sleep of a single shell sleeps, the prompt comes back |
| `terminal` | no character delivered twice and no `gets` without an Enter, with keys at any time; a user who types only at the prompt gets exactly the edited line delivered |
| `pagealloc` | with records that fill their last page in part: blocks are disjoint, in free memory, clear of the records in marked pages; the search stays in the list until the pages of these are used up |
| `addressspace` | the kernel's mapping is complete in every address space, programs reach only pages of their family, segments and stacks stay mapped, after any sequence of execs, forks and faults |
| `screen` | text never reaches the row of the time, the screen shows the end of what was printed, a user who types at the prompt can neither delete it nor make the kernel write before the screen |
| `ahci` | tables and headers are not changed while the controller may read them, success means written and read back, no command outlives its call before the first failure, the driver returns when there is a disk at port 0 |
| `commandline` | the program that was typed runs with the argument that was typed, whatever line came before; `sleep` and `kill -9` use the number, `cat` and `echo` the name and the text that were typed |
| `tarfs` | the table of files matches the archive, reads stay in the file and skip nothing, in texts and programs; `cat` of a text returns |

Runs that end in a violation, each of something the repository says:

| run | what happens | against |
| --- | --- | --- |
| `background` | `gets` never yields, so a finished background sleep stays listed until the next line | `README.md:50` |
| `pagealloc_partial` | the last page of the records is left free, handed out and cleared | `sys/mem.c:78` |
| `cat_exact` | the byte at the end of each full buffer is shown twice | `README.md:53` |

### Bounds

`MaxTasks` counts tasks ever created.  Four (the kernel, the first shell and two
more) allow a fork, an exec or a fault between any two deletions, hence a
previous task deleted, a tail deleted and a middle node deleted.  `session` uses
10, so that up to four commands are entered; a line is entered only while the
tasks it and the pending execs need can still be created, so the bound never
stops a command halfway.  The sleeps last 0 and 1 ticks in `process`, where
`TimeMod` is 2 in place of 2^64, so that a sleep of 0 wraps around and ends; they
last 2 ticks in `session`, with a `TimeMod` of 4.  `Pids` holds every pid that can
exist and one that cannot.
`Terminal` uses a buffer of 4 and up to 5 keys (5 and 6 hold as well, and take
longer): enough for two lines, with keys at each step of the read in between.
`PageAlloc` uses 18 pages, the records of 16 of them in marked pages, and blocks of
up to 3 pages, for any block of several
pages (a `task_struct` takes 9).  `AddressSpace` has tables of 16 entries, two
sizes of memory, one that ends with a page table and one that does not, and four
tasks: a fork of a fork, an exec of a forked task, two faults on one kernel page.
The offsets of the kernel's and the stacks' addresses are those of the code, cut
down.  `TarFS` has blocks of 4 bytes, a buffer of 3, and up to three entries with
sizes from 0 to 9, so that a file can be empty, end with a block or a buffer, and
take several of both, and with three programs that have 0 bytes.  `Screen` has three rows of three characters, a prompt of
two and 5 keys and calls (7 hold as well): the prompt itself wraps and scrolls,
and a line is deleted back over the end of a row.  `Ahci` has two buses of two
devices, controllers alone or as a function of a device, one or two of them,
ports of every kind, 0 or 2 usable slots, and two faults, so that both calls can
fail or meet a busy disk.  `CommandLine` has every line of up to three characters
behind a name, over blank, tab, two digits, `-` and `&`, numbers of one and two
digits in the forms of the README, a line that is too long, and two of these in a
row: a line is disturbed by the one before it or not at all, since the buffers
are cleared in between.  Deadlock is not checked where a user may stop typing, a
program need not use a file, or memory or the number of tasks has run out.

### Fairness

`FairSpec` assumes that programs keep making system calls (cooperation is the
kernel's own assumption), that the idle loop runs while it is scheduled and that
the timer ticks.  `FairSession` assumes that of the machine and the timer, and
nothing of the user.  `Terminal` assumes it of the reading program only.  `TarFS`
assumes that the kernel goes on with a `cat` it has begun, as interrupts are off,
and nothing of the programs.  `Ahci` assumes that the driver, which nothing
preempts, goes on, and that a controller with a disk goes on with what it has
been asked to do: engines follow their bits, the link comes up, a ready disk says
so, and a command that has begun ends or fails.  Nothing is assumed of failures.

## Proofs

`ProcessProofs` proves `Spec => []Consistent` for any `MaxTasks`, `SleepTimes`
and `TimeMod` that satisfy `ProcessAssumption`.  None of the invariants is
inductive alone: an unlink keeps the list in order only if the node is not the
head, a `schedule(1)` lands in the list only if `previous` is in it, and the
right context is loaded only if all were intact.  `Consistent` is their
conjunction, with `ScanProgress`, what the idle loop's cursor knows between two
steps.  The argument: lemmas on splicing (`UnlinkThreaded`, `LinkThreaded`), on
the scan (`ScanResult`) and on the switch (`SwitchScheduled`); `ScheduleKeeps`
and `ScheduleNextKeeps` combine them; then one lemma per action.

It also proves `Spec => ImplementsScheduler`: each action of `Process`
is the action of `Scheduler` of the same meaning, or a stutter.  `Consistent`
already says that the task switched to is listed and ready; what is left is which
tasks an action adds, removes, blocks and releases.  The steps of the idle loop
before its choice are stutters but for the waits that end on the way.

`SessionProofs` proves that a session is a behaviour of `Process`, so that the
theorems above hold for the shipped programs, and that `MayKill`, which `Process`
assumes of arbitrary programs, holds of every session (`KillStaysAllowed`).  The
invariant `SInv` says which program each task runs and that a task that is not a
shell has another parent than the kernel.  Pids are unique in a session
(`PidsStayUnique`) because no shipped program faults, the one way to a second
pid 1.  `ForegroundComesFirst` follows one round
of the shell (`Alone`): at the prompt every foreground command only has its exit
left and is awake or the one waited for (`Prompting`), the yield after a fork
passes down the list and runs each of them in turn (`Passing`), so that at most
one is left when the shell waits (`Passed`).

`TerminalProofs` proves, for any buffer and any number of keys, that no character
is delivered twice, that each return of `gets` has its Enter, and that a patient
user gets the edited line, all for users
within `MayType`.  The invariant follows every character: it is new, in
the buffer, copied but not yet cleared, or delivered (`Tracked`), Enters are at
least the returns plus the one being served (`Counted`), and the buffer, or what
has been copied of it, spells the line (`Edited`).

`AhciProofs` proves the three safety properties for any machine and any number
of slots and faults.  The invariant says at each place of the driver which
registers are set (`Registered`), what is in memory (`Prepared`) and what the
disk has done (`Moved`).  Its core is that slot 0 is free again whenever a call
looks for a slot, since clearing ST clears `ci`, so only the clean header is ever
used.

`PageAllocProofs` proves, for any memory, that blocks are disjoint and lie in
free memory.  The invariant `FreeTail` says that a record that can be taken
counts the pages up to the end of memory, all behind every block.
`KeptRecordsStaySpared` follows from where the blocks lie; the run
`pagealloc_partial` shows that the records behind are not spared.
`WildStaysLate` shows that the search leaves the list only when the pages of the
kept records are used up, if there was room for one largest block at the start: by
`Frontier` these records are intact, everything from some page on is free and
nothing before it, so the first record that fits is the one at the frontier, and
the walk does not come to the records that are lost.

`TarFSProofs` proves, for any block, buffer and archive, that reads stay in the
file and skip nothing.  The invariant `Positioned` ties the position to what the
caller has got: it is inside the file, not on a 0 byte, and never ahead of the last
byte got.  Nothing but `TarFSAssumption` is assumed: a file may have 0 bytes, at
which the position stops moving, but not as its first byte, where it would move
back before the file.  `WalkFindsAll` proves `TableMatches` for any archive: the digits that
`tar` writes for a size, read by `atoi` and `octTodec`, give the size back, by
induction over the digits, as long as it has at most nine of them
(`SizeLimit`; more would not fit into the `int` of `atoi`), and the stride that
`init_tarfs` computes takes it to the next header.

`AddressSpaceProofs` proves `ReachesOwn`, `SegmentsPresent` and `StacksApart`
for any table size, memory, programs, faults and number of tasks.  None of them
is inductive: what an entry leads to depends on what all other tables hold.  The
invariant `Sound` says that there is a role for every frame: a table of level 1
to 4, reached by certain offsets, or a page of programs, and the family of tasks
it belongs to.  `Structure` says that entries lead where the roles say, and that
the last entry of a top level table, the kernel's, is closed to programs; a task
has a top level table of its family, its stack leads to its own frame, and its
segments are mapped.  The roles are not part of the state: each operation
extends them, and `Sound` only says that some exist, so TLC checks what follows
from it and not `Sound` itself.  `PagingProofs` shows how for the operators of
`Paging`: `Evolves` is what an operation may do (keep the roles, clear no entry,
change none for the pages it must spare, which are the stacks), `EnsureEvolves`,
`OpenEvolves` and `UserPageAdds` that it does no more, and `MapBuilds` that the
writes of `init_paging` behind the last table hit only frames without a role or
page tables of the kernel.  Then `ElfCreates` and `ForkCreates` follow a new
task through its allocations, and there is one lemma per action.

The loops of `region_alloc` and `elf_run_bin`, the digits and headers of `TarFS`
and the searches for a first element need induction.  The library's own theorems
take an operator as a parameter, which the provers cannot instantiate, so
`LeastExists` (a nonempty set of numbers has a least one), `SetInduction` and
`RunExists` (steps can be taken one after the other, so what is defined by recursion
on a number exists) are derived from the well-foundedness of the numbers where they
are needed.

Only model-checked: liveness (the prover does not handle fairness or `ENABLED`);
the properties of `CommandLine` and of `Screen`, whose `print_seq` folds over the
text; and `KernelMapped`, which says what each of the kernel's entries holds after
the loops of `init_map_virt_phys_addr`, where `Sound` only says which frames they
write to.

## Not modelled

- `sys/ptmgr.c` and `sys/ptops.c`, an earlier page table manager: nothing calls
  them, so nothing says what states they would meet.
- `sys/gdt.c`, `sys/gidt.c`'s table set-up, `sys/portio.c`, `sys/apicio.c`: straight-line
  writes to hardware tables and single instructions on ports.
- The general protection fault handler, which stops the machine.
- `free` and the reference counts of `mem.c`, `walk_page_table` and
  `fetch_pte_entry` of `paging.c`, `readline` of `tarfs.c`, `kprintf_at`: not called.
- `opendir`, `list_dir`, `read_dir` and `ps` only print.
- The contents of pages: what `fork` leaves in the parent's data, the overrun of
  seven bytes at the end of a segment copy (`process.c:400`), and the vmas from the
  second on, which lie in pages of the program (`mem.c:167`).
- What no shipped program does: two files open at a time, of which `close` would
  reset the wrong position (`tarfs.c:127`), and `waitpid`, which returns at once
  while the global `is_bg` is 1, whoever set it (`Process` has the early return,
  and nothing says what it should do).
- Buffers longer than the code has room for: more keys than `char_buf` holds,
  a longer line than the shell's 50 bytes, more pieces than the handlers' arrays hold.
- The conversions of `kprintf` but for decimal numbers, colours, and the
  hardware cursor.
- `rootfs/`: the boot loader of FreeBSD.

## Left to do

1. `AddressSpace` over `PageAlloc` in place of frames handed out in order.
2. `Screen` over `Terminal`, with one line buffer.
3. A proof of `KernelMapped`.
