# A verification of the kernel of armOs_64

armOs_64 is a small kernel for one core of a Raspberry Pi 3: preemptive
processes with `fork`, `exec`, `wait` and `exit`, a page allocator with
per-process page tables, a read-only FAT16 file system, a keyboard on the UART,
a timer, and a shell. This directory holds TLA+ models of it, the TLC runs that
check them, and proofs that TLAPS checks.

Paths below are relative to the `src/` directory of the kernel. `PROJECT.json`
names, for every definition, the lines it stands for, and, for every property, a
mistake in a definition that the property finds.

## Inventory

| Part | State | Operations | Talks to |
|---|---|---|---|
| Processes, `process/process.c` | `process_table`, `pid_num`, `pc`: the current process and the ready, wait and kill lists | `init_process`, `yield`, `sleep`, `wake_up`, `exit`, `wait`, `fork`, `exec` | lists, memory, files; called by system calls and interrupts |
| Lists, `utils/list.c` | `HeadList`: first and last item; the items link themselves | append, remove the head, remove the first match | processes |
| Memory, `utils/memory.c` | the free list, kept in the free pages; page tables | `kalloc`, `kfree`, `map_page`, `free_vm`, `setup_uvm`, `copy_uvm` | processes, files (the two tables, `INIT.BIN`) |
| Files, `fs/fs.c` | `fcb_table`, `file_desc_table`, `Process.file`; the image is never written | `open_file`, `read_file`, `close_file`, directory and size | processes, memory |
| Keyboard, `keyboard/keyboard.c` | a ring of 500 characters | `keyboard_handler` (interrupt), `read_key_buffer` | `sleep`, `wake_up`, UART |
| System calls, `syscall/syscall.c` | the table of calls | 13 calls | all of the above |
| Timer, `timer/generic_timer.c` | `ticks` | the tick | `wake_up`, then `yield` |
| Exceptions, `vector_t/exception_handler.c` | none | dispatch of faults, interrupts and calls | all of the above |
| UART, `uart/uart.c` | the receive register and its interrupt, in the device | the handler, sending | keyboard |
| Interrupt controller, boot, MMU | registers | register I/O | |
| `utils/utils.s`, printing, assertions | none | `memcpy`, `memset`, `memcmp`, `printk`, `error_check` | |
| User library, INIT, shell, `ls`, test | a line buffer in each shell | system calls | the kernel, by system calls |

**What runs when.** There is one core, and it takes every exception with
interrupts masked. Kernel code is therefore never interrupted. What makes the
kernel concurrent is that processes are switched *inside* system calls:
`sleep()` and `exit()` switch stacks in the middle of a call, and a tick
switches stacks between two instructions of user code. Interrupts are open in
user code and in the idle loop only.

**What is hard.** A process that looks at shared state and then sleeps on it
(`wait()` and the kill list, `read_key_buffer()` and the ring); state read before
a sleep and used after it; three lists threaded through one `next` field, two of
which search the same `wait` field for different things; slots and pages that are
used again; a free list inside the pages it hands out; allocations that fail half
way; descriptors shared after `fork()`, counted in two tables; a device that goes
on while its handler runs.
`PROJECT.json` lists these as hazards, line by line, with the properties
that would catch each.

**What makes each part correct.**

- Processes: each is on the list of its state and on no other; one runs; no
  wake-up is lost; `wait(n)` frees process n and no other and returns after it is
  gone; scheduling is round robin; sleeps end.
- Memory: no page has two owners, none is lost, the free list ends, assertions
  hold, and memory for every slot is enough for every slot.
- Files: a held descriptor leads to its file, whatever others do; counts cover
  their holders; descriptors come to share a position by `fork()` only, files opened
  apart never.
- Keyboard: a bounded first-in first-out queue; a sleeping reader is woken.
- The parts together: processes as `process.c` runs them give the driver and the
  tables of files what these rely on.
- Programs: every line typed at the shell is answered by a new prompt, and nothing
  of a command stays behind.

## Modules

| Module | Stands for | Kind |
|---|---|---|
| `ListOps` | `list.c` as sequences | operators |
| `ListQueues` | what the lists promise, in the operators of `ListOps` | abstract specification |
| `HeadList` | `list.c` with its pointers | specification, refines `ListQueues` |
| `Process` | `process.c`, the sleeping system calls, the interrupts that reach the scheduler | specification |
| `KeyQueue` | what the keyboard buffer promises | abstract specification |
| `Keyboard` | `keyboard.c` | specification, refines `KeyQueue` |
| `Uart` | the receiver of `uart.c` under `Keyboard` | specification, extends `Keyboard` |
| `Files` | descriptors of `fs.c` and what process operations do to them | specification |
| `Fat16` | the directory search and the cluster walk of `fs.c` | specification |
| `PagePool` | what the memory system promises | abstract specification |
| `Memory` | `memory.c`, and the operations that take pages and give them back | specification, refines `PagePool` |
| `Kernel` | `Process`, `Keyboard` and `Files` as one state | composition, refines all three |
| `Shell` | INIT, the shell and its commands on `Kernel` | specification, extends `Kernel` |
| `MC*` | instances for TLC | |
| `ListOpsProofs`, `HeadListProofs`, `ProcessProofs`, `FilesProofs`, `Fat16Proofs`, `KeyboardProofs`, `MemoryProofs`, `KernelProofs` | theorems; those of `Kernel` and `Shell` are in the last | proofs |

### Process

One action is what the kernel does between an entry from user code (or from the
idle loop) and the next switch of stacks. A call that sleeps is two kinds of
action: the part before `sleep()`, and the part after it, which can be taken only
while the process is the current one again. `call[p]` records where p's kernel
stack stands. While `call[current_process]` is not `"user"` the kernel is
executing, so interrupts are closed (`IrqOpen`).

| Action | Code |
|---|---|
| `TimerIrq` | `timer_interrupt_handler()`, then `yield()` |
| `UartIrq` | the `wake_up(-2)` of `keyboard_handler()` |
| `SysSleep`, `SysSleepLoop` | `sys_sleep()` before, and after, a switch |
| `SysKeyboardRead`, `KeyboardReadReturns` | `read_key_buffer()` on an empty buffer |
| `Exit` | `exit()`: by the call, by a fault in user code, or by a failing `exec()` |
| `SysWait`, `WaitLoop` | `wait()`, one round of its loop at a time |
| `Fork` | `fork()` with `alloc_new_process()` |
| `Hang` | `while (1) { }` after a fault in the kernel or a failed assertion |

`schedule()`, `yield()`, `sleep()` and `wake_up()` are operators the actions are
made of, with the same order of effects as the code. The tick counter is not a
variable: `sys_sleep()` only looks at `ticks - old_ticks`, so `arg` holds what is
left of each sleep. Lists are sequences; `remove_list()` is `Sublist` and `Unlink`,
written without recursion so that they can be reasoned about. Memory is left to
`Memory`: `Process` takes `kalloc()` to succeed, which `EnoughIsEnough` there
justifies for a heap of the size the kernel is linked for.

### Keyboard and KeyQueue

`read_key_buffer()` is split at its sleep: `ReadKey` and `ReadKeyWoken`; the
local variable `front` is part of the state because it lives across the sleep.
The scheduler is left open: a woken reader goes on at any later time, which
covers everything `Process` may do in between. `Keys`, the slots from `front`
to `end`, is the refinement mapping to the queue.

### Uart

The device under the driver. `init_uart()` leaves the FIFO of the PL011 off, so it
holds one character (`dr`), and its receive interrupt (`ris`) is raised when a
character fills that register. `Receive` is the device's own step and may come
between the two accesses of `uart_interrupt_handler()`: the read in `read_char()`,
after which `keyboard_handler()` runs (`ReceiveIrq`), and the write to ICR
(`ClearIrq`). Processes do not run in between.

### Files

`life`, `file`, `desc` and `fcb_count` are the process slots, `Process.file`,
`file_desc_table` and the counts of `fcb_table`. An FCB is identified with its
directory entry, as `get_fcb()` does. None of the operations sleeps, so each is
one action. The module has two layers: operators for what each operation does to
the tables (`Open`, `Close`, `Read`, `Load`, `CopyFiles`, `ClearFiles`), and the calls, which
add who may make them and what becomes of the slot. `Kernel` uses the first and is
shown to implement the second. The boot (`init_process`) and `exec()` open, read and
close a file in one step (`Load`). `close_file()` is translated as it is, with its
test of a count that nothing lowers. Of a file only its size and the number of its
clusters matter here.

### Kernel

The variables of `Process`, `Keyboard` and `Files` together. `Keyboard`'s `pc` and
`Files`' `life` are not variables here but read off the call and the state of a
process. Each entry to the kernel is one action with all it does: `KeyIrq` writes the
ring and wakes the readers; `KReadKeySleeps` and `KReadKeyWoken` are the two sides
of the sleep, between which any other process may run; `KFork` copies the
descriptors into the slot `find_unused_process()` picks; `KWait` and `KWaitLoop` clear
those of the slot they free; `KExec` exits when the file cannot be opened. There
are three refinements: `Spec` of `Process`, `IsKeyboard` and `IsFiles`. They say
that what two modules leave open, or do in the same call, does not get in the
way of either, and they carry the properties of the parts over to the whole.

### Shell

The three kinds of programs of the disk image, one system call a step. `at` is a
process's place in its program, `line` what `read_cmd()` has in its buffer, `result` the
descriptor or the pid its program holds. `fork()` gives the child the parent's place
and line; `exec()` starts a program afresh. The function `Command` takes a typed line
to the file its capitals name. It names no shell: a shell that is told to run
`CONSOLE.BIN` starts another one, and at the eighth such line the process table is full
(finding 1).

### HeadList and ListQueues

`HeadList` has the first and last item of every list and the link of every item;
as in the code, where a `HeadList` begins with its own link, `next` has a value for
heads and items alike. An item keeps its old link when it leaves a list. The
items the links lead to are the refinement mapping to `ListQueues`, whose
operations are those `Process` performs on its sequences. Both take the callers to
append only what is on no list, which is what `ListsAreConsistent` proves of
`Process`.

### Fat16

One file at a time is opened by path, read in pieces and closed, on an image that
`Init` chooses. `path` is what was asked for and `data` all bytes copied since, each
named by its cluster and the place in it. `Splits`, `NameOf` and `ExtOf` are
`split_path()`; `Walk`, `FirstSize`, `IndexAfterFirst` and `CopiedFrom` are the
parts of `read_raw_data()` in their order. The properties do not use these
operators: what counts as a file is the test with which `fs.c` skips an entry, which a
volume label passes; names are compared with the ways of writing an entry's name (`Spellings`:
with the blanks that pad it or without, with the dot or, without an extension,
without), and the bytes with each other along the chain. `StopsOnlyAtFullEnd` is why `Files` may
count clusters instead of following them.

### Memory and PagePool

A page is modelled by the two words the kernel reads in it: word 0, the link of
a free page and the entry in use of a PGD or PUD, and word 2, the entry of
`0x400000` in a PMD. `kfree()` really overwrites word 0, `kalloc()` really leaves
what it finds, and a table that was not cleared really has entries. The functions
of `memory.c` are operators from memory to memory with the code's names, and the
failure of each `kalloc()` is followed to the assertion that stops the kernel.
`FreePages` and `Owned`, which follow the links and the tables, are the refinement
mapping to the pool.

## Runs

| Run | Instance | Shows |
|---|---|---|
| `MCProcess` | 4 slots, pids to 4, sleeps to 2 ticks; 60,514 states | type, safety, action and liveness properties of `Process` |
| `MCProcessFull` | 3 slots | finding 1 |
| `MCKeyboard` | ring of 4, 2 characters, one reader, under the UART; 4,402 states | refinement of `KeyQueue`, no lost key press |
| `MCKeyboardTwo` | the driver alone with two readers | finding 2 |
| `MCUart` | as `MCKeyboard` | finding 4 |
| `MCFiles` | 3 slots of 2 descriptors, 3 FileDesc, 2 files; 584,331 states | descriptors, counts, sharing |
| `MCFilesLeak` | the same | finding 3 |
| `MCMemory` | 3 slots, every heap from 0 to 17 pages; 44,089 states | free list, ownership, failures, refinement of `PagePool` |
| `MCFat16` | names of 2+1 characters, clusters of 2 bytes, files to 5 bytes; 50,388 states | the search by name, reads against the chain |
| `MCHeadList` | 2 lists, 4 items, 2 wait values; 2,531 states | refinement of `ListQueues`, the tail |
| `MCKernel` | 3 processes of one descriptor, 2 FileDesc, a ring for one key; 1,128,583 states | the kernel implements `Keyboard` and `Files` |
| `MCShell` | INIT, the shell, a slot for a command; 7 FileDesc, a ring for two keys, lines to 3 letters; 52,132 states | slots, keys and lines of the shell; a sleeping shell gets its key, the prompt comes back |

**Bounds.** `NUM_PROC` is 10 in the code. Four slots give the idle process and
three others: two processes that wait, or sleep, while a third exits and its slot
is taken again, which is as many actors as any property here speaks of. In
`MCProcess` `MaxPid` is the number of slots, so that a slot is used again; the
table can fill, and a full table stops the kernel at the next `fork()` (finding 1),
which the liveness properties say in so many words (`panic # "none"`). A sleep of two
ticks is one that a tick wakes too early. The ring of four slots wraps and fills; 500
slots would differ only in taking longer. In `MCFiles` one FileDesc is used up at
boot and the others can run out; a file of two full clusters and one of one and a
half are the two cases of the cluster walk. In `MCMemory` three processes need 17
pages, so that with the smaller heaps every allocation of the boot and of `fork()`
is, in some run, the one that fails. In `MCFat16` a path may have one character more
than the longest name with its extension, so every way `split_path()` can end
occurs; three clusters give a read a first part, a whole cluster and a rest, and
every chain of them is tried. A path that is not found ends a behaviour of that
run, which only keeps it small. Four items are the least with which a list has an
inner item and the other list is not empty. In `MCKernel` the boot and one
`open_file()` use up both FileDesc, so `open_file()` and `exec()` succeed and fail; the
file has one cluster, so that a read of nothing at its end fails the assertion in
`read_raw_data()` and the kernel stops with it. In `MCShell` the line limit of 80 is
2 and the buffer of 100 is 4, the least that `LineFits` allows; the FileDesc last
for two commands, after which a command is forked and cannot be executed, and
then the shell cannot open its file: all three answers to a line occur.

**Fairness.** `Process!FairSpec` has weak fairness of the steps that continue a
system call, because the core goes on executing kernel code, and strong fairness
of the tick, because the timer keeps its line raised until the handler has run, so
that a tick due while interrupts are masked is taken when they open. Nothing is
assumed of key presses or of user code, which may loop or never call the kernel.
`ShellFairness` has the tick
as above and strong fairness of each program's steps: a process runs thousands of
instructions from one tick to the next, so one that is given the core again and
again gets on. It assumes no key to be pressed. `SleeperGetsKey` is about a key that
`keyboard_handler()` has written. It does not say that typing wakes a reader: after
finding 4 no handler runs any more, and a reader that sleeps then sleeps for good
whatever is typed. The other runs check no liveness.

Every property of a passing run has a mutant: an operator called `Wrong...` beside
the definition it replaces, with one mistake of the kind a change to the code might
make. `PROJECT.json` says which property finds which.

## Findings

1. **A full process table.** `fork()` is written for `alloc_new_process()` to
   return NULL when there is no slot, but `alloc_new_process()` stores through the
   NULL that `find_unused_process()` gave it (`process/process.c:54-56`), first at
   offset 40, the field `stack`. Shells
   started from shells reach it.
2. **Two readers of the keyboard.** `read_key_buffer()` tests for an empty buffer
   with an `if` around its sleep. A key wakes a reader; before that one runs, another
   process reads the key; the woken one does not test again, returns the same
   character once more and moves `front` past `end` (`keyboard/keyboard.c:24-29`). With one reader there is none of this
   (`DriverIsKeyQueue`), and `MCShell` has one reader.
3. **Descriptors are never given back.** `close_file()` clears a FileDesc whose
   count is 0, and nothing lowers the count (`fs/fs.c:299`). Each `open_file()`
   uses an entry for good; the run sees it at boot, with INIT.BIN. `exit()` and `wait()`
   do not lower counts either, which this run says nothing about.
4. **A character can lose its interrupt.** The handler clears the receive
   interrupt after it has read the character, for an interrupt it takes to be
   level triggered (`uart/uart.c:41`). A character that arrives in between stays
   in the register, its interrupt cleared; with the register full no interrupt
   comes again.

The walk along the cluster chain fails its assertion (`fs/fs.c:160-163`) when nothing
is read at the end of a file whose size is a multiple of the cluster size, or where
the chain ends early. `StopsOnlyAtFullEnd` says that it fails there and nowhere else.

## Proofs

The theorems hold for every value of the constants, under the assumptions the
modules name (`ProcessAssumption`, `FilesAssumption`, `KeyboardAssumption`,
`MemoryAssumption`, `HeadListAssumption`, `Fat16Assumption`, `ShellAssumption`) and
those in the table. The assumptions say what the source's constants and the image
are like: a table of two slots or more (four under the shell), a ring of two characters
or more, heaps of finitely many pages, a line limit that leaves room for the zero, and
an image whose entries have the clusters their size asks for. A theorem about `Kernel`
or `Shell` that uses a result of `Files` or `Keyboard` has that module's assumption
among its hypotheses. TLC evaluates every assumption on the instances.

| Module | Theorem | States |
|---|---|---|
| `ProcessProofs` | `TypeCorrect` | `TypeOK` |
| | `ListsAreConsistent` | `ListsMatchStates` |
| | `OneProcessRuns` | `OneRunning` |
| | `SleepersCanBeWoken` | `SleepersAreInCalls` |
| | `NoExitIsLost` | `NoLostExit` |
| | `PidsAreUnique` | `PidsIdentify` |
| | `WaitAssertHolds` | `ReapsOnlyKilled` |
| | `ReadyListIsFair` | `RoundRobin` |
| | `WaitReturnsLast` | `WaitOutlivesChild` |
| `FilesProofs` | `DescriptorsLeadToFiles` | `NoDanglingDesc` |
| | `PositionsSharedByFork` | `SharesOnlyByFork` |
| | `HeldDescriptorsAreStable` | `HeldDescIsStable` |
| | `OpenedEntriesAreFresh` | `OpensAreFresh` |
| | `CountsAreSound` (a finite process table) | `CountsCoverHolders` |
| `KeyboardProofs` | `NoKeyPressIsLost` (one reader) | `NoLostKeyPress` |
| | `DriverIsKeyQueue` (one reader) | `IsKeyQueue` |
| `KernelProofs` | `KernelIsProcess` | `KernelSpec => Spec` of `Process` |
| | `KernelIsFiles` | `IsFiles` |
| | `KernelIsKeyboard` | `IsKeyboard` |
| | `KernelDescriptorsLeadToFiles` | `NoDanglingDesc` of the whole kernel |
| | `KernelPositionsSharedByFork` | `SharesOnlyByFork` of the whole kernel |
| | `KernelHeldDescriptorsAreStable` | `HeldDescIsStable` of the whole kernel |
| | `KernelCountsAreSound` | `CountsCoverHolders` of the whole kernel |
| | `ShellInvariant` | the inductive invariant of `Shell` |
| | `SlotsAlwaysSuffice` | `SlotsSuffice` |
| | `LinesFit` | `LineFits` |
| | `ShellKeysAreQueued` | `KeysAreQueued` |
| `MemoryProofs` | `MemoryInvariant` | the inductive invariant of `Memory` |
| | `MemoryTypes` | `TypeOK` |
| | `FreeListIsFinite` | `FreeListEnds` |
| | `PagesAreNotShared` | `NoPageShared` |
| | `PagesAreNotLost` | `NoPageLost` |
| | `AssertionsHold` | `MemoryAsserts` |
| | `EnoughPagesAreEnough` | `EnoughIsEnough` |
| | `UserPagesStayPrivate` | `UserPagesArePrivate` |
| | `MemoryIsPagePool` | `IsPagePool` |
| `HeadListProofs` | `ListsInvariant` | the inductive invariant of `HeadList` |
| | `TailsAreLast` | `TailIsLast` |
| | `ListsAreQueues` | `IsListQueues` |
| `Fat16Proofs` | `Fat16Invariant` | the inductive invariant of `Fat16` |
| | `FilesAreFoundByName` | `FindsByName` |
| | `ReadsFollowTheChain` | `ReadsAreSequential` |
| | `ReadsReturnAllOrNothing` | `ReadsAllOrNothing` |
| | `ReadsStopOnlyAtFullEnd` | `StopsOnlyAtFullEnd` |

**Processes.** The inductive invariant `IInv` is the conjunction of the seven
invariants; none of the deeper ones is inductive alone. `NoLostExit` is kept by
`exit()` because a process in `wait()` sleeps on the code that `exit()` wakes
(`SleepersAreInCalls`), so after the wake-up nobody in `wait()` is on the wait
list; and by `wait()` because a search by the `wait` field is a search by pids
(`PidsIdentify`). `ReapsOnlyKilled` follows from `ListsMatchStates`. That in turn
needs to know that what is appended was on no list, which is so because only the
running process is appended, and there is one (`OneRunning`), or a slot that was
unused.

**Files.** That a held descriptor never dangles is not inductive: `close_file()`
clears the entry of its descriptor, which another process may hold as well. What saves
it is that an entry somebody holds is counted (`HeldIsCounted`), so that `close_file()`
leaves it as it is (`CloseKeepsEntries`). `FilesInv` has both, with the types and
`SharesUnderOneNumber`: an entry two descriptors lead to has the same number in both.
The three action properties follow from it. For `SharesOnlyByFork`, `open_file()` takes
an entry nobody holds, `close_file()`, `exit()` and `exec()` add no second holder
(`NoNewShare`), and the child of `fork()` shares what its parent held or shared, under
the same number (`ForkShares`). That counts cover
their holders (`CountsInv`) needs the cardinalities of the sets of places that lead
to an entry or a file: one more after `open_file()`, at most one less after `close_file()`, as
many more as the parent has after `fork()`.

**Keyboard.** `RingInv` adds to `NoLostKeyPress` that a sleeping reader's local
`front` is the ring's. The refinement needs what `Keys` becomes when an index moves
on modulo the size, with the wrap on either side: `KeysOfRing`, and one lemma for
writing and one for taking a key.

**The kernel.** Each step of `Kernel` maps to a step of its three parts. For `Process`
it is a projection. For `Files` the life of a slot, which `Kernel` reads off the state,
has to change as `Files` says, which follows from `IInv`: the pids and the kill list
tell which slots are in use and which are killed (`LifeOfState`), so only `exit()`,
`fork()` and `wait()` change them (`ExitKills`, `ForkTakesFree`, `ReapFrees`). For
`Keyboard` the place of each reader has to stay where it is in all steps but its own
and the key interrupt: `wake_up()` with another code does not touch it
(`WakeUpReaders`), nor do the switches of the scheduler. Along `KernelIsFiles` the
inductive invariants of `Files` hold in the kernel too, which gives the theorems about
descriptors and counts.

**Programs.** `SlotsSuffice` is not inductive: that the table does not fill rests on
who waits for whom. `ShellInv` adds to the invariants of processes and counts that
the three programs are at matching places (`Stage`): INIT, in slot 1, waits for the
pid in slot 2; the shell there is alone, or waits for the pid in slot 3; and no other
slot is in use. A process at each place holds what its next call needs, a
descriptor, a pid or a line with room (`Sane`). Since processes start in the first free
slot and a parent goes on only when its child's slot is free again, each step leads from
one such stage to another; that `wait()` frees the slot of that child and no other is
what `PidsIdentify` gives. Hence only slot 2 is ever in `read_key_buffer()`
(`OnlyShellReads`), and `KeyboardProofs` with one reader applies to the whole system.

**Memory.** `MemoryInv` has the types, `NoPageLost`, `MemoryAsserts` and `EnoughIsEnough`, and
two facts that make them inductive: the links lead from `free_memory` through
different pages, exactly the free ones, to NULL (`Frees`), and while the kernel runs
every page is free, a table of `fs.c`, or one of the five of one process, never two of
these (`Apart`). `kfree()` writes into the page it frees, `map_page()` into a table, and
user code into its page: none of these writes reaches a link of another free page
or another process's table only because the pages are apart. Each function of
`memory.c` has a lemma about what it does to a list of free pages and to the tables it
is not given, failing half way included; `fork()`, `init_process()` and `wait()` are put
together from these.

**Lists.** `ListsInv` says that the links of a list lead from its head through
different items to NULL, that its tail is the last of them, and that the lists have
no item in common. Apartness is needed because a store through one list's tail, or into
the item before the one removed, would otherwise move another list. Links that
items keep from earlier lists are not constrained at all.

**The FAT16 reader.** `Fat16Inv` says that the open file is the first entry that `search_file()`
accepts and that `data` is, byte for byte, the beginning of that file along a chain of its
clusters (`Beginning`). The step of `read_file()` shows that the walk, the copy
from the middle of a cluster and the loop over whole ones continue it from any
position; the arithmetic is that of one division (`Division`). `FindsByName` then
needs that a path splits into an entry's padded name and extension exactly when it is one
of the entry's spellings.

**Following links.** The free pages, the items of a list and the walk along a chain are
recursive functions. Their values are not computed by an induction over the heap or the
chain, which the provers do not reach: where the invariant gives a numbering of the
pages, items or clusters, that numbering is shown to be what the function's definition
describes, with the least counterexample in a set of numbers where one is needed.

**Layout.** `ListOpsProofs` proves what the list operators do: which items they
keep, in what order, and that no item appears twice. `ProcessProofs` has a
lemma for each of `schedule()`, `yield()`, `sleep()` and `wake_up()`, in terms of
lists that match a function of states (`ListsOK`); one lemma per action; `NextInv`
combines them. The other modules follow the same plan.

**Only model-checked.** The liveness properties (`ReadyRuns`, `SleepEnds`, `AwaitedIsFreed`,
`SleeperGetsKey`, `PromptReturns`): they rest on fairness, of which the prover does not
know when a step is enabled. Every other property of a passing run is stated by a
theorem; that of the driver is about `Keyboard`, of which `Uart` only narrows when keys
come, which `MCKeyboard` checks. The findings are runs in which TLC shows the violation.

## Not modelled

- A list that is half linked. Inside the kernel no one can see one, but interrupts
  are enabled (`kernel/kernel.c:86`) before `init_process()` appends INIT. A tick
  between the stores of `append_list_tail()` (`list.c:10-11`) runs INIT from the list,
  and the idle process completes the append when it runs next, whatever the list
  then holds.
- The widths of `pid_num` and of positions. Both wrap only after 2^31 forks, or with
  a read of nearly 4 GB.
- The size of a file against that of the user page, into which `exec()` and
  `setup_uvm()` read it whole: `Files` has sizes, `Memory` pages, and no module both.
- Sector arithmetic, the signature of the image, and images that are not sound:
  entries whose chain is shorter than their size.
- Register frames, stack switching, translation tables above the ones `Memory`
  has, boot, interrupt controller, the sending half of the UART.
- Printing: `printk` and `printf` format text and change no state.
- `memcpy`, `memset` and `memcmp` of `utils.s`, which the models take by what their
  callers need. Where source and destination overlap and the destination is above,
  the copy loop of `memmove` starts with four bytes from the last one on, and so runs
  past the end; no caller in the repository copies between overlapping regions.
- Programs other than INIT, the shell and commands that print and exit; `Kernel`
  has processes that make their calls in any order. Calls on descriptors that are not
  open, which the code does not test for, are left out of `Files` and of `Kernel`.

## Plan

Done are the modules above, in this order: `Process` with its proofs (the core:
everything blocks and wakes through it), `Keyboard`, `Files`, `Memory`, `Fat16`,
`HeadList`, `Uart`, `Kernel`, `Shell`; then the proofs of `Files`, `Keyboard`, `Kernel`,
`Memory`, `HeadList`, `Fat16` and `Shell`. What is left:

1. A tick in the middle of an append, as at boot, in `HeadList`.
2. The functions of `utils.s` against their definitions, overlapping regions included.
3. `Kernel` with `Memory`, so that `fork()` takes a slot, its descriptors and its pages
   in one step, and a file's size meets the page it is read into; then the theorems of
   `MemoryProofs` for the whole kernel, as `KernelIsFiles` carries those of `FilesProofs`.
4. That the receiver of `Uart` leaves the driver as `KeyboardProofs` has it.
