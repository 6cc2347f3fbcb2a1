# Verification of OS for Nerds

TLA+ models, model-checking runs and machine-checked proofs for the kernel in
`src/src/`: a 32-bit x86 kernel with a round-robin scheduler, physical and
virtual memory, a heap, an ELF loader, a file system in memory, a keyboard, a
mouse and a small window manager. File names below are relative to `src/src/`.

## 1. The system

| Part | Files | State it keeps | Operations | What makes it correct |
|---|---|---|---|---|
| process control | `kernel/process.c` | the ring `ready_queue`, `current_process`, `next_pid`, the fields of each process | `init_multitasking`, `create_process`, `schedule`, `process_exit`, `process_block`, `process_unblock`, `process_wait` | nobody falls off the ring, no zombie runs, no wake-up is lost, `schedule()` returns |
| interrupts | `cpu/idt.c`, `cpu/isr_asm.S` | the in-service bit of the PIC, what each preempted process still owes | `isr_handler`, `switch_task` | one acknowledgement for each tick; preemption shares the processor |
| frames and address spaces | `mm/pmm.c`, `mm/vmm.c`, `kernel/elf.c` | the bitmap, its counter, directories and tables, breaks | `pmm_alloc_block`, `vmm_map_page_in_dir`, `vmm_create_address_space`, `elf_load_file`, `sys_sbrk` | a frame has one use; every directory shows the kernel its memory |
| kernel heap | `mm/heap.c` | the list of blocks in a 16 MB arena | `init_heap`, `kmalloc`, `kfree`, `heap_coalesce` | blocks tile the arena, grants are disjoint |
| file system | `kernel/fs.c` | the tree of `file_t`, working directories, descriptors; the table of files on the disk | `fs_mkdir`, `fs_touch`, `fs_delete`, `sys_chdir`, `sys_open`, ..., `fs_save_to_disk`, `fs_load_from_disk` | one tree, names unique, nothing freed is used; what was saved is found again |
| keyboard | `drivers/keyboard.c` | a ring of characters, shift and caps lock | `keyboard_handler`, `kbd_buffer_read` | a bounded queue; shift does not stick |
| mouse | `drivers/mouse.c` | the pointer, the bytes of a packet | `init_mouse`, `mouse_handler` | the driver stays in step with the device |
| window manager | `gui/wm.c` | the list of windows, the one dragged; the text and the cursor of each | `wm_mouse_event`, `wm_putc`, `wm_scroll_window` | one window is dragged and follows the pointer; a window shows what was printed and nothing is written beside it |
| shell | `kernel/shell.c`, `shell_task` in `kernel/main.c` | the line, its history | the line editor, the file commands | the history is what was entered |
| system calls | `kernel/syscall.c` | none of its own | `syscall_handler` | modelled with the parts it calls |
| disk driver | `drivers/ata.c` | a lock | `ata_read_sectors`, `ata_write_sectors` | a command moves as many sectors as it was asked for |
| user library | `programs/stdlib.c` | the list of blocks of `malloc` | `malloc`, `free`, `sbrk` | blocks lie one behind the other below the break |
| boot, segments, devices that only show | `kernel/boot.S`, `cpu/gdt.c`, `drivers/{serial,vga,graphics,font,rtc}.c` | tables, the screen | | not modelled: written once, or output only |

How the parts meet. The timer interrupt calls `schedule()`, and only after that
acknowledges the PIC. The keyboard interrupt fills the ring and calls
`process_unblock(1)`; `SYS_READ` empties the ring or calls `process_block(1)`. The
shell, a kernel thread, runs with interrupts enabled, so its file commands, its
allocation of frames and the output of its commands can be interrupted anywhere;
programs, and the line editor of the shell, reach the same code through `int 0x80`,
which disables interrupts. The mouse interrupt writes three variables that `kmain`'s
loop loads one after the other. Process structures, stacks and file nodes are on the
heap.

What is hard: kernel code that an interrupt splits in two; the state a process
has read before it was preempted; wake-ups that name a number and not a process;
memory that is freed while somebody may still name it; limits (frames, the ring,
the history); one flag for two keys. `PROJECT.json` lists each of these hazards
with its line and the properties that are about it.

## 2. What the models assume of the system around them

The models describe what the code does in each part, for any set of processes
that use it. Two facts about the kernel as it is shipped are outside of that,
and keep parts of it from ever running; both are visible in the code, and each
part is modelled as though the other worked:

* with the processes `kmain` makes, the first tick hands the processor to the
  monitor, and the interrupt controller then holds back everything else (run
  `irq_starved`);
* an address space has the kernel's identity map but not the kernel heap, and
  not the program's image (section 8), so that a program cannot run. *What the
  processor does with an access is left out of `Memory`*; `Process`, `Fs` and
  `Memory` let programs make their system calls.

## 3. The modules

**Process** (`process.c`, with `SYS_READ` and the wake-up of `keyboard.c`). The
fields of `process_t` are functions on pids. A step is a stretch of code with
interrupts disabled, or one access to shared state where they are enabled; `pc`
and `loc` hold the place and the locals of a kernel path that can be interrupted
(`create_process` between finding the last process and the two assignments that
link the new one; the loop of `process_wait`; `process_block` reached from it).
`Landing` is the walk along `next`, without recursion: the first process of a set
that the walk meets. A walk through a pointer nobody has written, and a switch of
a process to itself, end the behaviour with `fault`.

**Irq** (`isr_handler`, the stubs, the frame `create_process` builds). `where[p]`
says how a process that does not run left the processor: it has never run, it
sits in `isr_handler` with the acknowledgement still to send, or in a system call.

**Memory** (`pmm.c`, `vmm.c`, the allocations of `elf_load_file`,
`create_process` and `sys_sbrk`). Directories and tables are frames with `P`
entries; `ram` is the bitmap, its counter and these frames. The shell's
allocations are two steps, the search and the marking, a program's system call is
one. The loops over pages and entries are functions of the number of turns.
Breaks are addresses that wrap, and an increment may have either sign. A frame
given out twice (`clash`), frame 0 used for want of another (`null`) and a page
mapped over the kernel's memory or its heap (`kernel`, `heap`) end the behaviour;
the ghost `strayed` names the programs whose break has left the pages behind their
image.

**Heap** and **Allocator**. `Heap` is `heap.c` to the byte, with `size_t`
counting modulo `WORD`. `Allocator` is what callers rely on: grants inside the
arena, disjoint with their headers, large enough, and refused only when no place
is left. `Heap` implements it under the mapping that takes the blocks in use.

**Fs**. The pointers of `file_t` are functions on heap addresses, so that a freed
node is one that is not `live`, and a step that follows a pointer to it ends the
behaviour with `fault`, as does an access outside the block of a file. The shell
runs with interrupts enabled: its `fs_insert_child` is two steps and its `fs_delete`
three, the search, the freeing of the data and that of the node. The size of a read
or a write is any that `is_valid_user_ptr` accepts, which for some addresses is a
negative one; the ghost `misled` has the files of which that moved a descriptor.

**Keyboard** and **CharQueue**. One key of each kind the handler tells apart, both
shifts, caps lock, repeats; the byte behind a prefix counts as that of a plain key,
so that the keyboard can make up a shift at any time (`fake_shift`). The ring with
its two pointers implements a queue of one character less than it has slots.

**ShellLine** and **Terminal**. `ShellLine` is the loop of `shell_task`: the line,
the history and the place in it. `Terminal` extends it with the console window and
everybody who prints to it. The line editor and the programs print by `SYS_PRINT`,
one step for a character. What a command prints, `execute_command` prints by plain
calls of `term_print` with interrupts enabled: there each access of `wm_putc`,
`wm_scroll_window` and `term_clear` to the window is a step of its own, `at` says
which is next and `reg` holds the registers; where the compiler may read the cursor
again or keep it, the model does either. Positions count glyphs, not pixels. The
window is compared with `lines`, a list of lines that is printed to as though
nothing else existed.

**UserHeap** (`malloc` and `free` of `programs/stdlib.c`) extends `Memory`: each
request of space is a `SYS_SBRK` of the program, which may fail half way.

**Persist** (`fs_save_to_disk`, `fs_load_from_disk`, `init_fs` and the sector commands
of `ata.c`). The disk is a function from sectors to what they hold; a save is the walk
`fs_flatten_tree` with the three times it reads the size of a file, and each sector
is a step, so that the machine can stop between any two and boot again. Programs
write to files and delete them at any moment, the walk among them: `gone` counts
the files deleted behind it, and a file deleted while the walk stands on its node
ends the behaviour. Names are sequences of units, because the table of
files does not end at a sector, and the last entry lies across the end of what is
written of it. Nothing in the kernel calls `fs_save_to_disk`; the model lets the
shell do so, as it calls the other operations.

**Mouse**: the two commands of `init_mouse` with IRQ 12 already enabled, the
packets, `int8_t` and the clamping. **Wm**: `kmain`'s loading of its three
arguments and `wm_mouse_event`.

`ProcessProofs`, `DriverProofs` (of `Irq`, `Keyboard` and `Mouse`), `HeapProofs`,
`WmProofs`, `TerminalProofs`, `FsProofs`, `MemoryProofs` (of `Memory` and `UserHeap`)
and `PersistProofs` hold the theorems (section 6).

Each `MC...` module gives the constants of its module their values. Definitions
under "Seeded fault" are what the code would be with one plausible mistake; no
specification uses them. Each of them, put in the place of the definition that
follows it, makes one property fail, so no property holds whatever the code does.

## 4. The runs

| Run | Question | Instance |
|---|---|---|
| `process` | Is anybody lost, woken too little, or scheduled after exit, when the shell creates and reaps, and a thread waits for the monitor, whose number is also the keyboard's? | pids 0 to 5, three readers, two characters |
| `irq` | Is each tick acknowledged once and in the end, and does everybody run again? | five processes: one loops, three read, one yields |
| `irq_starved` | The same, for the processes `kmain` makes. Violated | the monitor, the shell, the loop |
| `heap` | Does the list of blocks implement the allocator? | 96 bytes, headers of 12, sizes that split, that leave too little to split, and zero |
| `memory` | Has a frame one use, is what `sbrk` promised there, and do the blocks of `malloc` lie side by side in it, when the machine runs out of frames anywhere, and what does a break do that leaves its place? | 36 frames, two programs, one of them with `malloc`; the other moves its break by two pages up, below its image and into the kernel's memory, and past 0 |
| `persist` | Is what was saved found again, and what does a save that was cut short leave behind? | two boot modules and a file the shell makes, up to four sectors each, three files in the table, three saves, three calls of `touch`, `rm` and write, sector counts modulo 4 |
| `fs_shell` | Are the nodes one tree after any history of commands, wherever it is interrupted? | four nodes, names of which one is cut to another |
| `fs_programs` | Do files hold only what was written to them, with sizes of either sign? | one file, up to three bytes, two programs with a descriptor each, one deletes, the shell deletes in steps; an int is one of -7 to 6 |
| `keyboard` | Is the ring a queue, and shift down only with a shift key, unless it is made up? | four slots, five keys |
| `terminal` | Does the history hold what was entered, and the window what was printed, whoever prints in between? | a history of two, three lines; a window of three by three |
| `mouse` | Is the driver's pointer the mouse's? | a screen of five by four, movements inside and beyond |
| `wm` | Does the window that is dragged follow the pointer? | two windows that overlap, a screen of three by two |

Why the bounds are enough. Pids 0 to 5 are the monitor, the shell, which cannot
exit, and up to four threads: one is reaped while its neighbours on the ring on
either side exit or are reaped as well, and one is linked meanwhile. Four nodes are
a directory in a directory with two siblings. The heap has room for several small
blocks, so a block with a free neighbour on either side is freed. 36 frames are
enough for two programs and a page of `sbrk` each, and few enough that every
allocation of every path is refused in some behaviour; 36 is not a multiple of 8, so
the last frames are counted and never found. The ring fills and wraps; the history
shifts. In `persist` the table of files ends inside a sector and one entry lies
across the end of what is written of it, as the real one does after 56 entries; a
file can reach the number of sectors that cannot be counted; a boot reads back what
the one before it saved, and later saves write over the first. In `terminal` a line
fills a row, the window scrolls while the shell has a position of the text in a
register, and a program prints or clears at each place where that can be. Counters
that have no bound of their own are stopped by a bound that the module names
(`MaxPid`, `MaxSize`, `MaxEntered`, `MaxSaves`, `MaxCalls`). The width of an int is
scaled with the size of a file in `fs_programs`, so that offsets wrap at both ends;
an address of `memory` is one of 128, of which the image, the kernel's memory and
the last page are within reach of two increments.

A run checks for deadlock except `process` and `irq_starved` (all threads may have
exited or wait for a key; `irq_starved` is about liveness only), `memory` and
`fs_programs` (whose behaviours end at a fault; in `memory` the shell may also have
nothing left to load) and `persist` (whose behaviours end when the saves and
calls are used up, and at a fault).

The runs do not repeat what is proved of the same module: the type invariants of
`Process`, `Irq`, `Wm`, `ShellLine`, `Keyboard` and `Mouse` are theorems. `Heap` and
`Persist` have theirs in `Tiled` and `OwnSectors`.

## 5. Fairness

Only `Irq` has liveness properties. `FairSpec` asks for weak fairness of the
timer (it ticks on as long as the PIC lets it through), of the handlers once
their interrupt is taken, of the acknowledgement, and of each process that enters
the kernel by itself when it has the processor. Nothing is asked of the keyboard:
nobody has to press a key, which is why `EveryoneRuns` is about the processes
that do not read.

## 6. What is proved

The modules named `...Proofs` are checked by TLAPS, for every value of the constants
that satisfies the assumptions of the modules:

* `ConstantsAssumption` of `Process`: at least a monitor and a shell, room for a key,
  readers and waiters among the shell and the threads;
* `IrqAssumption`: at least two processes never block;
* `KeyboardAssumption`: a ring of at least two slots;
* `MouseAssumption`: a screen with an inside, movements of one byte, of which the
  driver can tell the low byte from an acknowledgement;
* `WmAssumption`, `ShellLineAssumption`: windows on the screen, a line of at least one
  character, a history of at least one line;
* `TerminalAssumption`, `OutputAssumption`: a window of at least two columns and three
  rows, commands that print glyphs, ends of lines and backspaces;
* `FsAssumption`: finitely many addresses for nodes, boot modules at different ones, a
  typed name for each stored one, files that are shorter than the memory below
  programs, and that less than half the address space;
* `HeapAssumption`: an arena of whole words with room for a header, all of it below
  the end of the address space;
* `MemoryAssumption`, `UserHeapAssumption`: the memory the kernel keeps at the start lies
  in the whole bytes of the bitmap, all of the machine's in the identity map; the heap,
  the images and the stack lie above it, the images below the heap; increments are any
  integers; headers and requests of `malloc` are not empty and shorter than the address
  space;
* `PersistAssumption`: names of a length that fits in an entry, boot modules whose
  sectors are their own, a data area behind the table.

**Process** (`ProcessProofs`).

* `TypeCorrect`: `TypeOK`.
* `RunsReadyAlways`: the processor goes only to a process that may run, on a stack
  that is still allocated. It is not inductive: that `schedule()` lands on such a
  process needs that it always finds one, and that depends on the shape of the
  ring. The invariant `IInv` adds: `AlwaysReady` (processes 0 and 1 are READY for
  ever: the first never blocks, the second cannot exit, `process.c:169`); `Ordered`
  (the processes met along `next` have growing pids up to the one that leads
  back to 0: linking appends, unlinking skips); `Unborn` (pids not yet given out
  are UNUSED); `StacksLive` (who has not exited has its stack); `LocalsOK` (what a
  kernel path remembers in its locals over an interrupt stays within these
  bounds: `prev` is before `node`, although both may have left the ring);
  `MonitorLinked`. `Ordered` is why a walk that unlinks from stale pointers still
  cannot close the ring without process 0: a set of processes closed under `next`
  contains 0 (`ClosedHasZero`), so every walk lands on something READY
  (`LandingReady`). One lemma for each action shows that it preserves `IInv`.
* `SelfSwitchNeverAfterBoot`: the same invariant, since the landing is another
  process than the current one as soon as the monitor is linked.
* `ScheduleAlwaysReturns`: every walk lands somewhere (`LandingExists`), again since
  no set of processes without 0 is closed under `next`.
* `ZombiesStayDead`: an action property; every step writes READY only to a process
  that was BLOCKED, and hands the processor only to a READY one. It needs, beside
  `IInv`, that the only process that runs without being READY is half way into
  `process_block` (`HalfAsleep`).
* `WildNeverOtherwise`: no walk meets an entry that was not written, except between
  the two assignments that link a process. `LinkInv` says where such entries
  are: only the last pid may have one, in the hands of the one path that links it,
  and everything the others remember is `Written`.
* `NothingIsLost`, `NoWakeupIsLost`, `ReadersAreWoken` have one more assumption,
  `OnlyShellReaps`: a process other than the shell waits for the monitor alone, as
  in the run `process` (section 8 says what happens without it). The argument is
  that the shell, which after boot is the only one to create and now the only one
  to unlink, does one thing at a time, so that what it remembers over interrupts
  stays true. `RingInv`: the last process it found is still the last (`Linker`), the
  predecessor of the child it found still points to it (`Remembers`), and what
  is linked and in use is reached from the head. `RestInv`: the shell sleeps on the
  child its next search will find first (`Awaits`), since the list stays as it is
  meanwhile; so the exit of that child wakes the shell, and the search finds the
  child it was woken for. Who sleeps on a key is a reader or waits for the monitor
  (`KeySleeps`). With that, `ReadersWoken` is inductive: a key adds a character and
  a woken reader, and who was woken for the monitor finds it and stays a waiter.

**Irq** (`DriverProofs`).

* `IrqTypeCorrect`; `AlwaysOwedOnce`: `EoiOwed`, with `IrqTypeOK` and the
  fact that the current process is in user code or in `isr_handler`; the lemma
  `Switch` says what a switch does to the debt, for every place it starts from.
* `StuckMeansStuck`: once a process that never enters the kernel runs with the
  tick unacknowledged, nothing ever takes the processor from it. This is the
  reason behind `irq_starved`, for every set of processes; `Stuck` is what that
  run reaches, so no run can demand its absence.

**Keyboard** (`DriverProofs`). `KeyboardTypeCorrect`; `ShiftNeverStuck`,
which excepts the time from a shift that the keyboard made up to the next real one;
`RingIsQueue`: the ring implements `CharQueue` for every size. The mapping takes
the characters between the two pointers, counted round the end; `WaitingFacts`
says how that sequence changes when a pointer moves.

**Mouse** (`DriverProofs`). `MouseTypeCorrect`; `AlwaysFollowsDevice`: the invariant
`Shape` says what is on its way from the mouse: answers not yet read, then the rest
of at most one packet, which with the bytes the driver already holds gives the
movement the device has made and the driver has not.

**Wm** (`WmProofs`). `WmTypeCorrect`, `AlwaysOneDragged`, `AlwaysUnderPointer`,
`AlwaysMovesWithPointer`, from an invariant of three parts: one window is dragged;
the arguments loaded so far are on the screen; the offset noted at the click is
the distance of that window from where the pointer was last seen.

**ShellLine** and **Terminal** (`TerminalProofs`). `EditorInTerminal`: every behaviour
of the terminal is one of the line editor, whatever the commands and the programs
print; so what is proved of `ShellLine` holds in it. `EditorTypeCorrect`;
`AlwaysRemembersLast` and `LineAlwaysFollowsView` with the invariant that relates
the history to the lines entered (`Kept`).

The window: `AlwaysInWindow` (`WindowOK`) and `AlwaysInsideUnlessCleared`, from an
invariant that says, for each label of `wm_putc` and `wm_scroll_window`, where the
cursor and the registers can be whatever programs have printed since they were
loaded (`ShellInv`, `CursorInv`): only a clear while the shell is in the middle of a
character can leave the cursor above the first row. `AlwaysShowsLines` (`ShowsLines`): at
every label of a character nobody has overtaken, the window that the shell would
leave if it went on to the end (`Completed`) already shows the lines, and its
registers are those of the window (`Agreed`); so each store needs to keep
`Completed` and no more, and `PutcShows` says once what a whole `wm_putc` does to a
list of lines. `EchoShows` is the induction over the glyphs of a line brought back
by an arrow key.

**Heap** (`HeapProofs`). `AlwaysTiled` (`Tiled`), `FreeNeverAdjacent`
(`NoAdjacentFree`) and `HeapIsAllocator` (the refinement). The invariant: the list
is empty or an `Arena`, that is, each block starts where the one before it ends,
from `HEAP_START` to the end; sizes are whole words; no two neighbours are free
(`Spaced`). `Spaced` is what makes a refusal justified: a place that the abstract
allocator could give lies in one free block, not across two. `CoalesceKeeps` says
that one pass of `heap_coalesce` over a list in which a single block has become
free leaves it `Spaced` again.

**Fs** (`FsProofs`). `FsTypeCorrect`, for any programs. `AlwaysTree`, `CwdAlwaysLive`
and `AlwaysFindable` say `Tree`, `CwdLive` and `Findable` of every state in which
nobody but the shell has deleted (`Alone`: no program that deletes was started, or
there is none); without that `Tree` fails (section 8). `AlwaysSound` needs no such
condition, because `Sound` has it. None of the four is inductive: that a search ends,
or that nothing is left under a node that is deleted, depends on the shape of all
the pointers at once. The invariant `Shape` has local parts, what a node and its
neighbours say of each other (`Linked`, `Rooted`, `HasPred`, `OnePred`), and what the
shell remembers between two steps (`ShellPlace`); and three parts which say that
every set of nodes has one whose successor, whose predecessors or whose parent lie
outside (`NextEnds`, `NextStarts`, `ParentEnds`), so that an action that adds or
takes one node is checked by adding it to the set or taking it out. From them
`WalkEnds` (with the pigeonhole principle), `WalkUnder` and `WalkHolds` give what a
walk along a list meets, and `NoOrphans` why `children` is enough for `fs_delete` to
see that a directory is empty. `AlwaysFindable` assumes that the boot modules have
different names, which `init_fs` does not check. `FsTypeCorrect` lets offsets be any
integer of 32 bits, since negative sizes move them anywhere. `AlwaysIntact` (`Intact`)
is about the files of which no descriptor was moved by one, and assumes that
nothing is created, as in `fs_programs`, or nothing is deleted: a descriptor that
outlives its file keeps its offset, and the memory may become another file. For the
others an offset and a size whose sum wraps make it negative, and such a write is one
outside the block.

**Memory** and **UserHeap** (`MemoryProofs`). `MemoryTypeCorrect` (`TypeOK`),
`MemoryIsolated`, `MemoryKernelShared`, `MemoryBreakBacked`,
`MemoryNullOnlyWhenFull` and `HeapBlocksInBreak` (`BlocksInBreak`). Of the invariant
`MemInv`, `Separate` says that the uses of frames (directories, tables, pages,
breaks) have a frame each, and `Shows` that each directory shows the kernel.
`Separate` survives a mapping because what is mapped is `Spare`, marked and used by
nothing; for the stack of `create_process`, which is allocated in one step and
mapped in a later one, that is `SpareInv`. `FrameInv` keeps what a search told the
shell before it was interrupted: the frame may be gone, but the counter it read is
not above the number of frames that are marked (`Counted`), and a search that found
nothing would find nothing now. That is why the counter never makes the allocator
give up early, before a clash; of what follows a clash only `TypeOK` is claimed,
with the counter at most one too high. `StrayInv` says that a break which has not
strayed lies behind the image of its program and before the last page, so that no
page sbrk maps for it is one of the kernel's; `BreakBacked` needs no such condition,
because a break that went down and comes up again passes over pages that were given
before or are given now, and only a break in the last page, whose top is 0, is moved
without any. A loop of mappings is handled by one lemma for a turn (`PageStep`,
`MappedStep`) and an induction over turns (`GrownFrom`, `Booted`). The proof found
an error of the model and a gap in its assumption. The type invariant bounded the
counter by the number of frames; after two allocations of the same frame the counter
may be one above it. And `init_pmm` leaves the frames of the kernel free that lie in
the last, incomplete byte of the bitmap, yet counts them: the counter is behind the
bitmap only in a machine where the kernel ends before it. For `malloc`, `HeapInv`
says that the blocks of a program fill its heap up to the break (`Fills`), unless
its break has strayed, and that a program which has not been loaded has none.

**Persist** (`PersistProofs`). `PersistSavedIsFound`, `PersistOwnSectors` (which has the
type invariant in it) and `PersistFirstSaveWhole`. None is inductive: they are about
what a boot would find when a save is over, and a save is a walk with programs at
work beside it. The invariant `PersistInv` says of a save under way (`WalkInv`) that the
files it has yet to pass are those it began with, less what was deleted before it came
to them, but for the data of those written to (`Same`); that
each file it has passed has its entry in the table in memory, and its sectors in a part
of the area that ends where the next begins (`Done`); that the size in the entry of
the file it is at is not more than what will be copied (`Begun`), since programs only
make files longer; and that what is left to send of the header and the table are their
last sectors. Sectors are sent one by one: `Will` says what a sector holds once what is
in the queue has been written, and `Holds` says it of the sectors of a file. `DoneInv`
says of a completed save that the table on the disk has the entries of its files
(`DiskDone`); `FirstInv`, that the first save leaves the start of the disk blank until
its table is sent, and from then on a table of which the last sectors may still be
blank; `FaultInv`, that no fault happens there. A file deleted in front of the walk
leaves both `files` and `saved`; one deleted behind it leaves `files` alone, and
`gone` keeps the two aligned. What a boot makes of such a disk is the
other half: `NameAt` ends a name where it was cut (`EntryRead`), the loop over the
entries puts each of them before the modules (`LoadedFirst`), and what is read is what
`Holds` promised, as long as it can be counted (`LoadedFrom`). The proof needed two
conditions that the properties did not state: that a file which is written to during
the save cannot grow past what can be counted, and for `OwnSectors` that the files which
are saved show no sectors of others to begin with (section 8).

Induction over data is done here without the library's induction theorems, which
take an operator as a parameter: the lemma `UpTo` states it for a set of numbers,
and follows from `NatLessThanWellFounded`. For that the models write a walk or an
iteration as a function of the number of steps. Stating the operators of
`Terminal` so that they can be reasoned about showed that the alternatives of
`Printed` overlapped; they are disjoint now.

## 7. What is only model-checked

* Liveness under fairness (`EveryoneRuns`, `Acknowledged`), which is beyond the
  provers.
* What a machine that stops in a later save than the first leaves: no property says
  anything of it, because the code promises nothing (section 8).

Every other property of a run is a theorem.

## 8. Where the code does something else than it says or seems to mean

Violated in a run:

* `irq_starved`: README.md:201 promises "Context switching via timer interrupt",
  but `isr_handler` acknowledges the PIC after `schedule()` (`idt.c:168`). The
  monitor starts from a frame that does not lead through the acknowledgement
  and never enters the kernel: the first tick is the last.

Modelled as the code is, with no property that demands otherwise:

* `process.c:128`: the last process of the ring is found with interrupts enabled
  and linked to later. If a thread reaps it in between, the new process is on no
  ring and never runs (`NothingLost` fails when a thread, and not only the shell,
  waits for another).
* `process.c:130`: between the two assignments that link a process, a tick or a
  key walks through a pointer nobody has written (`WildOnlyWhileLinking` says
  that it can happen there only).
* `process.c:161`: in boot, before the monitor is linked, a tick switches process
  0 to itself and restores an `esp` that was never saved.
* `process.c:216`: `process_unblock` wakes one sleeper. Of two that wait for the
  same child the second sleeps for ever; `process` lets only the shell wait.
  Reasons are pids and the keyboard's 1 in one number space (`syscall.c:82`):
  who waits for the monitor is woken by a key.
* `heap.c:66`: a `kmalloc` that finds no block returns 0; README.md:194 speaks of
  a "growing heap with demand paging". Callers do not look at the result.
* `vmm.c:73`: an address space gets the entries 0 to 31. The heap, at
  0xD0000000, is entry 832, so the loader's own stack is not mapped after
  `elf.c:58`. The image is mapped in the directory `elf_load_file` makes, while
  the process runs on the one `create_process` makes (`process.c:73`), which has
  a stack and no image.
* `syscall.c:58`: `vmm_map_page` maps in `current_directory`, which is the
  kernel's whoever calls. The pages `sbrk` returns are not mapped for the caller,
  and two programs with the same addresses replace each other's entries.
  `BreakBacked` therefore says that a frame was given, not that it is reachable.
* `process.c:186`: `cr3` is always the current process's, so an address space is
  never freed. `pmm.c:26`: the last `max_blocks % 8` frames are never found.
* `pmm.c:57-61`: a program's `sbrk` between the shell's search and its marking
  takes the same frame (`clash` in `Memory`). As compiled, the counter loses
  what was allocated in between, or is one too high; the behaviour ends with the
  clash, and no property says that the counter does no harm later.
* `syscall.c:43`: `sys_sbrk` compares the new break with nothing but the old one. A
  negative increment takes it below the image of the program, or below 128 MB: the
  next call that grows then maps fresh frames over the kernel's own identity map,
  through `kernel_directory` (`KernelShared` says that it takes such a break). Past
  0, or at the end of the address space, the break wraps; one in the last page has
  its top at 0, and the break is moved with no frame given (`BreakBacked` excepts
  it). A break that grows far enough maps over the kernel heap (`heap`).
* `syscall.c:28`: `is_valid_user_ptr` adds a signed size to an unsigned address. Any
  size below -128 MB is accepted with some address: `sys_read_file` then moves the
  offset before the start of the file (`fs.c:283`), two such calls wrap it to beyond
  its end, and a write there lies outside the block or leaves a gap nobody wrote.
  `Intact` excepts the files on which that was done (`misled`).
* `fs.c:226`: `fs_delete` frees the data of a file before it takes its node off the
  list, with interrupts enabled. A program that reads or writes the file through its
  descriptor in between uses freed memory, and one that deletes the file frees the
  data twice; both end the behaviour in `Fs`.
* `fs.c:75`: a program that deletes the head of a list while the shell inserts
  there brings the freed node back (`Tree` fails; `fs_shell` has no such program).
* `fs.c:152`: names are looked up as typed and stored cut to 31 characters, so two
  files of one name can be made (`Findable` excepts cut names). `fs.c:140`: a
  directory named `..` or `a/b` can be made, and no path leads to it.
* `process.c:59`: the descriptors of a new process are what the heap held
  (`Leftovers` in `Fs`).
* `syscall.c:67`: no case for number 12, which README.md:213 counts as "seek".
* `keyboard.c:55`: the handler drops the prefix 0xE0 and takes the byte behind it for
  that of a plain key. The shifts a keyboard makes up around keys of the extended
  block (0xE0 0x2A, 0xE0 0xAA) so turn shift on with no shift key down, or off with
  one down; `ShiftNotStuck` excepts the first until the next real shift.
* `keyboard.c:61`: releasing one of two shift keys that are down ends shift.
  `keyboard.c:80`: with caps lock on, shift and a letter give a capital.
* `syscall.c:33`: `SYS_PRINT` drops strings below 128 MB, among them the literals
  with which the line editor of `shell_task` erases on the screen.
* `mouse.c:98`: the handler can take the answer `init_mouse` polls for; the bytes
  of all later packets are then read one place off (`FollowsDevice` excepts it).
* `wm.c:138`: the button is not noted while a window is dragged, so the first
  click after it is not seen as new. `wm.c:145`: of overlapping title bars the one
  at the bottom is taken.
* `fs.c:432`: the table of files on disk has 4608 bytes, of which eight sectors,
  4096 bytes, are written; nothing calls `fs_save_to_disk`. `fs.c:461`: loading
  puts every file in the root, under its whole path, cut to 31 characters.

* `fs.c:476`: loading adds the files of the disk to the boot modules, which were
  saved with them. Each save and boot adds one more copy of each, and turns the
  order of the list round, which decides what a name means.
* `ata.c:110`: the sector count is a byte. A file of size 0 that has a buffer, or one
  of a multiple of 256 sectors, starts a command that is never given its data
  (a save that gets there ends the behaviour in `Persist`). `fs.c:384`: a file that a
  program makes longer than that between its entry and its copy is entered with a size
  of which only the remainder is written; `Countable` excepts it.
* `fs.c:431`: a save writes over the one before it. When the machine stops in it, the
  old table may point to the new sectors: a boot loads files with sectors of others,
  and the next save keeps them so. `OwnSectors` is therefore about saves of files that
  show their own.
* `fs.c:408`: a program can delete files (system call 14) while `fs_flatten_tree` walks
  the list. A file deleted behind or before the walk does no harm (`SavedIsFound`); from
  the one it stands on, or whose name it has just followed a pointer to, the walk goes
  on through freed memory (`stale` in `Persist`).
* `fs.c:395`: the size of a file is read for the buffer and again for the copy; a
  program that makes the file longer in between makes the copy run over the
  buffer. `fs.c:447`: of the entries past the eight sectors a boot sees what
  `kmalloc` returned.
* `wm.c:212`: only the end of the buffer is checked. When a program clears the window
  while the shell scrolls, the cursor is negative for an instant and a glyph is
  drawn before the buffer (`InsideUnlessCleared` excepts it). In a window of two
  rows the same happens without a clear; `TerminalAssumption` asks for three.
* `process.c:205`: with interrupts enabled, as in `process_wait`, a tick between the two
  assignments of `process_block` leaves a sleeper without a reason, whom nobody
  wakes; `NoLostWakeup` is about those who got past both.

## 9. Not modelled, and what could follow

Not modelled: CPU exceptions (they print and halt), the composition of the screen,
segments and boot code, serial port, VGA text and clock, string helpers, the
operations that only copy out (`ls`, `cat`, `readdir`, `getcwd`) and the lock of the
disk driver, which has one taker at a time. `kedit.c` is a program over the calls
modelled here, and the Makefile does not build it.

What could follow: `Keyboard` in the place of the counter `kbd` of `Process`; `Irq`
with `Process`, where ticks would come only when the PIC lets them through, which
with the processes of `kmain` is once (`irq_starved`).
