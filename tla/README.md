# A TLA+ verification of GKernel

GKernel is a small 32-bit x86 kernel: a multiboot loader starts it, it takes
stock of physical memory, sets up segments and interrupts, starts one program
(`/system/init.bin`) and from then on is nothing but two interrupt handlers,
the timer's and the system call's. This directory holds its formal model, the
TLC configurations that check the model, and proofs about it for the TLA+
proof system.

`PROJECT.json` is the machine-readable index: components, runs, the source
lines of every definition, the hazards of the code, the findings, the
theorems.

## 1. The system

| Component | State it keeps | Operations | Talks to |
|---|---|---|---|
| Tasks and scheduler (`tasks.c`) | list of `struct task` (`next`, `pid`, `cpu_state`), `first_task`, `current_task`, `nextpid`, `proccount` | `init_task`, `init_elf`, `init_multitasking`, `kexit`, `schedule` | memory manager (three pages per task), interrupt dispatch, console |
| Interrupts and system calls (`intr.c`, `int_stub.S`) | GDT, IDT, `tss`, `interrupt_handlers`, the saved `cpu_state` on a kernel stack | `init_gdt`, `init_intr`, `handle_interrupt`, `syscall` | every other component |
| Physical memory (`mm_phys.c`) | the bitmap, 1 = free | `pmm_init`, `pmm_alloc`, `pmm_free`, `pmm_mark_used` | the multiboot structures |
| Boot (`start.S`, `kernel.ld`, `init.c`) | the order of initialisation | `_start`, `init` | calls all `init_*`, with interrupts on from `init_intr` |
| ELF loading (`tasks.c`, `intr.c`, `elf.h`) | memory at the addresses programs are linked for; `buf`, the buffer both loops over the modules build names in | `init_elf`, the loops of `init_multitasking` and LOADF | strings, tasks; physical memory, behind the allocator's back |
| Console (`console.c`) | video memory, cursor `x`, `y`, `color`, `scrole`, `serial` | `kputc`, `kputn`, `kprintf`, `clrscr`, setters | serial port; shared with the info line |
| Info line (`info_line.c`) | none of its own: the bottom row | `drawinfo` | called by the timer handler; borrows the console's cursor |
| Widgets (`widget.c`) | an `x` of its own | `create_error` | nothing calls it |
| Keyboard (`keyboard.c`) | `buff`, the controller's output buffer | `init_keyboard`, `keyboard_irq_handler`, `getchar`; GETCHAR and GETMOV read the same port | interrupt dispatch |
| Timer (`pit.c`) | `tick` | `init_pit`, `pit_irq_handler`, `reset_tick`, `get_tick` | info line, tasks (`getproccount`) |
| Clock (`cmos.c`) | the chip's registers | `cmos_read`, `read_h`, `read_m`, `read_s` | system calls |
| VGA and BIOS calls (`vga.c`, `bios.n`) | video mode, the pages at 0x7C00, the vectors of the interrupt controllers, the stack pointer saved for the way back | `init_vga`, `int32`, `resetpic`, pixels | leaves protected mode in the middle of a system call and comes back with interrupts on |
| PCI (`pci.c`) | configuration space, the base address registers in it | bus scan, BAR analysis, `pci_read_register` and `pci_write_register` in three widths | system call LSPCI (the scan only) |
| File system and ramdisk (`fs.c`, `initrd.c`, `make_initrd.c`) | node table in one page | `read`, `readdir`, `finddir`, `initialise_initrd` | memory manager; no caller yet |
| Strings (`string.c`) | none | `memset`, `memcpy`, `strcmp`, `strcpy`, `strcat`, `strlen` | ELF loading copies and compares with it |
| Serial, port I/O | none | single port instructions | console |

**What is hard.** There is one processor, and every IDT entry is an interrupt
gate, so a handler runs with IF = 0 and, with one exception, is not preempted.
Concurrency comes from elsewhere:

- the timer may hit any program, and `init()` itself, between any two
  instructions, and swaps the whole processor context by returning another
  stack pointer. What is saved where depends on `current_task`, on `tss[1]`
  and on what earlier system calls did to both;
- `kexit` returns to the program that called it. Until the next tick that
  program runs under another task's identity;
- programs load programs while others leave: the list grows at its head and
  loses members anywhere while `schedule` walks it, one element per tick;
- the exception is SVGA: `int32` returns with interrupts on, so the rest of that
  system call is preempted in ring 0, on a kernel stack `tss[1]` knows nothing of,
  where an interrupt's frame is two words shorter than `schedule` takes it to be;
- programs are copied to the addresses they were linked for, over whatever is
  there, by loops that share one buffer for the names of all modules;
- an access to a PCI register overwrites the base address register it goes
  through, and has to undo it on every path;
- nothing is ever freed, `NULL` is not checked, and page 0 is an ordinary page
  whose address is `NULL`;
- handlers that loop (LOADF over the modules with a `uint8_t`, GETCHAR on the
  keyboard controller, `kexit` along the list) loop with interrupts off;
- address arithmetic in `pmm_init` is 32 bits wide over 64-bit inputs.

**What makes each component correct.**

- *Tasks*: the list holds the live tasks, each once; every live task gets its
  turn; what is saved for a task is its own context; EXIT ends its caller and
  nobody else; stacks and structures never share a page.
- *Interrupts*: the caller of a system call is the current task; what the
  return loads is what was saved; each tick that arrives is served.
- *Memory*: free = reported free minus in use; a page has one owner; the
  set-up loops end.
- *Boot*: nothing can happen before what it needs is set up.
- *ELF loading*: the modules of the wanted name are started and no others; a
  program starts as its file has it; a running program's code stays.
- *BIOS calls*: a call returns; no frame is pushed over a stack in use.
- *Console and info line*: the screen shows the end of what was printed; the
  info line disturbs neither the text nor the cursor.
- *Keyboard*: each key press reaches one reader once.
- *Timer, clock*: the tick count counts ticks; a time read is a time the clock
  showed.
- *PCI*: sizes are right; an access goes where the BIOS put the device and
  leaves its registers alone; searches stop.
- *Ramdisk, strings*: results equal their reference definitions; nothing outside
  a buffer is written.

The list of hazards, each with its line and the properties that cover it, is
in `PROJECT.json`. A hazard that the properties leave out, by a hypothesis, a guard
or an assumption, names no property there but says which one leaves it out and why.

## 2. Plan

In order of importance; all of it is done but for the last item.

1. `Pages`, `Tasks`: the task list, the scheduler, the system calls that touch
   tasks, and the processor context. `Turns`, the scheduler without pointers,
   which `Tasks` implements. `TasksProofs`: the invariants and the refinement.
2. `PageAlloc` (what callers rely on), `Pmm` (the bitmap and `pmm_init`), that the
   second implements the first, and the proofs of both in `PmmProofs`.
3. `Interrupts`: the controllers, the gates and the end-of-interrupt commands;
   it justifies what `Tasks` and `Keyboard` assume, that a handler is not
   interrupted and that the timer comes again. `KernelStack`: what is left of
   that where SVGA comes back with interrupts on.
4. `Strings`, `Loader`: programs at fixed addresses against pages in use.
5. `Console` and the info line, against a reference definition of what a screen
   shows. `Keyboard`: the controller's buffer, the two pollers and the interrupt.
6. `PciBar`, `PciRegister`, `Clock`: algorithms against devices that change or are
   changed meanwhile.
7. `DeviceProofs`, `ConsoleProofs` and a module of proofs for each of the other
   components: every safety property that a run checks, for all constants.
8. Left: exits in `KernelStack`, so that `kexit` may meet a task whose SVGA call is
   preempted.

`Tasks`, `Loader` and `Pmm` share `Pages`: each takes its pages with the same
`pmm_alloc` operator, which `Pmm` shows its bitmap to implement.
`PciRegister` extends `PciBar`: the analysis and the accesses work on the same
registers. No module uses a `RECURSIVE` operator; constants have named
assumptions; invariants are conjunctions of named parts.

## 3. What is modelled

### Pages, Tasks

A page is its number, so page 0 *is* `NULL`. `Tasks` keeps the task list as the
code does: `next`, `pid` and `cpu_state` are functions of the page a
`struct task` is on, `first_task` and `current_task` are pages. What the
registers hold is abstracted to *whose* they are: `running` is the program in
the processor (0 for `init()`), `frame[p]` the program whose `cpu_state` lies at
the top of kernel stack page `p`, `tss` the stack page in `tss[1]`. That is
exactly what the interplay of `schedule`, `kexit` and the interrupt stub is
about: an interrupt stores `running` into `frame[tss]`, `schedule` stores `tss`
into the current structure, and the return loads the next one's frame.

| Action | Code |
|---|---|
| `InitMultitasking` | `init_multitasking`: the first module named `init.bin`, if it is an ELF file; interrupts are already on |
| `InitTask` | `init_task`: three `pmm_alloc` calls unchecked, the frame, the list's head, the counters |
| `Timer`, `TimerNoTask` | the stub, `handle_interrupt`'s timer case, `schedule` |
| `PlainSyscall` | all system calls without effect on tasks |
| `LoadfEnter`, `LoadfStep`, `LoadfReturn` | LOADF's loop over the modules with its narrow counter |
| `GetcharEnter`, `GetcharReturn` | GETCHAR, which waits with interrupts off |
| `KexitHead` | EXIT when the current task heads the list |
| `KexitEnter`, `KexitSkip`, `KexitUnlink`, `KexitReturn` | EXIT otherwise, one step per iteration of the walk, which goes on after the task has been unlinked |
| `KexitNull` | the walk or a comparison reads through `NULL` |
| `Halt` | an exception or REBOOT |

`kmode` says which handler runs; while it is not `user` or `boot` no interrupt
comes in, as IF = 0. `kmode = "wild"` stands for what the source does not
determine: the kernel has gone on through address 0. It gets there in three
ways, all of them reachable: a tick before any task is linked or after the last
one has left (`TimerNoTask`), memory running out (`InitTask` with no page for
the structure or a kernel stack), and `kexit` after the tail of the list has
left (`KexitNull`). Properties of the list and of memory say nothing about such
a state; `ProcCount` and `ContextKept` do.

A structure on a page keeps its values when the task leaves, since nothing
frees or clears it; `schedule` relies on this when it goes on from a
`current_task` that is off the list.

`PostExit` is the set of system calls a program still makes between its EXIT
and the next tick, which the kernel leaves to it. The runs with a full set
leave out only "EXIT" itself: a second EXIT in that slice unlinks the next task,
which has not exited, and counts it off. The one user of EXIT in the repository
(`init.c:23-27`) spins.

### Turns

What the scheduler promises, with no list, stacks or walk: the live tasks take
turns in a circle, from the youngest to the oldest and round again. `Tasks`
implements it (`ImplementsTurns`): `turn` is the task on whose structure
`current_task` is, `live` the tasks between `init_task` and `kexit`, also while
`kexit` walks the list. `PassOn` is the one thing a reader may not expect: when
`kexit` has made the successor current, what is left of the time slice is the
successor's turn.

### PageAlloc, Pmm

`Pmm` follows `pmm_init` loop by loop, one action per iteration, over a memory
map with bases and lengths that may exceed the 32-bit addresses the code
truncates them to (`Span` is the wrap). A word of the bitmap is the set of its
1 bits. `PageAlloc` is what the callers rely on: set-up may do what it likes,
then each call takes the lowest free page away for good. `Tasks` uses the same
`pmm_alloc` operator, so the two models meet in `Pages`.

### Strings, Loader

A machine's memory is modelled by what is in it: a cell holds a part of a module's
file, zero, or anything else. `LoaderInit` puts the modules where the boot loader
did and dirt everywhere else; `InitElf` clears and copies each segment to its
address, header by header, skipping those that are not to be loaded, and takes
the three pages of `init_task`; programs write to their data, stacks and
structures as they like, and exit. `strcpy`, `strcmp`, `memset` and `memcpy` are
those of `string.c`, with what is odd about them: `strcpy` copies no NUL, and
`strcmp` never returns -1. The two loops that look for names, in
`init_multitasking` and LOADF, share the buffer trick of `intr.c:453`: spaces,
then the name, then a NUL put in by hand.

Assumed (`LoaderAssumption`, `PlacesAssumption`): names are not empty and fit the
buffer; files and segments lie clear of each other and of `Handed`, the pages that
`MaxTasks` tasks get from `pmm_alloc`, NULL included; headers do not ask for more than
the file has. That segments are clear of pages is not the code's doing: `tasks.c:121`
says in a FIXME that nothing checks it. `StartsWhole` and `CodeKept` hold under these
assumptions only.

### KernelStack

What `Tasks` cannot see: where on its page a kernel stack is. A place is a depth in
words. A frame has 14 words, or 12 when the interrupt came in ring 0, where `esp`
and `ss` are not pushed; `schedule` sets `tss[1]` to `new_cpu + 1` in either case.
SVGA goes through `enter` (to the switch), `bios` (real mode, where the BIOS has the
timer), `back` and `tail`, which is the rest of the system call with interrupts on;
`TailPoints` are the depths at which a tick may meet it. A task that was preempted
there continues two words deeper than `tss[1]` says is free, and its next system
call starts there: `StackBounded` says how far the beginning of a stack sinks,
`StacksIntact` that nothing is overwritten all the same. After some dozen preempted
calls the stack leaves its page (`overrun`), which ends the model. The list is a
ring of `NTasks` tasks here; exits are in `Tasks`. `resetpic` runs on each way
through `int32` and drops what is pending; a tick with the BIOS's vectors in
protected mode would be exception 8 (`Halt`).

### Console

Video memory as rows of cells, the cursor, `scrole`; a call is one step because
every caller has interrupts off. (During boot interrupts are on, but a tick
there never returns to `init()`, so no printing is resumed after being
interrupted.) `lines` is a history variable: the text printed since the last
`clrscr`, broken into lines by the definition of a line rather than by the
cursor. Colour, the serial copy and the parsing of `%` are left out: no property
is about them. The loops over a string and over a number's digits are recursive
functions. `InfoAssumption` says of the label what the code's has: no digits, and
60 columns of room behind it, where a number has at most ten digits. `SETX` and
`SETY` are not checked by the code, so `Positions` may lie anywhere; `kprintf`'s guard
`y < MemRows - 2` bounds how far below the screen the model follows the cursor.

### Keyboard

The controller and the keyboard are external, modelled from how the code uses
ports 0x60 and 0x64: a one-byte buffer, a flag, an interrupt on the byte that
fills it, and the last byte again for whoever reads an empty buffer. In the
code: the three steps of `init_keyboard`, which run with interrupts on; the
handler; GETCHAR's loop and GETMOV, which do not look at the flag. Scancodes are
reduced to the press they belong to and whether they have a character.

### Interrupts

The gates of `init_intr`, the steps of `handle_interrupt` and the way back through
the stub; the two controllers are external, modelled from how `init_pic` programs
them: vectors from 0x20, the slave on line 2, all lines on, fully nested
priorities, nonspecific end-of-interrupt commands. `active` is the stack of
running handlers; that it never holds more than one follows from the gates'
type, and the mutant of `Enter` shows what would happen otherwise. A device line
without a gate, any but the timer's and the keyboard's, leads to an exception,
which stops the kernel. `NoTask` ends the model where `Tasks` goes wild.

### PciBar

One action per kind of register in `pci_config_bar_analyze`, one step per
iteration of the loop; a 32-bit value is the set of its 1 bits. The device is
external: each register has fixed low bits and some address bits that can be
written, and which is chosen when the loop gets there. Nothing calls this part
of the code yet.

### PciRegister

`pci_read_register` and its five relatives, which go through the same steps and
differ in the width and the direction of the last one: read the base address
register, write ones, read back, find the size, write the old value again,
access. One action per configuration access, after an analysis by `PciBar`'s
actions or without one. `AccessHits` leaves out the registers that the functions
do not know, 20- and 64-bit memory, which they take for ports (`OtherMemory`).
That `pci_read_register_32` returns 16 bits, and that the result is uninitialised
after an error, is not modelled.

### Clock

The clock chip is external: fields, a number format, and an update that is
announced 244 microseconds before it starts, which is enough from the end of the
wait to the byte, as interrupts are off: `init.c:54` comes before `init_intr`, and
the system calls are handlers. `Poll`, `Read` and `Convert` are the
steps of `read_h`, `read_m` and `read_s` in which the chip may move on. The
readings of the three fields come in any order, since `init.c:54` calls them as
arguments of one call, which C leaves unordered, and programs call them as they
like. `ReadWasShown` is about each; `TimeOfDay` says what is left of the time put
together: read around a full hour it may be off by almost an hour, but only
backwards when the hour is read first, and only forwards when the second is. The
timer's half is the 16-bit reload value and the count that RTICK and GTICK use.

## 4. What is checked

| Run | Shows |
|---|---|
| `tasks` | `RunList`, `CallerIsCurrent`, `ThiefIsNewer`, `ProcCount`, `OwnMemory`; `RoundRobin`, `HandlersReturn` and the refinement of `Turns`: with up to six tasks, four modules (two of the same name, a text file between), 18 free pages in three ragged ranges with page 0 among them |
| `pmm` | `KernelStaysReserved` and the refinement of `PageAlloc` for ragged, wrapping and high regions and packed modules; `Exact` where regions and modules are page-aligned, `InitEnds` where no region and no module ends in the last page |
| `loader` | `LoadsNamed`, `StartsWhole`, `CodeKept`, for three lists of modules |
| `kernel_stack` | `StacksIntact`, `StackBounded`, `SvgaReturns` |
| `console` | `ShowsTail`, `InfoDrawn` |
| `keyboard` | `NoLostInterrupt`, `KeysInOrder`, `GetcharReturns` |
| `interrupts` | `InService`, `EndsOwn`, `IrqServed` |
| `pci` | `SizeIsRight`, `RejectsOnlyInvalid`, `StaysInBars` of the analysis; `BarRestored`, `AccessHits` of the accesses |
| `clock` | `ReadWasShown`, `TimeOfDay`, `ReadEnds`; `ReloadRight` |
| `context_lost`, `svga_scratch`, `search_zero` | the findings below |

The type invariants of `Pmm`, `Loader`, `Console`, `Keyboard` and `Clock` are
checked with these; those of the other modules are proved (section 5), and listing
them in a run as well would add nothing.

**Bounds, and why they are enough.** Six tasks: a task can be the head, the
tail or inside the list, leave while another is left before and behind it, with
one task loaded by a program that has already exited. Four modules: LOADF loads
none, one, or two files in one call, and meets a file of the right name that is
no ELF file. `IndexSpan` = 5 in the run puts LOADF's counter at its last safe
value, Len + 1; 256 in the code. Exactly 3 pages per task are provided in
`tasks`, so that memory ends with the last task. Sixteen pages in words of four
bits give the bitmap's loops several words, and regions that start, end and
cross words anywhere.

`loader` has 26 pages of two cells, which is enough for a page that is half used;
five modules, of which two have one name and the same addresses, one has a name
that begins with theirs, one is a text; and lists without init and with a text of
init's name in front of it. Five tasks are init and four loads, so that each
program can be loaded over itself and over the other. `kernel_stack` has two tasks
on stacks of 54 words, room for two preempted calls at the deepest point and for
the overrun after the next; a handler's depth of 9 is smaller than any real one
but larger than what the frames differ by. `svga_scratch` needs a third task,
whose user stack is page 7.

The screen has four columns and two rows of text, so that scrolling starts with the
third line, and two rows of memory behind the four it shows. The numbers are one digit and
the widest that fits behind the label; programs put the cursor into the last column or
the info line (3) and beyond both columns and memory (6). Six characters end a line, fill
the next, and scroll when it breaks. Three presses
are enough for one key read, one in the buffer and one on the way. Three lines,
one of them the slave's, are all kinds of lines there are. The registers of
`pci` have every combination of low bits with regular address bits of
several sizes, with holes, with the top missing and with none, and base addresses
with no, some and all bits. The clock is read
from two seconds before a full ten hours, a minute and midnight on, over three
seconds; `TickLimit` is 1 for 1000000, and the ticks go around twice.

`CHECK_DEADLOCK` is on everywhere: `StayStopped`, `StayHalted`, `Stopped`, `StayOver`,
`Ended` and `Searching` mark the states in which the kernel or the algorithm really
stops or hangs, `AllocFails` the call that finds nothing.

**Fairness.** `Tasks`: weak fairness of the kernel's own loops, since the
processor goes on executing them; strong fairness of the timer, because the PIC
keeps a tick that comes while IF = 0 and delivers it at the first `iret`, so a
program cannot keep it out by entering the kernel again and again, although it
is not enabled while a handler runs. `RoundRobin` has as hypothesis that GETCHAR
does not wait for ever, which is the user's part. `Pmm`: weak fairness of its
steps. `Keyboard`: weak fairness of the poll and of the controller; none of
programs, people or interrupts. `Interrupts`: weak fairness of a running handler;
strong fairness of the delivery of each line, since a request stays pending; and
that devices are slow (the timer runs at some 28 Hz): if
interrupts are on again and again, then also at times at which no line of a
higher priority is pending. `KernelStack`: weak fairness of the kernel's own steps and of a
tick that is pending with interrupts on, since the processor executes the one and
takes the other; strong fairness of ticks arriving in programs, as not all of them
fall into the BIOS's time, and of each task's tail, as there is time for some
instructions between two ticks. `Loader` states only safety. `Clock`: an announced update begins and ends, and the
loop that waits for its end looks often enough.

**Findings**, each shown by a run with the text it contradicts:

1. `context_lost`. `kexit` makes the successor current and returns to the
   exiting program; the next tick saves that program's context in the
   successor's structure. The successor is never seen again, and the exited
   program runs in its turns. `ThiefIsNewer` and `RoundRobin` say how far the damage
   goes: only that one slot, and all others still get their turn.
2. `svga_scratch`. `int32` copies itself and its 16-bit stack to 0x7C00 and below, in
   a page that `pmm_alloc` hands out: on a PC it is the third task's user stack.
3. `search_zero`. The six functions that access a PCI register search for its lowest
   bit before they compare it with 0, against what the search itself asks for
   (`pci.c:101`): with a register that is not there they never return.

**Known limits of memory**, all of them in the models and left out by the
properties named, each a hazard in `PROJECT.json`: pages are never freed and `NULL`
never checked, so that stacks end up shared on page 0 (`OwnMemory` holds until
then); the first page handed out is page 0 anyway, whose address is `NULL`, and
becomes the kernel stack of pid 1 (`TcbNotNull`, proved, says that no task
structure gets there); the end of a module that starts within a page is free,
although `mm_phys.c:66` says modules are reserved, since the multiboot header does
not ask for aligned ones (`Exact` assumes them); RAM above 4 GB frees pages below
it, although `mm_phys.c:33-34` says that only what is reported free is freed (`Exact`
excludes it); `pmm_init` loops for ever when a region or a module ends in the last page
below 4 GB (`InitEnds`).

Not findings, since no text of the repository says otherwise or no caller is
touched, but worth knowing: LOADF loops for ever with 256
modules or more; a second EXIT in the same time slice takes another task off the
list; when the oldest of several tasks exits, `current_task` becomes
`NULL` as if no task had ever run; each preempted SVGA call costs the task some of
its kernel stack for good; a character is lost when two newlines meet at the bottom
of the screen (`ShowsTail` holds without `gap` only if they do not); a key that is
held is read again by every GETCHAR; a byte that arrives between the enable
command and the handler's registration blocks keyboard interrupts until a
program polls; an interrupt of any device but the timer and
the keyboard stops the kernel; `strcmp` never returns the -1 its comment
(`string.c:30-31`) promises, and `strcpy` copies no NUL, against `string.c:52-53`; 5 Hz
do not fit the timer's 16 bits, and it runs at 28 (`ReloadRight`: 19 is the least
that fits, so it says nothing of the 5 the kernel asks for); GETCHAR without a key
keeps everything else waiting, which the liveness properties exclude.

## 5. What is proved

`TasksProofs` proves for any memory, any modules, any number of tasks:

- `TypeCorrect`: `[]TypeOK`, with no assumption on programs;
- `ProcCountCorrect`, `RunListCorrect`, `SuccessorCorrect`, `CallerCorrect`,
  `ThiefCorrect`, `OwnMemoryCorrect`: the safety invariants of `tasks`,
  under the assumption `"EXIT" \notin PostExit` explained above;
- `TurnsImplemented`: every step of the linked list's code is a step of `Turns` or
  leaves it alone, from the same invariant and under the same assumption;
- `TurnNears` and `LoopsAdvance`: the safety halves of `RoundRobin` and
  `HandlersReturn`. The tasks whose turns come before a waiting task's (`Waiting`) are
  joined by a new task at most, and each tick takes one away until it is the
  task's turn; each iteration of `kexit` has fewer tasks `Ahead`, and each of LOADF
  raises `i` by one as long as there are fewer than 256 modules.

**The argument.** None of the safety invariants is inductive. That `kexit`
unlinks the right task (`RunList`) needs that the task `current_task` stands
for is the caller (`CallerIsCurrent`), which needs that the frame loaded by the
last switch was that task's own (`ThiefIsNewer`, `CpuInv`), which needs that
stacks are on pages of their own (`OwnMemory`), which needs that structures are
not overwritten (`TcbNotNull`, `PidInv`). `IInv` is their conjunction with

- `ContextInv`: only contexts that were created are anywhere;
- `PidInv`: a pid names one structure;
- `CpuInv`: the processor, its kernel stack and `current_task` belong together,
  except for an exited program, which may run in the slot of an older one;
- `WalkInv`: where `kexit`'s pointer is, before and after the unlinking: it has
  only newer tasks behind it, or is past the point where anything can match.

`Invariance` proves it action by action; `RunList` follows the order of pids,
newest first, rather than the pointers, so the list needs no induction over its
length: each live task's `next` is the newest of the older ones (`Newest`,
`Older`), which excludes cycles, losses and strangers.

`InterruptsProofs` proves for any set of devices `InterruptsTypeOK`, `InService`
and `EndsOwn`. `IInv` says that the kernel is at `Rest`, with interrupts on and
nothing in service, or `Serving` exactly one handler with interrupts off; what is
in service then depends on how far the handler is. Only the timer's and the
keyboard's lines can get there, as others have no gate, which is why the slave's
command is never reached.

`PmmProofs` proves for any number of pages, any page and word size and any layout
of memory (`LayoutsAssumption` has the types, and the kernel's ends at page
boundaries, as `kernel.ld` puts them) all of `Pmm`'s safety properties:
`KernelStaysReserved`, `Exact`, `PmmTypeOK` and the refinement of `PageAlloc`, with
that no page is handed out twice. `InitDescends` is the safety half of `InitEnds`: each
step of `pmm_init` lowers the loops left (`Stage`), the entries left of the present one
(`Entries`) or the address space left to the inner one (`Bytes`), in that order, all
natural numbers, where nothing ends in the last page. `IInv` says that while the kernel's pages are taken
back, those below `addr` are done, and that free and handed out never meet.
`ExactInv` gives the set of free pages at each point of each loop, as what is reported
by the regions done so far and the pages between a region's base and `addr`; it
needs that no loop wraps, which is where whole pages below the end of the address
space come in, and it has to admit the loop over a module in the last page, which
wraps and never ends. The arithmetic the provers cannot do alone, of quotients and
multiples of a constant page size, is in the lemmas at the beginning.

`KernelStackProofs` proves for any number of tasks, any size of a stack and any depths
`KernelStackTypeOK`, `StacksIntact` and `StackBounded`. The invariant says for each
task where what is saved of it lies: at the depth `tss[1]` had when it entered the
kernel, or, if its call was preempted, between that and the place the next frame
may begin.

`KeyboardProofs` proves for any number of presses `KeyboardTypeOK`, `NoLostInterrupt` and
`KeysInOrder`. The order of keys needs to be an invariant of all bytes under way: in
the queue, at the port, and in the last reader's register.

`DeviceProofs` proves `StaysInBars` for any registers: `LoopInv` keeps `bar` at or
below `max_bars` and everything overwritten below it; the one step of two
registers needs the check of `pci.c:201`. `SizeIsRight` and `RejectsOnlyInvalid`
follow for each kind of register from `Interval`: the set bits of a regular register
are an interval, so its lowest bit and the number of its bits determine each other.
It also proves `BarRestored` and `AccessHits` for any registers and base addresses:
`Invariance` says what register and backup hold at each step.

Of `Clock` it proves, for any times of day, any number of seconds and any frequencies,
`ClockTypeOK`, `ReadWasShown`, `TimeOfDay` and `ReloadRight`. That a byte is good needs
that no update begins between the wait and the byte (`RawInv`); that the time put
together errs in one direction only follows from the order of the three moments
(`OneByOne`) and an arithmetical fact about mixed fields (`Mixed`).

`LoaderProofs` proves all four properties of `loader`, `LoaderTypeOK`, `LoadsNamed`,
`StartsWhole` and `CodeKept`, for any memory, any modules and any number of tasks, from
the two assumptions named above. `memcpy` and the loop over the headers are recursive
functions; the proof gives a closed form of each (`Copied`, `After`), shows that it
solves the recursion, and that two solutions cannot differ at a least place. `CodeKept`
is inductive together with what the loads rely on: the modules' files are still where
the boot loader put them (`Kept`), and the pages handed out so far are the lowest ones
(`PagesInv`), so that the next ones are in `Handed`. For `LoadsNamed`, `NameMatches` says
that `strcmp` on the shared buffer is equality of names.

`ConsoleProofs` proves for any size of the screen, any label, characters, numbers and
cursor positions (`ConsoleAssumption`, `InfoAssumption`) all of `Console`'s properties:
`ConsoleTypeOK`, `ShowsTail` and `InfoDrawn`. `ShowsTail` is not inductive: that the last
line is in the cursor's row does not say that the next character goes to its end, nor
that the row below is empty when the cursor gets there. `Follows` adds both, with that
the cursor is at most one row below the text, and then in its first column; it holds as
long as nobody else has moved the cursor and no line has ended below the text.
`ShowsNext`, `ShowsScrolled` and `ShowsWritten` are the three things a character does to
it. For `InfoDrawn`, `Drawn` says what each digit leaves of the label, and
`ReadsNumeral` that reading the digits of a number from the left gives the number
back. What the loops compute is reached without the library's induction theorems, which
take an operator: `Induct` is induction over a *set* of numbers, from the well-foundedness
of the naturals, and `Iterates` that a recursion along a *function* has a solution.
`kputs`, the history's lines, a number's digits and a reader's count are each shown to be
such a solution.

Only model-checked: liveness (`RoundRobin`, `HandlersReturn`, `InitEnds`, `SvgaReturns`,
`GetcharReturns`, `IrqServed`, `ReadEnds`), which is out of this prover's reach. For the
first three the measures that decrease are proved; that fairness brings them down to
the end is what the runs add. Every safety property of a passing run is proved.

## 6. What is not modelled

- The virtual file system and the initial ramdisk: nothing in the kernel calls
  `initialise_initrd`, `read`, `readdir` or `finddir`, so there is no state of the
  program they are part of. Widgets: the only call is commented out.
- Serial port and port I/O: single instructions. Configuration and build: no part
  of the running kernel.
- The beginning of boot (`start.S`, most of `init.c`), the GDT, and the descriptor
  tables and segment registers of `int32`'s switches: straight-line code on state
  that nothing else changes.
- RUNK, which calls any address in ring 0, after which nothing holds.
- The bus scans of `pci.c` and its tables of names, which read and print.
- Within modelled components: the register contents of a context, colours and the
  serial copy, `kprintf`'s format, pixels, the key tables' characters, `getchar()` in
  `keyboard.c` and `strcat` (no caller).
- Interactions: what `kexit` does to the list while another task's SVGA call is
  preempted; `KernelStack` has the stacks of such tasks, `Tasks` the exits.
