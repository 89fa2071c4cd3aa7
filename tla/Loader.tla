--------------------------------- MODULE Loader --------------------------------
(***************************************************************************)
(* How programs get into memory: init_multitasking and the system call     *)
(* LOADF find multiboot modules by their name, init_elf copies their       *)
(* segments to the addresses they were linked for, and init_task takes     *)
(* three pages from pmm_alloc for each task (tasks.c, intr.c, string.c).   *)
(*                                                                         *)
(* The addresses of segments are nobody's to allocate, so memory is        *)
(* modelled by what is in it.  It consists of cells, PageCells to a page;  *)
(* the content of a cell is a part of a module's file, zero, or anything   *)
(* else.  Scheduling is left out: Tasks has it.                            *)
(***************************************************************************)
EXTENDS Pages, Strings, FiniteSets

CONSTANTS
  PageCells,    \* cells a page has
  FreePages,    \* the pages pmm_init left free
  ModuleLists,  \* the multiboot modules there may be, as sequences of
                \* [cmdline, start, size, segments]; a text has no segments
  InitName,     \* "/system/init.bin"
  Requests,     \* the names programs pass to LOADF
  BufSize,      \* sizeof(buf): 64
  MaxTasks      \* bound: tasks that are started

Cell == 0 .. NPages * PageCells - 1

\* A program header: what of the file goes where in memory.
Segment ==
  [load : BOOLEAN, offset : Nat, virt_addr : Cell, file_size : Nat,
   mem_size : Nat, writable : BOOLEAN]

Name == Seq(STRING \ {NUL})

Module ==
  [cmdline : Name, start : Cell, size : Nat \ {0}, segments : Seq(Segment)]

ASSUME LoaderAssumption ==
  /\ PageCells \in Nat \ {0}
  /\ FreePages \subseteq Page
  /\ ModuleLists \subseteq Seq(Module)
  /\ Requests \cup {InitName} \subseteq Name
  /\ BufSize \in Nat \ {0}
  /\ MaxTasks \in Nat
  /\ \A list \in ModuleLists : \A m \in DOMAIN list :
       Len(list[m].cmdline) \in 1 .. BufSize - 1

FirstCell(page) == page * PageCells
LastCell(page)  == page * PageCells + PageCells - 1
Cells(page)     == FirstCell(page) .. LastCell(page)

FileCells(module) == module.start .. module.start + module.size - 1
SegmentCells(s)   == s.virt_addr .. s.virt_addr + s.mem_size - 1

\* The pages that MaxTasks tasks get, NULL when there are no more.
Handed ==
  {NULL} \cup
  {p \in FreePages : Cardinality({q \in FreePages : q < p}) < 3 * MaxTasks}

LoadableOf(module) == {n \in DOMAIN module.segments : module.segments[n].load}

\* What a segment's header may say of a module, and of where it is loaded:
\* clear of the modules, of the program's other segments, and of the pages
\* that tasks get.  The last the kernel does not see to: see the README.
Placed(list, m, n) ==
  LET s == list[m].segments[n] IN
  /\ s.file_size <= s.mem_size
  /\ s.offset + s.file_size <= list[m].size
  /\ SegmentCells(s) \subseteq Cell
  /\ \A k \in LoadableOf(list[m]) \ {n} :
       SegmentCells(s) \cap SegmentCells(list[m].segments[k]) = {}
  /\ \A l \in DOMAIN list : SegmentCells(s) \cap FileCells(list[l]) = {}
  /\ \A p \in Handed : SegmentCells(s) \cap Cells(p) = {}

ASSUME PlacesAssumption ==
  \A list \in ModuleLists : \A m \in DOMAIN list :
    /\ FileCells(list[m]) \subseteq Cell
    /\ \A l \in DOMAIN list \ {m} : FileCells(list[m]) \cap FileCells(list[l]) = {}
    /\ \A p \in Handed : FileCells(list[m]) \cap Cells(p) = {}
    /\ \A n \in LoadableOf(list[m]) : Placed(list, m, n)

VARIABLES
  modules,      \* what the boot loader has loaded, by mbs_mods_addr
  mem,          \* what each cell holds
  bitmap,       \* the pages that are free
  mode,         \* init_multitasking, a program, LOADF; or out of memory
  i,            \* the loop counter of both
  buf,          \* the buffer for a module's name of both
  wanted,       \* the name they look for
  tasks,        \* the tasks started, with their modules and pages
  live,         \* the numbers of those that have not exited
  since         \* history: how many tasks there were before the call

loaderVars == <<modules, mem, bitmap, mode, i, buf, wanted, tasks, live, since>>

\* What a cell may hold: cell n of module m's file, from 0 on; or other data.
Part(m, n) == <<m, n>>
Zero       == <<0, 0>>
Other      == <<0, 1>>

Image(m) == FileCells(modules[m])

Content ==
  {Zero, Other} \cup
  UNION {{Part(m, n) : n \in 0 .. modules[m].size - 1} : m \in DOMAIN modules}

Task == [module : DOMAIN modules, stack : Page, user_stack : Page, tcb : Page]

LoaderTypeOK ==
  /\ modules \in ModuleLists
  /\ mem \in [Cell -> Content]
  /\ bitmap \subseteq FreePages
  /\ mode \in {"boot", "user", "loadf", "wild"}
  /\ i \in 0 .. Len(modules)
  /\ DOMAIN buf = 1 .. BufSize
  /\ wanted \in Requests \cup {InitName}
  /\ tasks \in Seq(Task)
  /\ live \subseteq DOMAIN tasks
  /\ since \in 0 .. Len(tasks)

\* 63 spaces, and the NUL behind them.
Spaces == [n \in 1 .. BufSize |-> IF n < BufSize THEN " " ELSE NUL]

\* The boot loader has loaded the modules; RAM is not cleared.
LoaderInit ==
  /\ modules \in ModuleLists
  /\ mem = [a \in Cell |->
              IF \E m \in DOMAIN modules : a \in Image(m)
                THEN LET m == CHOOSE m \in DOMAIN modules : a \in Image(m)
                     IN  Part(m, a - modules[m].start)
                ELSE Other]
  /\ bitmap = FreePages
  /\ mode = "boot"
  /\ i = 0
  /\ buf = Spaces
  /\ wanted = InitName
  /\ tasks = << >>
  /\ live = {}
  /\ since = 0

--------------------------------------------------------------------------------
(* Names.                                                                  *)

\* Mutant: the end of the name is not marked.
NameBuf_NoEnd(cmdline) == strcpy(strcpy(buf, SubSeq(Spaces, 1, BufSize - 1)), cmdline)

\* buf after the spaces, the module's name and the NUL have gone into it.
NameBuf(cmdline) ==
  [strcpy(strcpy(buf, SubSeq(Spaces, 1, BufSize - 1)), cmdline)
     EXCEPT ![Len(cmdline) + 1] = NUL]

--------------------------------------------------------------------------------
(* init_elf.                                                               *)

Loadable(m) == LoadableOf(modules[m])

\* Mutant: no more than the file has is cleared.
LoadSegment_NoBss(memory, m, s) ==
  memcpy(memset(memory, s.virt_addr, Zero, s.file_size),
         s.virt_addr, modules[m].start + s.offset, s.file_size)

LoadSegment(memory, m, s) ==
  memcpy(memset(memory, s.virt_addr, Zero, s.mem_size),
         s.virt_addr, modules[m].start + s.offset, s.file_size)

\* All program headers in turn; those of another type are skipped.
LoadSegments(m) ==
  LET loaded[n \in 0 .. Len(modules[m].segments)] ==
        IF n = 0 THEN mem
        ELSE IF n \in Loadable(m)
               THEN LoadSegment(loaded[n - 1], m, modules[m].segments[n])
               ELSE loaded[n - 1]
  IN  loaded[Len(modules[m].segments)]

\* The magic number, and the headers, are in the file's first cell.
IsElf(m) == modules[m].segments # << >> /\ mem[modules[m].start] = Part(m, 0)

\* Mutant: the task is numbered before it is added.
InitTask_NumberedBefore(memory, m) ==
  /\ Len(tasks) < MaxTasks
  /\ \E s, u, t \in Page :
       /\ pmm_alloc(bitmap, s)
       /\ pmm_alloc(bitmap \ {s}, u)
       /\ pmm_alloc(bitmap \ {s, u}, t)
       /\ bitmap' = bitmap \ {s, u, t}
       /\ mem' = [memory EXCEPT ![LastCell(s)] = Other, ![FirstCell(t)] = Other]
       /\ tasks' = Append(tasks, [module |-> m, stack |-> s, user_stack |-> u, tcb |-> t])
       /\ live' = live \cup {Len(tasks)}

\* init_task writes the initial cpu_state to the top of the kernel stack and
\* the structure to the start of its page.
InitTask(memory, m) ==
  /\ Len(tasks) < MaxTasks
  /\ \E s, u, t \in Page :
       /\ pmm_alloc(bitmap, s)
       /\ pmm_alloc(bitmap \ {s}, u)
       /\ pmm_alloc(bitmap \ {s, u}, t)
       /\ bitmap' = bitmap \ {s, u, t}
       /\ mem' = [memory EXCEPT ![LastCell(s)] = Other, ![FirstCell(t)] = Other]
       /\ tasks' = Append(tasks, [module |-> m, stack |-> s, user_stack |-> u, tcb |-> t])
       /\ live' = live \cup {Len(tasks')}

OutOfMemory == Cardinality(bitmap) < 3

InitElf(m, nextMode) ==
  \/ /\ IsElf(m)
     /\ InitTask(LoadSegments(m), m)
     /\ mode' = IF OutOfMemory THEN "wild" ELSE nextMode
  \/ /\ ~IsElf(m)
     /\ mode' = nextMode
     /\ UNCHANGED <<mem, bitmap, tasks, live>>

--------------------------------------------------------------------------------
(* The two loops over the modules.                                         *)

Matches(n) == strcmp(NameBuf(modules[n].cmdline), wanted) = 0

\* init_multitasking: the first module of that name, if it is a program.
BootStep ==
  /\ mode = "boot"
  /\ i < Len(modules)
  /\ i' = i + 1
  /\ buf' = NameBuf(modules[i'].cmdline)
  /\ IF Matches(i')
       THEN InitElf(i', "user")
       ELSE UNCHANGED <<mem, bitmap, mode, tasks, live>>
  /\ UNCHANGED <<modules, wanted, since>>

BootDone ==
  /\ mode = "boot"
  /\ i >= Len(modules)
  /\ mode' = "user"
  /\ UNCHANGED <<modules, mem, bitmap, i, buf, wanted, tasks, live, since>>

\* What LOADF is to start, of the first n modules.
Programs(name, n) ==
  {m \in 1 .. n : modules[m].cmdline = name /\ modules[m].segments # << >>}

LoadfEnter ==
  /\ mode = "user"
  /\ live # {}
  /\ wanted' \in Requests
  /\ Len(tasks) + Cardinality(Programs(wanted', Len(modules))) <= MaxTasks
  /\ mode' = "loadf"
  /\ i' = 0
  /\ buf' = Spaces
  /\ since' = Len(tasks)
  /\ UNCHANGED <<modules, mem, bitmap, tasks, live>>

\* LOADF: every module of that name that is a program.
LoadfStep ==
  /\ mode = "loadf"
  /\ i < Len(modules)
  /\ i' = i + 1
  /\ buf' = NameBuf(modules[i'].cmdline)
  /\ IF Matches(i')
       THEN InitElf(i', "loadf")
       ELSE UNCHANGED <<mem, bitmap, mode, tasks, live>>
  /\ UNCHANGED <<modules, wanted, since>>

LoadfReturn ==
  /\ mode = "loadf"
  /\ i >= Len(modules)
  /\ mode' = "user"
  /\ UNCHANGED <<modules, mem, bitmap, i, buf, wanted, tasks, live, since>>

--------------------------------------------------------------------------------
(* Programs.                                                               *)

ProgramCells(module) ==
  UNION {SegmentCells(module.segments[n]) : n \in LoadableOf(module)}

DataCells(module) ==
  UNION {SegmentCells(module.segments[n]) :
           n \in {l \in LoadableOf(module) : module.segments[l].writable}}

\* A task runs: it, or the kernel on its behalf, writes to its data, its
\* stacks and its structure.
Work(t) ==
  /\ mode = "user"
  /\ t \in live
  /\ \E a \in DataCells(modules[tasks[t].module]) \cup Cells(tasks[t].stack) \cup
               Cells(tasks[t].user_stack) \cup Cells(tasks[t].tcb) :
       mem' = [mem EXCEPT ![a] = Other]
  /\ UNCHANGED <<modules, bitmap, mode, i, buf, wanted, tasks, live, since>>

Exit(t) ==
  /\ mode = "user"
  /\ t \in live
  /\ live' = live \ {t}
  /\ UNCHANGED <<modules, mem, bitmap, mode, i, buf, wanted, tasks, since>>

\* Nothing runs any more, or nothing is known any more.
Over == mode = "wild" \/ (mode = "user" /\ live = {})

StayOver == Over /\ UNCHANGED loaderVars

LoaderNext ==
  \/ BootStep \/ BootDone
  \/ LoadfEnter \/ LoadfStep \/ LoadfReturn
  \/ \E t \in live : Work(t) \/ Exit(t)
  \/ StayOver

LoaderSpec == LoaderInit /\ [][LoaderNext]_loaderVars

--------------------------------------------------------------------------------
(* Properties                                                              *)

InitModules == {m \in DOMAIN modules : modules[m].cmdline = InitName}

\* Booting starts the first module with init's name, if it is a program, and
\* nothing else; LOADF, as far as it has come, has started the programs of
\* the wanted name and no others, in their order: neither names of which one
\* begins with the other, nor what an earlier name left in the buffer,
\* confuse the loops (intr.c, tasks.c; the buffer's NUL is put in by hand).
LoadsNamed ==
  /\ mode \in {"user", "loadf"} =>
       IF InitModules # {} /\ modules[Min(InitModules)].segments # << >>
         THEN tasks # << >> /\ tasks[1].module = Min(InitModules)
         ELSE tasks = << >>
  /\ mode = "loadf" =>
       LET new == since + 1 .. Len(tasks) IN
       /\ {tasks[t].module : t \in new} = Programs(wanted, i)
       /\ \A t, u \in new : t < u => tasks[t].module < tasks[u].module

\* What a program's memory holds when it starts, by its file.
Fresh(s, m, a) ==
  IF a - s.virt_addr < s.file_size THEN Part(m, s.offset + a - s.virt_addr) ELSE Zero

\* A program starts as its file has it, the rest of its memory zero, also one
\* that is loaded again, where another has run before or where RAM was dirty.
StartsWhole ==
  [][\A t \in DOMAIN tasks' \ DOMAIN tasks :
       LET m == tasks'[t].module IN
       \A n \in Loadable(m) :
         LET s == modules[m].segments[n] IN
         \A a \in SegmentCells(s) : mem'[a] = Fresh(s, m, a)]_loaderVars

\* The code of a task that has not exited is its program's.  What init_elf
\* copies and programs write is on it only if it was linked for the same
\* addresses: a later program, or the data of an earlier one.
CodeKept ==
  mode # "wild" =>
    \A t \in live :
      LET m == tasks[t].module IN
      \A n \in Loadable(m) :
        LET s == modules[m].segments[n] IN
        ~s.writable =>
          \A a \in SegmentCells(s) :
            \/ mem[a] = Fresh(s, m, a)
            \/ \E u \in t + 1 .. Len(tasks) : a \in ProgramCells(modules[tasks[u].module])
            \/ \E u \in 1 .. t - 1 : a \in DataCells(modules[tasks[u].module])
================================================================================
