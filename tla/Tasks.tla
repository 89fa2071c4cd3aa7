--------------------------------- MODULE Tasks ---------------------------------
(***************************************************************************)
(* The task core of the kernel: the linked list of task structures and     *)
(* the pointers first_task and current_task (tasks.c), the timer interrupt *)
(* that calls schedule(), and the system calls that touch tasks (intr.c).  *)
(*                                                                         *)
(* Interrupt gates clear IF, so a handler is never preempted; a handler    *)
(* that loops (LOADF over the modules, kexit along the list, GETCHAR on    *)
(* the keyboard) is one step per iteration here, and `kmode' keeps every   *)
(* other action out until it returns.  The exception, SVGA, is the subject *)
(* of KernelStack; init_elf's copying that of Loader.                      *)
(*                                                                         *)
(* A processor context (what the registers hold) is named by the pid of    *)
(* the program it belongs to; context 0 is the code of init() itself.      *)
(* `running' is the context in the registers and frame[p] the context      *)
(* whose cpu_state is stored at the top of kernel stack page p.            *)
(***************************************************************************)
EXTENDS Pages, FiniteSets, Sequences

CONSTANTS
  FreePages,    \* the pages pmm_init left free
  Modules,      \* the multiboot modules: a sequence of [name, elf]
  InitName,     \* "/system/init.bin"
  Names,        \* the file names programs pass to LOADF
  IndexSpan,    \* values of the uint8_t loop counter of LOADF (256)
  MaxPid,       \* bound: calls of init_task
  PostExit      \* the system calls a program still makes after its EXIT

ASSUME TasksAssumption ==
  /\ FreePages \subseteq Page
  /\ Modules \in Seq([name : Names, elf : BOOLEAN])
  /\ IndexSpan \in Nat \ {0}
  /\ MaxPid \in Nat \ {0}

VARIABLES
  bitmap,         \* the pages whose bit is set in mm_phys.c's bitmap: free
  next,           \* struct task: next, by the page the structure is on
  pid,            \* struct task: pid; 0 where there is no structure
  cpu_state,      \* struct task: the stack page the saved cpu_state is on
  first_task,
  current_task,
  nextpid,
  proccount,
  frame,          \* the context stored at the top of a kernel stack page
  tss,            \* tss[1]: the stack page an interrupt from ring 3 uses
  running,        \* the context in the processor
  kmode,          \* where the kernel is
  temp,           \* kexit's list pointer
  idx,            \* LOADF's i
  wanted,         \* LOADF's file name
  exited,         \* history: the contexts that have called EXIT
  stack,          \* history: kernel stack page init_task gave to a pid
  user_stack      \* history: user stack page init_task gave to a pid

listVars  == <<next, pid, cpu_state, first_task, current_task>>
countVars == <<nextpid, proccount>>
cpuVars   == <<frame, tss, running>>
memVars   == <<bitmap, stack, user_stack>>
loopVars  == <<temp, idx, wanted>>
vars == <<listVars, countVars, cpuVars, memVars, loopVars, kmode, exited>>

Boot == 0                       \* the context of init(), which has no task
Pid  == 1 .. MaxPid
Ctx  == 0 .. MaxPid

\* boot: init() with interrupts on, before init_task; user: ring 3 code, or
\* init()'s final endless loop; loadf, kexit, getchar: in a handler's loop;
\* halted: cli; hlt; wild: the kernel went on through address 0 as though it
\* were a task or a stack, and its source no longer says what follows.
KMode == {"boot", "user", "loadf", "kexit", "getchar", "halted", "wild"}

TypeOK ==
  /\ bitmap \subseteq FreePages
  /\ next \in [Page -> Page]
  /\ pid \in [Page -> Ctx]
  /\ cpu_state \in [Page -> Page]
  /\ first_task \in Page
  /\ current_task \in Page
  /\ nextpid \in 1 .. MaxPid + 1
  /\ proccount \in Int
  /\ frame \in [Page -> Ctx]
  /\ tss \in Page
  /\ running \in Ctx
  /\ kmode \in KMode
  /\ temp \in Page
  /\ idx \in Nat
  /\ wanted \in Names \cup {InitName}
  /\ exited \subseteq Pid
  /\ stack \in [Pid -> Page]
  /\ user_stack \in [Pid -> Page]

\* init() has executed sti and is about to call init_multitasking.
Init ==
  /\ bitmap = FreePages
  /\ next = [p \in Page |-> NULL]
  /\ pid = [p \in Page |-> 0]
  /\ cpu_state = [p \in Page |-> NULL]
  /\ first_task = NULL
  /\ current_task = NULL
  /\ nextpid = 1
  /\ proccount = 0
  /\ frame = [p \in Page |-> Boot]
  /\ tss = NULL
  /\ running = Boot
  /\ kmode = "boot"
  /\ temp = NULL
  /\ idx = 0
  /\ wanted = InitName
  /\ exited = {}
  /\ stack = [t \in Pid |-> NULL]
  /\ user_stack = [t \in Pid |-> NULL]

--------------------------------------------------------------------------------
(* init_task: three pages, the initial cpu_state, the head of the list.    *)

InitTask(nextMode) ==
  /\ nextpid <= MaxPid
  /\ \E s, u, task \in Page :
       /\ pmm_alloc(bitmap, s)
       /\ pmm_alloc(bitmap \ {s}, u)
       /\ pmm_alloc(bitmap \ {s, u}, task)
       /\ bitmap' = bitmap \ {s, u, task}
       /\ frame' = [frame EXCEPT ![s] = nextpid]
       /\ cpu_state' = [cpu_state EXCEPT ![task] = s]
       /\ next' = [next EXCEPT ![task] = first_task]
       /\ pid' = [pid EXCEPT ![task] = nextpid]
       /\ first_task' = task
       /\ stack' = [stack EXCEPT ![nextpid] = s]
       /\ user_stack' = [user_stack EXCEPT ![nextpid] = u]
       \* Out of memory: the stacks or the structure are now at address 0.
       /\ kmode' = IF bitmap \subseteq {s, u} THEN "wild" ELSE nextMode
  /\ nextpid' = nextpid + 1
  /\ proccount' = proccount + 1

--------------------------------------------------------------------------------
(* init_multitasking, still in the context of init() with IF = 1.  Only    *)
(* the step `first_task = task' matters to a tick that comes in between:   *)
(* one that comes before it finds an empty list.                           *)

InitModules == {i \in DOMAIN Modules : Modules[i].name = InitName}

InitMultitasking ==
  /\ kmode = "boot"
  /\ IF \E i \in InitModules : Modules[i].elf /\ \A j \in InitModules : i <= j
       THEN InitTask("user") /\ UNCHANGED current_task
       ELSE /\ kmode' = "user"
            /\ UNCHANGED <<listVars, countVars, memVars, frame>>
  /\ UNCHANGED <<tss, running, loopVars, exited>>

--------------------------------------------------------------------------------
(* The timer interrupt: handle_interrupt calls schedule() and stores the   *)
(* new stack in tss[1].                                                    *)

\* The processor has pushed the interrupted context on the stack in tss[1],
\* except in init(), which is in ring 0 already and keeps its own stack.
SavedFrame ==
  IF running = Boot THEN frame ELSE [frame EXCEPT ![tss] = running]

\* Mutant: the context is saved after current_task has moved on.
SavedCpuState_AfterAdvance ==
  IF current_task = NULL THEN cpu_state
    ELSE [cpu_state EXCEPT ![IF next[current_task] # NULL
                               THEN next[current_task] ELSE first_task] = tss]

\* schedule: current_task->cpu_state = cpu
SavedCpuState ==
  IF current_task = NULL THEN cpu_state
                         ELSE [cpu_state EXCEPT ![current_task] = tss]

\* Mutant: the search for the next task always starts from the head.
NextTask_Head == first_task

\* schedule: the next task of the list, from the start again at its end.
NextTask ==
  IF current_task # NULL /\ next[current_task] # NULL
    THEN next[current_task] ELSE first_task

Interruptible == kmode \in {"boot", "user"}

Timer ==
  /\ Interruptible
  /\ NextTask # NULL
  /\ frame' = SavedFrame
  /\ cpu_state' = SavedCpuState
  /\ current_task' = NextTask
  /\ tss' = cpu_state'[NextTask]
  /\ running' = frame'[tss']
  /\ kmode' = "user"
  /\ UNCHANGED <<next, pid, first_task, countVars, memVars, loopVars, exited>>

\* With no task left schedule() loads its state from address 0.
TimerNoTask ==
  /\ Interruptible
  /\ NextTask = NULL
  /\ frame' = SavedFrame
  /\ cpu_state' = SavedCpuState
  /\ current_task' = NULL
  /\ kmode' = "wild"
  /\ UNCHANGED <<next, pid, first_task, tss, running, countVars, memVars,
                 loopVars, exited>>

--------------------------------------------------------------------------------
(* System calls.  int 0x30 pushes the caller's state on its kernel stack;  *)
(* the return loads whatever that frame then holds.                        *)

Syscall(name) ==
  /\ kmode = "user"
  /\ running # Boot
  /\ running \in exited => name \in PostExit
  /\ frame' = [frame EXCEPT ![tss] = running]

Iret ==
  /\ kmode' = "user"
  /\ running' = frame'[tss]

\* Every system call that neither touches tasks nor waits.
PlainSyscall ==
  /\ Syscall("OTHER")
  /\ Iret
  /\ UNCHANGED <<listVars, countVars, tss, memVars, loopVars, exited>>

\* LOADF loads every module of the wanted name, not only the first one.
Loads(name) ==
  {i \in DOMAIN Modules : Modules[i].name = name /\ Modules[i].elf}

LoadfEnter(name) ==
  /\ Syscall("LOADF")
  /\ nextpid + Cardinality(Loads(name)) <= MaxPid + 1
  /\ kmode' = "loadf"
  /\ idx' = 0
  /\ wanted' = name
  /\ UNCHANGED <<listVars, countVars, tss, running, memVars, temp, exited>>

LoadfStep ==
  /\ kmode = "loadf"
  /\ idx < Len(Modules)
  /\ idx' = (idx + 1) % IndexSpan
  /\ IF idx + 1 \in Loads(wanted)
       THEN InitTask("loadf") /\ UNCHANGED current_task
       ELSE UNCHANGED <<listVars, countVars, memVars, frame, kmode>>
  /\ UNCHANGED <<tss, running, temp, wanted, exited>>

LoadfReturn ==
  /\ kmode = "loadf"
  /\ idx >= Len(Modules)
  /\ UNCHANGED frame
  /\ Iret
  /\ UNCHANGED <<listVars, countVars, tss, memVars, loopVars, exited>>

\* GETCHAR polls the keyboard with interrupts off until a key maps to a
\* character.
GetcharEnter ==
  /\ Syscall("GETCHAR")
  /\ kmode' = "getchar"
  /\ UNCHANGED <<listVars, countVars, tss, running, memVars, loopVars, exited>>

GetcharReturn ==
  /\ kmode = "getchar"
  /\ UNCHANGED frame
  /\ Iret
  /\ UNCHANGED <<listVars, countVars, tss, memVars, loopVars, exited>>

--------------------------------------------------------------------------------
(* EXIT: kexit unlinks the task whose pid is current_task's.               *)

\* A comparison of two pids; one read through NULL matches no pid.
SamePid(a, b) == a # NULL /\ b # NULL /\ pid[a] = pid[b]

\* The current task heads the list: kexit moves first_task and returns.
KexitHead ==
  /\ Syscall("EXIT")
  /\ SamePid(current_task, first_task)
  /\ exited' = exited \cup {running}
  /\ proccount' = proccount - 1
  /\ first_task' = next[first_task]
  /\ Iret
  /\ UNCHANGED <<next, pid, cpu_state, current_task, nextpid, tss, memVars,
                 loopVars>>

\* Mutant: only the head's case counts the task out.
KexitEnter_NotCounted ==
  /\ Syscall("EXIT")
  /\ ~SamePid(current_task, first_task)
  /\ exited' = exited \cup {running}
  /\ temp' = first_task
  /\ kmode' = "kexit"
  /\ UNCHANGED <<listVars, countVars, tss, running, memVars, idx, wanted>>

\* Otherwise it walks the list from its head.
KexitEnter ==
  /\ Syscall("EXIT")
  /\ ~SamePid(current_task, first_task)
  /\ exited' = exited \cup {running}
  /\ proccount' = proccount - 1
  /\ temp' = first_task
  /\ kmode' = "kexit"
  /\ UNCHANGED <<listVars, nextpid, tss, running, memVars, idx, wanted>>

\* Mutant: the walk starts over instead of moving on.
KexitSkip_Restart ==
  /\ kmode = "kexit"
  /\ temp # NULL
  /\ next[temp] # NULL
  /\ ~SamePid(next[temp], current_task)
  /\ temp' = first_task
  /\ UNCHANGED <<listVars, countVars, cpuVars, memVars, idx, wanted, kmode,
                 exited>>

\* One iteration that does not find the current task.
KexitSkip ==
  /\ kmode = "kexit"
  /\ temp # NULL
  /\ next[temp] # NULL
  /\ ~SamePid(next[temp], current_task)
  /\ temp' = next[temp]
  /\ UNCHANGED <<listVars, countVars, cpuVars, memVars, idx, wanted, kmode,
                 exited>>

\* Mutant: the task is never taken out of the list.
KexitUnlink_StaysLinked ==
  /\ kmode = "kexit"
  /\ temp # NULL
  /\ SamePid(next[temp], current_task)
  /\ next' = next
  /\ current_task' = next[next[temp]]
  /\ temp' = next[next[temp]]
  /\ UNCHANGED <<pid, cpu_state, first_task, countVars, cpuVars, memVars, idx,
                 wanted, kmode, exited>>

\* Mutant: the predecessor becomes the current task.
KexitUnlink_Predecessor ==
  /\ kmode = "kexit"
  /\ temp # NULL
  /\ SamePid(next[temp], current_task)
  /\ next' = [next EXCEPT ![temp] = next[next[temp]]]
  /\ current_task' = temp
  /\ temp' = next'[temp]
  /\ UNCHANGED <<pid, cpu_state, first_task, countVars, cpuVars, memVars, idx,
                 wanted, kmode, exited>>

\* One iteration that does: it unlinks the task, makes its successor the
\* current task and goes on from there, even if there is no successor.
KexitUnlink ==
  /\ kmode = "kexit"
  /\ temp # NULL
  /\ SamePid(next[temp], current_task)
  /\ next' = [next EXCEPT ![temp] = next[next[temp]]]
  /\ current_task' = next'[temp]
  /\ temp' = next'[temp]
  /\ UNCHANGED <<pid, cpu_state, first_task, countVars, cpuVars, memVars, idx,
                 wanted, kmode, exited>>

KexitReturn ==
  /\ kmode = "kexit"
  /\ temp # NULL => next[temp] = NULL
  /\ UNCHANGED frame
  /\ Iret
  /\ UNCHANGED <<listVars, countVars, tss, memVars, loopVars, exited>>

\* kexit has a NULL pointer in its hands: what it reads at address 0 can end
\* the walk (the steps above) or lead it anywhere.
KexitNull ==
  /\ kmode = "kexit"
  /\ temp = NULL \/ current_task = NULL
  /\ kmode' = "wild"
  /\ UNCHANGED <<listVars, countVars, cpuVars, memVars, loopVars, exited>>

--------------------------------------------------------------------------------
(* An exception, or REBOOT, ends everything: the handler never returns.    *)

Halt ==
  /\ kmode = "user"
  /\ running # Boot
  /\ kmode' = "halted"
  /\ frame' = [frame EXCEPT ![tss] = running]
  /\ UNCHANGED <<listVars, countVars, tss, running, memVars, loopVars, exited>>

Stopped == kmode \in {"halted", "wild"}

StayStopped == Stopped /\ UNCHANGED vars

Next ==
  \/ InitMultitasking
  \/ Timer \/ TimerNoTask
  \/ PlainSyscall
  \/ \E name \in Names : LoadfEnter(name)
  \/ LoadfStep \/ LoadfReturn
  \/ GetcharEnter \/ GetcharReturn
  \/ KexitHead \/ KexitEnter \/ KexitSkip \/ KexitUnlink \/ KexitReturn
  \/ KexitNull
  \/ Halt \/ StayStopped

Spec == Init /\ [][Next]_vars

(***************************************************************************)
(* Fairness.  The kernel's loops run on.  The PIC latches a tick that      *)
(* comes while IF = 0 and delivers it at the first iret, so however often  *)
(* a program enters the kernel it cannot keep the timer out.  Nothing is   *)
(* assumed of programs or of the keyboard.                                 *)
(***************************************************************************)
KernelStep ==
  LoadfStep \/ LoadfReturn \/ KexitSkip \/ KexitUnlink \/ KexitReturn

Fairness ==
  /\ WF_vars(InitMultitasking)
  /\ WF_vars(KernelStep)
  /\ SF_vars(Timer)
  /\ SF_vars(TimerNoTask)

FairSpec == Spec /\ Fairness

--------------------------------------------------------------------------------
(* Properties.  Those about the list and the memory say nothing once the   *)
(* kernel is wild; the README says which programs get it there.            *)

Created == 1 .. nextpid - 1

Live == Created \ exited

LiveTask == {p \in Page : pid[p] # 0 /\ pid[p] \notin exited}

\* p is the most recently started task of S; NULL when there is none.
Newest(p, S) ==
  IF S = {} THEN p = NULL
            ELSE p \in S /\ \A q \in S : pid[q] <= pid[p]

\* The tasks of S started before p was.
Older(S, p) == {q \in S : pid[q] < pid[p]}

\* While kexit walks, the task it has yet to unlink is still on the list.
Linked ==
  IF kmode = "kexit" /\ current_task # NULL
    THEN LiveTask \cup {current_task} ELSE LiveTask

\* The list that init_task and kexit keep through `next' holds every live
\* task once, newest first, and nothing else: no cycle, no exited task.
RunList ==
  kmode # "wild" =>
    /\ Newest(first_task, Linked)
    /\ \A p \in Linked : Newest(next[p], Older(Linked, p))

\* A program that has not exited is the one current_task stands for, so its
\* EXIT ends its own task and its context is saved in its own structure.
CallerIsCurrent ==
  kmode # "wild" /\ running # Boot /\ running \notin exited =>
    current_task # NULL /\ pid[current_task] = running

\* When a task's saved context is another program's, that program has exited
\* and was started later: a slot is only ever lost to kexit's caller, which
\* kexit left running as the next older task.
ThiefIsNewer ==
  kmode # "wild" =>
    \A p \in Page : pid[p] # 0 =>
      \E c \in Created :
        /\ cpu_state[p] = stack[c]
        /\ c = pid[p] \/ (c \in exited /\ c > pid[p])

\* The info line's "Running Processes": proccount, across init_task, LOADF
\* loading several files and both ways through kexit.
ProcCount == proccount = Cardinality(Live)

\* No page serves two purposes: kernel stacks, user stacks and structures of
\* all the tasks ever started are on different pages, none free again.
OwnMemory ==
  kmode # "wild" =>
    /\ \A t \in Created : {stack[t], user_stack[t]} \subseteq FreePages \ bitmap
    /\ \A p \in Page : pid[p] # 0 => p \in FreePages \ bitmap
    /\ \A t, u \in Created :
         /\ stack[t] # user_stack[u]
         /\ t # u => stack[t] # stack[u] /\ user_stack[t] # user_stack[u]
    /\ \A t \in Created : pid[stack[t]] = 0 /\ pid[user_stack[t]] = 0

\* tasks.c:191-195: what schedule() saves for a task is that task's own
\* context, to be restored when it is next called.
ContextKept ==
  kmode = "user" => \A p \in LiveTask : cpu_state[p] = stack[pid[p]]

\* The slot in which a task's context is saved has gone to another program.
Robbed(t) == \E p \in Page : pid[p] = t /\ cpu_state[p] # stack[t]

\* Every live task that still has its slot gets the processor again, as long
\* as the keyboard answers whoever waits for it and nothing stops the system.
RoundRobin ==
  []<>(kmode # "getchar") =>
    \A t \in Pid :
      t \in Live /\ ~Robbed(t) ~> running = t \/ t \notin Live \/ Robbed(t) \/ Stopped

\* A handler that loops comes back to its caller: LOADF's i reaches
\* mods_count before it wraps, and kexit's walk along the list ends.
HandlersReturn == \A m \in {"loadf", "kexit"} : kmode = m ~> kmode # m

\* What schedule(), init_task and kexit make of the list is a circle of turns.
T == INSTANCE Turns WITH
       live    <- Live,
       turn    <- IF current_task = NULL THEN 0 ELSE pid[current_task],
       stopped <- Stopped

\* Whatever the order of loads, ticks and exits, also a tick or a load that
\* comes while current_task is off the list, nobody's turn is left out.
ImplementsTurns == T!TurnsSpec
================================================================================
